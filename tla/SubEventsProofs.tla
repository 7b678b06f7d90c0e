-------------------------- MODULE SubEventsProofs --------------------------
(***************************************************************************)
(* createSubEvents, for every event and whatever rand() gives: the types,  *)
(* the shares of the work and the turns in which requests are taken, as    *)
(* invariants that every turn of its loops keeps.  TraceLineProofs draws   *)
(* the theorems about a whole trace line from them.                        *)
(***************************************************************************)
EXTENDS SubEvents, FiniteSetTheorems, WellFoundedInduction, TLAPS

\* First-order leaves go to Zenon, the others name their solver.
USE Zenon

\* Quotient and remainder, the arithmetic of Address and of lineStart.
LEMMA DivMod ==
    ASSUME NEW a \in Nat, NEW b \in Nat \ {0}
    PROVE  /\ a \div b \in Nat /\ a % b \in 0 .. (b - 1)
           /\ a = ((a \div b) * b) + (a % b)
BY SMTT(20)

\* A number below the divisor is the remainder.
LEMMA ModUnique ==
    ASSUME NEW b \in Nat \ {0}, NEW q \in Nat, NEW r \in 0 .. (b - 1)
    PROVE  ((q * b) + r) % b = r
<1> DEFINE n == (q * b) + r
           d == n \div b
           m == n % b
<1>1. n \in Nat BY SMTT(20)
<1>2. d \in Nat /\ m \in 0 .. (b-1) /\ n = (d * b) + m BY <1>1, DivMod
<1>3. (q * b) + r = (d * b) + m BY <1>2
<1>. HIDE DEF n, d, m
<1>4. (d - q) * b = r - m BY <1>2, <1>3, SMTT(20)
<1>5. d = q BY <1>2, <1>4, SMTT(20)
<1>6. r = m BY <1>5, <1>4, <1>2, SMTT(20)
<1> QED BY <1>6 DEF m, n

\* A non-empty set of natural numbers has a least element.
LEMMA LeastNat ==
    ASSUME NEW T \in SUBSET Nat, T # {}
    PROVE  \E x \in T : \A y \in T : x <= y
<1>. DEFINE R == {ss \in Nat \X Nat : ss[1] < ss[2]}
<1>1. IsWellFoundedOn(R, Nat)
    BY NatLessThanWellFounded DEF OpToRel
<1>2. PICK x \in T : \A y \in T : ~(<<y, x>> \in R)
    <2>. HIDE DEF R
    <2>. QED BY <1>1, WFMin
<1>3. ASSUME NEW y \in T PROVE x <= y
    <2>1. y < x => <<y, x>> \in R
        OBVIOUS
    <2>2. x \in Nat /\ y \in Nat
        OBVIOUS
    <2>. HIDE DEF R
    <2>. QED BY <1>2, <2>1, <2>2, SMTT(20)
<1>. QED BY <1>3

\* Induction up to n, over the set of the numbers for which a statement holds.
LEMMA UpTo ==
    ASSUME NEW n \in Nat, NEW G, 0 \in G,
           \A i \in 1 .. n : i - 1 \in G => i \in G
    PROVE  \A i \in 0 .. n : i \in G
<1>. DEFINE T == {i \in 0 .. n : i \notin G}
<1>. SUFFICES ASSUME T # {} PROVE FALSE
    OBVIOUS
<1>1. T \in SUBSET Nat
    BY SMTT(20)
<1>2. PICK m \in T : \A i \in T : m <= i
    BY <1>1, LeastNat
<1>3. m \in 0 .. n /\ m \notin G /\ m # 0
    BY <1>2
<1>4. m \in 1 .. n /\ m - 1 \in 0 .. n /\ ~(m <= m - 1)
    BY <1>3, SMTT(20)
<1>5. m - 1 \in G
    BY <1>2, <1>4
<1>. QED BY <1>3, <1>4, <1>5

\* f runs the steps one after the other from a.
Runs(n, S, a, step, f) ==
    /\ f \in [0 .. n -> S] /\ f[0] = a
    /\ \A i \in 1 .. n : f[i] = step[i][f[i - 1]]

\* A function defined by recursion on its argument exists.
LEMMA Recursion ==
    ASSUME NEW n \in Nat, NEW S, NEW a \in S, NEW step \in [1 .. n -> [S -> S]]
    PROVE  \E f : Runs(n, S, a, step, f)
<1>. DEFINE G == {m \in 0 .. n : \E f : Runs(m, S, a, step, f)}
<1>1. 0 \in G
    <2>. DEFINE f == [i \in 0 .. 0 |-> a]
    <2>1. 0 \in 0 .. n /\ 0 \in 0 .. 0 /\ 1 .. 0 = {}
        BY SMTT(20)
    <2>2. Runs(0, S, a, step, f)
        BY <2>1 DEF Runs
    <2>. QED BY <2>1, <2>2
<1>2. ASSUME NEW m \in 1 .. n, m - 1 \in G
      PROVE  m \in G
    <2>1. PICK f : Runs(m - 1, S, a, step, f)
        BY <1>2
    <2>. DEFINE g == [i \in 0 .. m |-> IF i = m THEN step[m][f[m - 1]] ELSE f[i]]
    <2>2. /\ m \in 0 .. n /\ m - 1 \in 0 .. m - 1 /\ 0 \in 0 .. m /\ 0 # m /\ m \in 0 .. m
          /\ \A i \in 0 .. m : i # m => i \in 0 .. m - 1
          /\ \A i \in 1 .. m : i \in 0 .. m /\ i - 1 \in 0 .. m /\ i - 1 # m
          /\ \A i \in 1 .. m : i # m => i \in 1 .. m - 1
        BY SMTT(20)
    <2>3. g \in [0 .. m -> S]
        BY <2>1, <2>2 DEF Runs
    <2>4. g[0] = a
        BY <2>1, <2>2 DEF Runs
    <2>5. ASSUME NEW i \in 1 .. m PROVE g[i] = step[i][g[i - 1]]
        <3>1. g[i - 1] = f[i - 1]
            BY <2>2
        <3>2. CASE i = m
            BY <2>2, <3>1, <3>2
        <3>3. CASE i # m
            <4>1. g[i] = f[i] /\ f[i] = step[i][f[i - 1]]
                BY <2>1, <2>2, <3>3 DEF Runs
            <4>. QED BY <3>1, <4>1
        <3>. QED BY <3>2, <3>3
    <2>. HIDE DEF g
    <2>6. Runs(m, S, a, step, g)
        BY <2>3, <2>4, <2>5 DEF Runs
    <2>. QED BY <2>2, <2>6
<1>. HIDE DEF G
<1>3. n \in G
    <2>1. \A m \in 1 .. n : m - 1 \in G => m \in G
        BY <1>2
    <2>2. \A m \in 0 .. n : m \in G
        BY <1>1, <2>1, UpTo
    <2>. QED BY <2>2, SMTT(20)
<1>. QED BY <1>3 DEF G

-----------------------------------------------------------------------------
(* Sums over a list. *)

\* Total, of any list.
SumOver(l, field) ==
    LET sum[n \in 0 .. Len(l)] == IF n = 0 THEN 0 ELSE sum[n - 1] + l[n][field]
    IN  sum[Len(l)]

\* c holds the sums of f up to each place.
Sums(f, n, c) ==
    /\ c \in [0 .. n -> Nat] /\ c[0] = 0
    /\ \A i \in 1 .. n : c[i] = c[i - 1] + f[i]

\* The partial sums exist.
LEMMA SumsExist ==
    ASSUME NEW n \in Nat, NEW f \in [1 .. n -> Nat]
    PROVE  \E c : Sums(f, n, c)
<1>. DEFINE step == [i \in 1 .. n |-> [x \in Nat |-> x + f[i]]]
<1>1. step \in [1 .. n -> [Nat -> Nat]] /\ 0 \in Nat
    BY SMTT(20)
<1>2. PICK c : Runs(n, Nat, 0, step, c)
    <2>. HIDE DEF step
    <2>. QED BY <1>1, Recursion
<1>3. \A i \in 1 .. n : c[i - 1] \in Nat
    <2>1. \A i \in 1 .. n : i - 1 \in 0 .. n
        BY SMTT(20)
    <2>. QED BY <1>2, <2>1 DEF Runs
<1>4. \A i \in 1 .. n : c[i] = c[i - 1] + f[i]
    BY <1>2, <1>3 DEF Runs
<1>. QED BY <1>2, <1>4 DEF Sums, Runs

\* A field of a list.
Field(l, field) == [i \in 1 .. Len(l) |-> l[i][field]]

\* SumOver is the last partial sum.
LEMMA SumIsLast ==
    ASSUME NEW l, NEW field, Len(l) \in Nat, \A i \in 1 .. Len(l) : l[i][field] \in Nat
    PROVE  \E c : Sums(Field(l, field), Len(l), c) /\ SumOver(l, field) = c[Len(l)]
<1>. DEFINE n == Len(l)
            f == Field(l, field)
            Rec(s) == s = [i \in 0 .. n |-> IF i = 0 THEN 0 ELSE s[i - 1] + l[i][field]]
            sum == CHOOSE s : Rec(s)
<1>0. /\ 0 \in 0 .. n
      /\ \A i \in 1 .. n : i \in 0 .. n /\ i # 0 /\ i - 1 \in 0 .. n
      /\ \A i \in 0 .. n : i # 0 => i \in 1 .. n
    BY SMTT(20)
<1>1. PICK c : Sums(f, n, c)
    <2>1. f \in [1 .. n -> Nat]
        BY DEF Field
    <2>. HIDE DEF f
    <2>. QED BY <2>1, SumsExist
<1>2. Rec(c)
    <2>1. ASSUME NEW i \in 0 .. n
          PROVE  c[i] = IF i = 0 THEN 0 ELSE c[i - 1] + l[i][field]
        BY <1>0, <1>1 DEF Sums, Field
    <2>2. c = [i \in 0 .. n |-> c[i]]
        BY <1>1 DEF Sums
    <2>. QED BY <2>1, <2>2
<1>3. Rec(sum)
    <2>. HIDE DEF Rec
    <2>. QED BY <1>2
<1>4. SumOver(l, field) = sum[n]
    BY DEF SumOver
<1>5. sum = c
    <2>. DEFINE G == {i \in 0 .. n : sum[i] = c[i]}
    <2>. HIDE DEF sum
    <2>1. 0 \in G
        BY <1>0, <1>1, <1>3 DEF Sums
    <2>2. ASSUME NEW i \in 1 .. n, i - 1 \in G PROVE i \in G
        <3>1. sum[i] = sum[i - 1] + l[i][field]
            BY <1>0, <1>3
        <3>2. c[i] = c[i - 1] + l[i][field]
            BY <1>1 DEF Sums, Field
        <3>. QED BY <1>0, <2>2, <3>1, <3>2
    <2>3. \A i \in 0 .. n : i \in G
        <3>. HIDE DEF G
        <3>. QED BY <2>1, <2>2, UpTo
    <2>4. sum = [i \in 0 .. n |-> sum[i]] /\ c = [i \in 0 .. n |-> c[i]]
        BY <1>1, <1>3 DEF Sums
    <2>. QED BY <2>3, <2>4
<1>. QED BY <1>1, <1>4, <1>5

\* g is f with e more at place k.
More(f, g, n, k, e) == \A i \in 1 .. n : g[i] = f[i] + (IF i = k THEN e ELSE 0)

\* The sum d is ahead of the sum c by e from place k on.
Ahead(c, d, j, k, e) == c[j] \in Nat /\ d[j] = c[j] + (IF k <= j THEN e ELSE 0)

\* Adding e at place k adds it to the sums from k on.
LEMMA SumsShift ==
    ASSUME NEW n \in Nat, NEW m \in Nat, n <= m, NEW k \in Nat \ {0}, NEW e \in Nat,
           NEW f \in [1 .. n -> Nat], NEW g \in [1 .. m -> Nat],
           NEW c, NEW d, Sums(f, n, c), Sums(g, m, d), More(f, g, n, k, e),
           NEW j \in 0 .. n
    PROVE  Ahead(c, d, j, k, e)
<1>. DEFINE G == {i \in 0 .. n : d[i] = c[i] + (IF k <= i THEN e ELSE 0)}
<1>0. /\ \A i \in 0 .. n : c[i] \in Nat
      /\ \A i \in 1 .. n : i \in 1 .. m /\ i - 1 \in 0 .. n /\ i \in 0 .. n
      /\ 0 \in 0 .. n
    <2>1. /\ \A i \in 1 .. n : i \in 1 .. m /\ i - 1 \in 0 .. n /\ i \in 0 .. n
          /\ 0 \in 0 .. n
        BY SMTT(20)
    <2>. QED BY <2>1 DEF Sums
<1>1. 0 \in G
    BY <1>0, SMTT(20) DEF Sums
<1>2. ASSUME NEW i \in 1 .. n, i - 1 \in G PROVE i \in G
    <2>1. /\ c[i] = c[i - 1] + f[i] /\ d[i] = d[i - 1] + g[i] /\ f[i] \in Nat /\ c[i - 1] \in Nat
          /\ g[i] = f[i] + (IF i = k THEN e ELSE 0)
          /\ d[i - 1] = c[i - 1] + (IF k <= i - 1 THEN e ELSE 0)
        BY <1>0, <1>2 DEF Sums, More
    <2>2. PICK x \in Nat, y \in Nat : x = f[i] /\ y = c[i - 1]
        BY <2>1
    <2>3. c[i] = y + x /\ d[i] = (y + (IF k <= i - 1 THEN e ELSE 0)) + (x + (IF i = k THEN e ELSE 0))
        BY <2>1, <2>2
    <2>4. (y + (IF k <= i - 1 THEN e ELSE 0)) + (x + (IF i = k THEN e ELSE 0))
              = (y + x) + (IF k <= i THEN e ELSE 0)
        BY SMTT(20)
    <2>. QED BY <1>0, <2>3, <2>4
<1>3. \A i \in 0 .. n : i \in G
    <2>. HIDE DEF G
    <2>. QED BY <1>1, <1>2, UpTo
<1>. QED BY <1>0, <1>3 DEF Ahead

\* The field of m is that of l with e more at place k.
Dealt(l, m, field, k, e) ==
    /\ Len(l) \in Nat /\ Len(m) = Len(l) /\ (k \in 1 .. Len(l) \/ e = 0)
    /\ \A i \in 1 .. Len(l) : /\ l[i][field] \in Nat
                              /\ m[i][field] = l[i][field] + (IF i = k THEN e ELSE 0)

\* What becomes of the sum of a field when one more is counted at a place, or none.
LEMMA SumChange ==
    ASSUME NEW l, NEW m, NEW field, NEW k \in Nat \ {0}, NEW e \in Nat, Dealt(l, m, field, k, e)
    PROVE  SumOver(l, field) \in Nat /\ SumOver(m, field) = SumOver(l, field) + e
<1>. DEFINE n == Len(l)
            f == Field(l, field)
            g == Field(m, field)
<1>0. /\ n \in Nat /\ Len(m) = n /\ (k \in 1 .. n \/ e = 0)
      /\ \A i \in 1 .. n : /\ l[i][field] \in Nat
                           /\ m[i][field] = l[i][field] + (IF i = k THEN e ELSE 0)
    BY DEF Dealt
<1>1. \A i \in 1 .. n : m[i][field] \in Nat
    <2>. HIDE DEF n
    <2>. QED BY <1>0, SMTT(20)
<1>2. PICK c : Sums(f, n, c) /\ SumOver(l, field) = c[n]
    BY <1>0, SumIsLast
<1>3. PICK d : Sums(g, n, d) /\ SumOver(m, field) = d[n]
    BY <1>0, <1>1, SumIsLast
<1>4. /\ f \in [1 .. n -> Nat] /\ g \in [1 .. n -> Nat]
      /\ More(f, g, n, k, e)
    BY <1>0, <1>1 DEF Field, More
<1>5. n <= n /\ n \in 0 .. n
    BY <1>0, SMTT(20)
<1>8. n \in Nat
    BY <1>0
<1>. HIDE DEF f, g, n
<1>6. Ahead(c, d, n, k, e)
    BY <1>2, <1>3, <1>4, <1>5, <1>8, SumsShift
<1>7. c[n] \in Nat /\ d[n] = c[n] + e
    BY <1>0, <1>6, SMTT(20) DEF Ahead
<1>. QED BY <1>2, <1>3, <1>7

\* What becomes of it when the list grows.
LEMMA SumAppend ==
    ASSUME NEW l, NEW m, NEW field, Len(l) \in Nat, Len(m) = Len(l) + 1,
           \A i \in 1 .. Len(l) : l[i][field] \in Nat /\ m[i] = l[i],
           m[Len(l) + 1][field] \in Nat
    PROVE  /\ SumOver(l, field) \in Nat
           /\ SumOver(m, field) = SumOver(l, field) + m[Len(l) + 1][field]
<1>. DEFINE n == Len(l)
            f == Field(l, field)
            g == Field(m, field)
<1>1. \A i \in 1 .. n + 1 : m[i][field] \in Nat
    <2>1. \A i \in 1 .. n + 1 : i = n + 1 \/ i \in 1 .. n
        BY SMTT(20)
    <2>. QED BY <2>1
<1>2. PICK c : Sums(f, n, c) /\ SumOver(l, field) = c[n]
    BY SumIsLast
<1>0. n \in Nat /\ n + 1 \in Nat /\ n <= n + 1 /\ n \in 0 .. n /\ n + 1 \in 1 .. n + 1 /\ (n + 1) - 1 = n
    BY SMTT(20)
<1>3. PICK d : Sums(g, n + 1, d) /\ SumOver(m, field) = d[n + 1]
    <2>1. Len(m) \in Nat
        BY <1>0
    <2>. QED BY <1>1, <2>1, SumIsLast
<1>4. f \in [1 .. n -> Nat] /\ g \in [1 .. n + 1 -> Nat] /\ g[n + 1] = m[n + 1][field]
    BY <1>0, <1>1 DEF Field
<1>5. More(f, g, n, 1, 0)
    <2>1. ASSUME NEW i \in 1 .. n PROVE g[i] = f[i] /\ f[i] \in Nat
        <3>1. i \in 1 .. n + 1
            BY SMTT(20)
        <3>. QED BY <3>1 DEF Field
    <2>. HIDE DEF f, g
    <2>. QED BY <2>1, SMTT(20) DEF More
<1>. HIDE DEF f, g, n
<1>6. Ahead(c, d, n, 1, 0)
    <2>1. 0 \in Nat /\ 1 \in Nat \ {0}
        BY SMTT(20)
    <2>. QED BY <1>0, <1>2, <1>3, <1>4, <1>5, <2>1, SumsShift
<1>7. c[n] \in Nat /\ d[n] = c[n]
    BY <1>6, SMTT(20) DEF Ahead
<1>8. d[n + 1] = d[n] + g[n + 1]
    BY <1>0, <1>3 DEF Sums
<1>. QED BY <1>2, <1>3, <1>4, <1>7, <1>8 DEF n

\* A sum is a number.
LEMMA SumType ==
    ASSUME NEW l, NEW field, Len(l) \in Nat, \A i \in 1 .. Len(l) : l[i][field] \in Nat
    PROVE  SumOver(l, field) \in Nat
<1>1. PICK c : Sums(Field(l, field), Len(l), c) /\ SumOver(l, field) = c[Len(l)]
    BY SumIsLast
<1>2. Len(l) \in 0 .. Len(l)
    BY SMTT(20)
<1>. QED BY <1>1, <1>2 DEF Sums

\* The sum over no sub-event, and over one.
LEMMA SumOfOne ==
    ASSUME NEW field, NEW x, x[field] \in Nat
    PROVE  SumOver(<< >>, field) = 0 /\ SumOver(<<x>>, field) = x[field]
<1>1. Len(<< >>) = 0 /\ 0 \in Nat /\ 1 .. 0 = {} /\ Len(<<x>>) = 0 + 1 /\ (<<x>>)[0 + 1] = x
    BY SMTT(20)
<1>2. SumOver(<< >>, field) = 0
    <2>1. \A i \in 1 .. Len(<< >>) : (<< >>)[i][field] \in Nat
        BY <1>1
    <2>2. PICK c : Sums(Field(<< >>, field), Len(<< >>), c) /\ SumOver(<< >>, field) = c[Len(<< >>)]
        BY <1>1, <2>1, SumIsLast
    <2>. QED BY <1>1, <2>2 DEF Sums
<1>3. SumOver(<<x>>, field) = 0 + x[field]
    <2>. DEFINE l == << >>
                m == <<x>>
    <2>1. /\ Len(l) \in Nat /\ Len(m) = Len(l) + 1 /\ m[Len(l) + 1][field] \in Nat
          /\ m[Len(l) + 1] = x /\ SumOver(l, field) = 0
        BY <1>1, <1>2
    <2>4. \A i \in 1 .. Len(l) : l[i][field] \in Nat /\ m[i] = l[i]
        BY <1>1
    <2>. HIDE DEF l, m
    <2>2. SumOver(m, field) = SumOver(l, field) + m[Len(l) + 1][field]
        <3>1. Len(l) \in Nat
            BY <2>1
        <3>2. Len(m) = Len(l) + 1
            BY <2>1
        <3>3. m[Len(l) + 1][field] \in Nat
            BY <2>1
        <3>. QED BY <2>4, <3>1, <3>2, <3>3, SumAppend, SMTT(20)
    <2>3. SumOver(m, field) = 0 + x[field]
        BY <2>1, <2>2
    <2>. QED BY <2>3 DEF m
<1>4. PICK a \in Nat : a = x[field]
    OBVIOUS
<1>5. 0 + a = a
    BY SMTT(20)
<1>. QED BY <1>2, <1>3, <1>4, <1>5

-----------------------------------------------------------------------------
(* Types, and room for what is left of the work. *)

\* What createSubEvents needs of its event.
EventOK(e) ==
    /\ e.type \in {"COMPUTATION", "COMMUNICATION", "PTHREAD_API"}
    /\ e.compIOPS \in Nat /\ e.compFLOPS \in Nat
    /\ e.compMem_reads \in Nat /\ e.compMem_writes \in Nat
    /\ Len(e.reads) \in Nat /\ Len(e.writes) \in Nat

SubEventRecords ==
    [numIOPS : Nat, numFLOPS : Nat, msg : {"none", "read", "write"}, request : Nat]

\* While sub-events are inserted, an access has a share of the work that leaves
\* room for what is still to be dealt out, and none is without a message.
SharesLeaveRoom ==
    /\ event.type = "COMPUTATION"
    /\ totalMemOps > 0 /\ Len(list) <= totalMemOps
    /\ (event.compIOPS \div totalMemOps) + iops <= event.compIOPS
    /\ (event.compFLOPS \div totalMemOps) + flops <= event.compFLOPS
    /\ \A i \in DOMAIN list : /\ list[i].msg # "none"
                              /\ list[i].numIOPS + iops <= event.compIOPS
                              /\ list[i].numFLOPS + flops <= event.compFLOPS

SubInv ==
    /\ EventOK(event)
    /\ list \in Seq(SubEventRecords)
    /\ SubEventsTypeOK
    /\ pc \in {"parse", "create"} => list = << >>
    /\ pc = "insert" => SharesLeaveRoom
    /\ TrapOnlyWithoutRange

\* A share and the whole remainder are not more than the total.
LEMMA ShareFits ==
    ASSUME NEW a \in Nat, NEW b \in Nat \ {0}
    PROVE  /\ a \div b \in Nat /\ a % b \in 0 .. a
           /\ (a \div b) + (a % b) <= a
<1>. DEFINE d == a \div b
            m == a % b
<1>1. d \in Nat /\ m \in 0 .. (b - 1) /\ a = (d * b) + m
    BY DivMod
<1>. HIDE DEF d, m
<1>2. d <= d * b
    BY <1>1, SMTT(20)
<1>3. d * b \in Nat
    BY <1>1, SMTT(20)
<1>4. d \in Nat /\ m \in 0 .. a /\ d + m <= a
    BY <1>1, <1>2, <1>3, SMTT(20)
<1>. QED BY <1>4 DEF d, m

\* The counts that createSubEvents compares are natural numbers.
LEMMA CountTypes ==
    ASSUME EventOK(event)
    PROVE  /\ NumReads \in Nat /\ NumWrites \in Nat
           /\ max_loc_reads \in Nat /\ max_loc_writes \in Nat
           /\ totalMemOps \in Nat
           /\ event.compMem_reads \in Nat /\ event.compMem_writes \in Nat
           /\ max_loc_reads > NumReads => event.compMem_reads > 0
           /\ max_loc_writes > NumWrites => event.compMem_writes > 0
BY SMTT(20) DEF EventOK, NumReads, NumWrites, max_loc_reads, max_loc_writes, totalMemOps, Larger

\* Every sub-event so far is a read or a write, and is counted once.
LEMMA InsertedCounts ==
    ASSUME list \in Seq(SubEventRecords), \A i \in DOMAIN list : list[i].msg # "none"
    PROVE  /\ Inserted("read") \in Nat /\ Inserted("write") \in Nat
           /\ Inserted("read") + Inserted("write") = Len(list)
<1>. DEFINE n == Len(list)
            R == {i \in 1 .. n : list[i].msg = "read"}
            W == {i \in 1 .. n : list[i].msg = "write"}
<1>0. n \in Nat /\ DOMAIN list = 1 .. n /\ \A i \in 1 .. n : list[i] \in SubEventRecords
    BY SMTT(20)
<1>1. \A i \in 1 .. n : list[i].msg \in {"read", "write"}
    <2>. TAKE i \in 1 .. n
    <2>1. list[i] \in SubEventRecords /\ list[i].msg # "none"
        BY <1>0
    <2>. QED BY <2>1 DEF SubEventRecords
<1>. HIDE DEF n
<1>2. IsFiniteSet(1 .. n) /\ Cardinality(1 .. n) = n
    <2>1. 0 \in Int /\ 1 \in Int /\ n \in Int /\ (IF 1 > n THEN 0 ELSE n - 1 + 1) = n
        BY <1>0, SMTT(20)
    <2>. QED BY <2>1, FS_Interval
<1>3. R \subseteq 1 .. n /\ W \subseteq 1 .. n /\ R \cup W = 1 .. n /\ R \cap W = {}
    BY <1>1
<1>4. IsFiniteSet(R) /\ IsFiniteSet(W)
    BY <1>2, <1>3, FS_Subset
<1>5. Cardinality(R) \in Nat /\ Cardinality(W) \in Nat
    BY <1>4, FS_CardinalityType
<1>6. Cardinality(R \cap W) = 0
    BY <1>3, FS_EmptySet
<1>7. Cardinality(R \cup W) = Cardinality(R) + Cardinality(W) - Cardinality(R \cap W)
    BY <1>4, FS_Union
<1>8. Cardinality(R) + Cardinality(W) = n
    <2>. DEFINE r == Cardinality(R)
                w == Cardinality(W)
    <2>1. n = r + w - 0
        BY <1>2, <1>3, <1>6, <1>7
    <2>2. r \in Nat /\ w \in Nat
        BY <1>5
    <2>. HIDE DEF r, w
    <2>3. r + w = n
        BY <2>1, <2>2, SMTT(20)
    <2>. QED BY <2>3 DEF r, w
<1>. QED BY <1>5, <1>8 DEF Inserted, n

\* What createSubEvents chooses is a kind that has accesses left.
LEMMA KindIsLeft ==
    ASSUME SubInv, pc = "insert", Len(list) < totalMemOps
    PROVE  LET kind == memTypeToInsert(Inserted("read"), Inserted("write"))
           IN \/ kind = "read" /\ Inserted("read") < max_loc_reads /\ max_loc_reads > 0
              \/ kind = "write" /\ Inserted("write") < max_loc_writes /\ max_loc_writes > 0
<1>. DEFINE r == Inserted("read")
            w == Inserted("write")
<1>1. list \in Seq(SubEventRecords) /\ \A i \in DOMAIN list : list[i].msg # "none"
    BY DEF SubInv, SharesLeaveRoom
<1>2. r \in Nat /\ w \in Nat /\ r + w = Len(list)
    BY <1>1, InsertedCounts
<1>3. max_loc_reads \in Nat /\ max_loc_writes \in Nat /\ totalMemOps = max_loc_reads + max_loc_writes
    BY CountTypes DEF SubInv, totalMemOps
<1>. HIDE DEF r, w
<1>4. r < max_loc_reads \/ w < max_loc_writes
    BY <1>2, <1>3, SMTT(20)
<1>5. memTypeToInsert(r, w) = "read" => r < max_loc_reads
    BY <1>2, <1>3, <1>4 DEF memTypeToInsert
<1>6. memTypeToInsert(r, w) # "read" => memTypeToInsert(r, w) = "write" /\ w < max_loc_writes
    BY <1>2, <1>3, <1>4 DEF memTypeToInsert
<1>. QED BY <1>2, <1>3, <1>5, <1>6, SMTT(20) DEF r, w

\* One turn of the insertion loop keeps the invariant: the request it names is one
\* of its kind, and it traps only where the line has no range of the kind.
LEMMA InsertInv ==
    ASSUME SubInv, Insert
    PROVE  SubInv'
<1>. DEFINE kind == memTypeToInsert(Inserted("read"), Inserted("write"))
            size == IF kind = "read" THEN NumReads ELSE NumWrites
            new == subEvent(event.compIOPS \div totalMemOps, event.compFLOPS \div totalMemOps,
                            kind, Request(kind, size))
<1>1. /\ EventOK(event) /\ list \in Seq(SubEventRecords) /\ SharesLeaveRoom /\ SubEventsTypeOK
      /\ pc = "insert" /\ Len(list) < totalMemOps
      /\ event' = event /\ iops' = iops /\ flops' = flops
    BY DEF SubInv, Insert
<1>2. /\ NumReads' = NumReads /\ NumWrites' = NumWrites
      /\ max_loc_reads' = max_loc_reads /\ max_loc_writes' = max_loc_writes
      /\ totalMemOps' = totalMemOps
    BY <1>1 DEF NumReads, NumWrites, max_loc_reads, max_loc_writes, totalMemOps
<1>3. (kind = "read" /\ max_loc_reads > 0) \/ (kind = "write" /\ max_loc_writes > 0)
    BY <1>1, KindIsLeft
<1>4. /\ NumReads \in Nat /\ NumWrites \in Nat /\ totalMemOps \in Nat
      /\ max_loc_reads > NumReads => event.compMem_reads > 0
      /\ max_loc_writes > NumWrites => event.compMem_writes > 0
    BY <1>1, CountTypes
<1>5. CASE size = 0
    <2>1. pc' = "trap" /\ list' = list /\ flip' = flip
        BY <1>5 DEF Insert
    <2>2. \/ event.compMem_reads > 0 /\ NumReads = 0
          \/ event.compMem_writes > 0 /\ NumWrites = 0
        BY <1>3, <1>4, <1>5
    <2>3. TrapOnlyWithoutRange'
        BY <1>1, <1>2, <2>2 DEF TrapOnlyWithoutRange
    <2>4. SubEventsTypeOK'
        BY <1>1, <1>2, <2>1 DEF SubEventsTypeOK
    <2>. QED BY <1>1, <2>1, <2>3, <2>4 DEF SubInv
<1>6. CASE size # 0
    <2>1. pc' = pc /\ list' = Append(list, new) /\ flip' = IF flip = "write" THEN "read" ELSE "write"
        BY <1>6 DEF Insert
    <2>2. size \in Nat \ {0} /\ (kind = "read" => size = NumReads) /\ (kind = "write" => size = NumWrites)
        BY <1>3, <1>4, <1>6
    <2>3. Inserted("read") \in Nat /\ Inserted("write") \in Nat
        BY <1>1, InsertedCounts DEF SharesLeaveRoom
    <2>4. Request(kind, size) \in 0 .. (size - 1)
        BY <1>3, <2>2, <2>3, DivMod DEF Request
    <2>5. /\ event.compIOPS \div totalMemOps \in Nat /\ event.compFLOPS \div totalMemOps \in Nat
          /\ iops \in Nat /\ flops \in Nat /\ event.compIOPS \in Nat /\ event.compFLOPS \in Nat
        <3>1. event.compIOPS \in Nat /\ event.compFLOPS \in Nat /\ totalMemOps \in Nat \ {0}
            BY <1>1, <1>4, SMTT(20) DEF EventOK, SharesLeaveRoom
        <3>2. iops \in Nat /\ flops \in Nat
            BY <1>1, <3>1, SMTT(20) DEF SubEventsTypeOK
        <3>. QED BY <3>1, <3>2, ShareFits
    <2>6. /\ new.numIOPS = event.compIOPS \div totalMemOps /\ new.numFLOPS = event.compFLOPS \div totalMemOps
          /\ new.msg = kind /\ new.request \in 0 .. (size - 1) /\ new \in SubEventRecords
        BY <1>3, <2>2, <2>4, <2>5, SMTT(20) DEF subEvent, SubEventRecords
    <2>. HIDE DEF new, size, kind
    <2>7. /\ list' \in Seq(SubEventRecords) /\ Len(list') = Len(list) + 1 /\ Len(list) \in Nat
          /\ DOMAIN list' = 1 .. (Len(list) + 1) /\ DOMAIN list = 1 .. Len(list)
          /\ \A i \in 1 .. Len(list) : list'[i] = list[i]
          /\ list'[Len(list) + 1] = new
        BY <1>1, <2>1, <2>6, SMTT(20)
    <2>8. SharesLeaveRoom'
        <3>1. ASSUME NEW i \in DOMAIN list'
              PROVE  /\ list'[i].msg # "none"
                     /\ list'[i].numIOPS + iops <= event.compIOPS
                     /\ list'[i].numFLOPS + flops <= event.compFLOPS
            BY <1>1, <1>3, <2>6, <2>7, SMTT(20) DEF SharesLeaveRoom
        <3>2. Len(list') <= totalMemOps
            BY <1>1, <1>4, <2>7, SMTT(20)
        <3>. QED BY <1>1, <1>2, <3>1, <3>2 DEF SharesLeaveRoom
    <2>9. SubEventsTypeOK'
        <3>1. ASSUME NEW i \in DOMAIN list'
              PROVE  /\ list'[i].numIOPS \in 0 .. event.compIOPS /\ list'[i].numFLOPS \in 0 .. event.compFLOPS
                     /\ \/ list'[i].msg = "none" /\ list'[i].request = 0
                        \/ list'[i].msg = "read" /\ list'[i].request \in 0 .. (NumReads - 1)
                        \/ list'[i].msg = "write" /\ list'[i].request \in 0 .. (NumWrites - 1)
            <4>1. CASE i = Len(list) + 1
                <5>1. list'[i] = new
                    BY <4>1, <2>7
                <5>2. new.numIOPS \in 0 .. event.compIOPS /\ new.numFLOPS \in 0 .. event.compFLOPS
                    BY <1>1, <2>5, <2>6, SMTT(20) DEF SharesLeaveRoom
                <5>. QED BY <5>1, <5>2, <1>3, <2>2, <2>6
            <4>2. CASE i \in 1 .. Len(list)
                BY <4>2, <1>1, <2>7 DEF SubEventsTypeOK
            <4>. QED BY <4>1, <4>2, <2>7, SMTT(20)
        <3>2. flip' \in {"read", "write"}
            BY <2>1
        <3>. QED BY <1>1, <1>2, <2>1, <3>1, <3>2 DEF SubEventsTypeOK
    <2>10. TrapOnlyWithoutRange' /\ pc' = "insert"
        BY <1>1, <2>1 DEF TrapOnlyWithoutRange
    <2>. QED BY <1>1, <2>7, <2>8, <2>9, <2>10 DEF SubInv
<1>. QED BY <1>5, <1>6

\* One operation of a remainder goes to a sub-event that has room for it.
LEMMA DistributeInv ==
    ASSUME SubInv, DistributeIOPS \/ DistributeFLOPS
    PROVE  SubInv'
<1>1. /\ EventOK(event) /\ list \in Seq(SubEventRecords) /\ SharesLeaveRoom /\ SubEventsTypeOK
      /\ pc = "insert" /\ event' = event /\ flip' = flip /\ pc' = pc
    BY DEF SubInv, DistributeIOPS, DistributeFLOPS
<1>2. /\ NumReads' = NumReads /\ NumWrites' = NumWrites /\ totalMemOps' = totalMemOps
    BY <1>1 DEF NumReads, NumWrites, max_loc_reads, max_loc_writes, totalMemOps
<1>3. /\ event.compIOPS \in Nat /\ event.compFLOPS \in Nat /\ totalMemOps \in Nat \ {0}
      /\ iops \in Nat /\ flops \in Nat
    <2>1. event.compIOPS \in Nat /\ event.compFLOPS \in Nat /\ totalMemOps \in Nat \ {0}
        BY <1>1, CountTypes, SMTT(20) DEF EventOK, SharesLeaveRoom
    <2>. QED BY <1>1, <2>1, SMTT(20) DEF SubEventsTypeOK
<1>4. /\ Len(list) \in Nat /\ DOMAIN list = 1 .. Len(list)
      /\ \A i \in DOMAIN list :
            /\ list[i] \in SubEventRecords
            /\ list[i].numIOPS \in Nat /\ list[i].numFLOPS \in Nat
    <2>1. Len(list) \in Nat /\ DOMAIN list = 1 .. Len(list) /\ \A i \in DOMAIN list : list[i] \in SubEventRecords
        BY <1>1, SMTT(20)
    <2>. QED BY <2>1 DEF SubEventRecords
<1>5. iops' \in Nat /\ flops' \in Nat /\ iops' <= iops /\ flops' <= flops
    BY <1>3, SMTT(20) DEF DistributeIOPS, DistributeFLOPS
<1>6. /\ DOMAIN list' = DOMAIN list
      /\ \A i \in DOMAIN list :
            /\ list'[i] \in SubEventRecords
            /\ list'[i].msg = list[i].msg /\ list'[i].request = list[i].request
            /\ list'[i].numIOPS \in Nat /\ list'[i].numFLOPS \in Nat
            /\ list'[i].numIOPS + iops' <= list[i].numIOPS + iops
            /\ list'[i].numFLOPS + flops' <= list[i].numFLOPS + flops
    <2>1. ASSUME NEW i \in DOMAIN list, list'[i] = list[i]
          PROVE  /\ list'[i].numIOPS + iops' <= list[i].numIOPS + iops
                 /\ list'[i].numFLOPS + flops' <= list[i].numFLOPS + flops
        <3>1. list[i].numIOPS \in Nat /\ list[i].numFLOPS \in Nat
            BY <1>4
        <3>. QED BY <2>1, <3>1, <1>3, <1>5, SMTT(20)
    <2>2. CASE DistributeIOPS
        <3>1. PICK k \in 1 .. totalMemOps : list' = [list EXCEPT ![k].numIOPS = @ + 1]
            BY <2>2 DEF DistributeIOPS
        <3>2. iops' = iops - 1 /\ flops' = flops
            BY <2>2 DEF DistributeIOPS
        <3>3. ASSUME NEW i \in DOMAIN list, i = k
              PROVE  /\ list'[i] \in SubEventRecords
                     /\ list'[i].msg = list[i].msg /\ list'[i].request = list[i].request
                     /\ list'[i].numIOPS = list[i].numIOPS + 1 /\ list'[i].numFLOPS = list[i].numFLOPS
            <4>1. list[i] \in SubEventRecords /\ list'[i] = [list[i] EXCEPT !.numIOPS = @ + 1]
                BY <3>1, <3>3, <1>4
            <4>. QED BY <4>1, SMTT(20) DEF SubEventRecords
        <3>4. ASSUME NEW i \in DOMAIN list, i # k
              PROVE  list'[i] = list[i]
            BY <3>1, <3>4
        <3>5. ASSUME NEW i \in DOMAIN list, i = k
              PROVE  /\ list'[i].numIOPS \in Nat /\ list'[i].numFLOPS \in Nat
                     /\ list'[i].numIOPS + iops' <= list[i].numIOPS + iops
                     /\ list'[i].numFLOPS + flops' <= list[i].numFLOPS + flops
            <4>1. list[i].numIOPS \in Nat /\ list[i].numFLOPS \in Nat
                BY <1>4
            <4>. QED BY <4>1, <3>2, <3>3, <3>5, <1>3, SMTT(20)
        <3>6. DOMAIN list' = DOMAIN list
            BY <3>1
        <3>. QED BY <3>3, <3>4, <3>5, <3>6, <2>1, <1>4
    <2>3. CASE DistributeFLOPS
        <3>1. PICK k \in 1 .. totalMemOps : list' = [list EXCEPT ![k].numFLOPS = @ + 1]
            BY <2>3 DEF DistributeFLOPS
        <3>2. flops' = flops - 1 /\ iops' = iops
            BY <2>3 DEF DistributeFLOPS
        <3>3. ASSUME NEW i \in DOMAIN list, i = k
              PROVE  /\ list'[i] \in SubEventRecords
                     /\ list'[i].msg = list[i].msg /\ list'[i].request = list[i].request
                     /\ list'[i].numIOPS = list[i].numIOPS /\ list'[i].numFLOPS = list[i].numFLOPS + 1
            <4>1. list[i] \in SubEventRecords /\ list'[i] = [list[i] EXCEPT !.numFLOPS = @ + 1]
                BY <3>1, <3>3, <1>4
            <4>. QED BY <4>1, SMTT(20) DEF SubEventRecords
        <3>4. ASSUME NEW i \in DOMAIN list, i # k
              PROVE  list'[i] = list[i]
            BY <3>1, <3>4
        <3>5. ASSUME NEW i \in DOMAIN list, i = k
              PROVE  /\ list'[i].numIOPS \in Nat /\ list'[i].numFLOPS \in Nat
                     /\ list'[i].numIOPS + iops' <= list[i].numIOPS + iops
                     /\ list'[i].numFLOPS + flops' <= list[i].numFLOPS + flops
            <4>1. list[i].numIOPS \in Nat /\ list[i].numFLOPS \in Nat
                BY <1>4
            <4>. QED BY <4>1, <3>2, <3>3, <3>5, <1>3, SMTT(20)
        <3>6. DOMAIN list' = DOMAIN list
            BY <3>1
        <3>. QED BY <3>3, <3>4, <3>5, <3>6, <2>1, <1>4
    <2>. QED BY <2>2, <2>3
<1>7. DOMAIN list' = DOMAIN list /\ Len(list') = Len(list) /\ list' \in Seq(SubEventRecords)
    <2>5. \E k \in DOMAIN list : \E x : list' = [list EXCEPT ![k] = x]
        <3>1. 1 .. totalMemOps \subseteq DOMAIN list
            BY <1>1, <1>3, <1>4, SMTT(20) DEF DistributeIOPS, DistributeFLOPS, Inserting
        <3>. QED BY <3>1 DEF DistributeIOPS, DistributeFLOPS
    <2>0. list' = [i \in 1 .. Len(list) |-> list'[i]]
        BY <1>4, <2>5
    <2>1. list' \in [1 .. Len(list) -> SubEventRecords]
        BY <1>4, <1>6, <2>0
    <2>. QED BY <2>1, <1>4, SMTT(20)
<1>8. SharesLeaveRoom'
    <2>1. ASSUME NEW i \in DOMAIN list
          PROVE  /\ list'[i].msg # "none"
                 /\ list'[i].numIOPS + iops' <= event.compIOPS
                 /\ list'[i].numFLOPS + flops' <= event.compFLOPS
        <3>1. list[i].msg # "none" /\ list[i].numIOPS + iops <= event.compIOPS /\ list[i].numFLOPS + flops <= event.compFLOPS
            BY <1>1 DEF SharesLeaveRoom
        <3>2. /\ list[i].numIOPS \in Nat /\ list[i].numFLOPS \in Nat
              /\ list'[i].msg = list[i].msg /\ list'[i].numIOPS \in Nat /\ list'[i].numFLOPS \in Nat
              /\ list'[i].numIOPS + iops' <= list[i].numIOPS + iops
              /\ list'[i].numFLOPS + flops' <= list[i].numFLOPS + flops
            BY <1>4, <1>6
        <3>. QED BY <3>1, <3>2, <1>3, <1>5, SMTT(20)
    <2>2. /\ (event.compIOPS \div totalMemOps) + iops' <= event.compIOPS
          /\ (event.compFLOPS \div totalMemOps) + flops' <= event.compFLOPS
        <3>. DEFINE x == event.compIOPS \div totalMemOps
                    y == event.compFLOPS \div totalMemOps
        <3>1. x \in Nat /\ y \in Nat
            BY <1>3, ShareFits
        <3>2. x + iops <= event.compIOPS /\ y + flops <= event.compFLOPS
            BY <1>1 DEF SharesLeaveRoom
        <3>. HIDE DEF x, y
        <3>3. x + iops' <= event.compIOPS /\ y + flops' <= event.compFLOPS
            BY <3>1, <3>2, <1>3, <1>5, SMTT(20)
        <3>. QED BY <3>3 DEF x, y
    <2>. QED BY <1>1, <1>2, <1>7, <2>1, <2>2 DEF SharesLeaveRoom
<1>9. SubEventsTypeOK'
    <2>1. ASSUME NEW i \in DOMAIN list
          PROVE  list'[i].numIOPS \in 0 .. event.compIOPS /\ list'[i].numFLOPS \in 0 .. event.compFLOPS
        <3>1. list[i].numIOPS + iops <= event.compIOPS /\ list[i].numFLOPS + flops <= event.compFLOPS
            BY <1>1 DEF SharesLeaveRoom
        <3>2. /\ list[i].numIOPS \in Nat /\ list[i].numFLOPS \in Nat
              /\ list'[i].msg = list[i].msg /\ list'[i].numIOPS \in Nat /\ list'[i].numFLOPS \in Nat
              /\ list'[i].numIOPS + iops' <= list[i].numIOPS + iops
              /\ list'[i].numFLOPS + flops' <= list[i].numFLOPS + flops
            BY <1>4, <1>6
        <3>. QED BY <3>1, <3>2, <1>3, <1>5, SMTT(20)
    <2>2. iops' \in 0 .. event.compIOPS /\ flops' \in 0 .. event.compFLOPS
        BY <1>1, <1>3, <1>5, SMTT(20) DEF SubEventsTypeOK
    <2>. QED BY <1>1, <1>2, <1>6, <1>7, <2>1, <2>2 DEF SubEventsTypeOK
<1>. QED BY <1>1, <1>7, <1>8, <1>9 DEF SubInv, TrapOnlyWithoutRange

\* Creating the sub-events of a front event keeps the invariant, at every turn of
\* its loops.
LEMMA CreateInv ==
    ASSUME SubInv, createSubEvents
    PROVE  SubInv'
<1>0. EventOK(event) /\ SubEventsTypeOK /\ list \in Seq(SubEventRecords)
    BY DEF SubInv
<1>1. /\ event.compIOPS \in Nat /\ event.compFLOPS \in Nat /\ NumReads \in Nat
      /\ totalMemOps \in Nat /\ iops \in Nat /\ flops \in Nat
    <2>1. event.compIOPS \in Nat /\ event.compFLOPS \in Nat /\ NumReads \in Nat /\ totalMemOps \in Nat
        BY <1>0, CountTypes DEF EventOK
    <2>. QED BY <1>0, <2>1, SMTT(20) DEF SubEventsTypeOK
<1>2. ASSUME event' = event, iops' = iops, flops' = flops, flip' = flip, pc' = "done",
             list' \in Seq(SubEventRecords),
             \A i \in DOMAIN list' :
                 /\ list'[i].numIOPS \in 0 .. event.compIOPS /\ list'[i].numFLOPS \in 0 .. event.compFLOPS
                 /\ \/ list'[i].msg = "none" /\ list'[i].request = 0
                    \/ list'[i].msg = "read" /\ list'[i].request \in 0 .. (NumReads - 1)
                    \/ list'[i].msg = "write" /\ list'[i].request \in 0 .. (NumWrites - 1)
      PROVE  SubInv'
    <2>1. NumReads' = NumReads /\ NumWrites' = NumWrites
        BY <1>2 DEF NumReads, NumWrites
    <2>2. SubEventsTypeOK'
        BY <1>0, <1>2, <2>1 DEF SubEventsTypeOK
    <2>. QED BY <1>0, <1>2, <2>2 DEF SubInv, TrapOnlyWithoutRange
<1>3. ASSUME NEW a \in Nat, NEW b \in Nat, a <= event.compIOPS, b <= event.compFLOPS,
             event' = event, iops' = iops, flops' = flops, flip' = flip, pc' = "done",
             list' = <<NoMessage(a, b)>>
      PROVE  SubInv'
    <2>. DEFINE x == NoMessage(a, b)
    <2>1. x \in SubEventRecords /\ x.numIOPS = a /\ x.numFLOPS = b /\ x.msg = "none" /\ x.request = 0
        BY DEF NoMessage, subEvent, SubEventRecords
    <2>. HIDE DEF x
    <2>2. list' = <<x>>
        BY <1>3 DEF x
    <2>3. list' \in Seq(SubEventRecords) /\ DOMAIN list' = 1 .. 1 /\ list'[1] = x
        BY <2>1, <2>2, SMTT(20)
    <2>. QED BY <1>1, <1>2, <1>3, <2>1, <2>3, SMTT(20)
<1>4. CASE CreatePthread
    BY <1>1, <1>3, <1>4, SMTT(20) DEF CreatePthread
<1>5. CASE CreateComm
    <2>1. /\ event' = event /\ iops' = iops /\ flops' = flops /\ flip' = flip /\ pc' = "done"
          /\ list' = [j \in 1 .. NumReads |-> subEvent(0, 0, "read", j - 1)]
        BY <1>5 DEF CreateComm
    <2>2. ASSUME NEW j \in 1 .. NumReads
          PROVE  /\ subEvent(0, 0, "read", j - 1) \in SubEventRecords
                 /\ list'[j] = subEvent(0, 0, "read", j - 1)
        BY <1>1, <2>1, SMTT(20) DEF subEvent, SubEventRecords
    <2>3. list' \in Seq(SubEventRecords) /\ DOMAIN list' = 1 .. NumReads
        BY <1>1, <2>1, <2>2, SMTT(20)
    <2>4. ASSUME NEW j \in 1 .. NumReads
          PROVE  /\ list'[j].numIOPS \in 0 .. event.compIOPS /\ list'[j].numFLOPS \in 0 .. event.compFLOPS
                 /\ list'[j].msg = "read" /\ list'[j].request \in 0 .. (NumReads - 1)
        <3>1. list'[j] = [numIOPS |-> 0, numFLOPS |-> 0, msg |-> "read", request |-> j - 1]
            BY <2>2 DEF subEvent
        <3>2. list'[j].numIOPS = 0 /\ list'[j].numFLOPS = 0 /\ list'[j].msg = "read" /\ list'[j].request = j - 1
            BY <3>1, SMTT(20)
        <3>. QED BY <1>1, <3>2, SMTT(20)
    <2>. QED BY <1>2, <2>1, <2>3, <2>4
<1>6. CASE CreateComp
    <2>1. CASE totalMemOps = 0
        BY <1>1, <1>3, <1>6, <2>1, SMTT(20) DEF CreateComp
    <2>2. CASE totalMemOps # 0
        <3>1. /\ event.type = "COMPUTATION" /\ pc = "create" /\ list' = list /\ event' = event /\ flip' = flip
              /\ iops' = event.compIOPS % totalMemOps /\ flops' = event.compFLOPS % totalMemOps
              /\ pc' = "insert"
            BY <1>6, <2>2 DEF CreateComp
        <3>2. list = << >>
            BY <3>1 DEF SubInv
        <3>3. /\ iops' \in 0 .. event.compIOPS /\ flops' \in 0 .. event.compFLOPS
              /\ (event.compIOPS \div totalMemOps) + iops' <= event.compIOPS
              /\ (event.compFLOPS \div totalMemOps) + flops' <= event.compFLOPS
            BY <1>1, <2>2, <3>1, ShareFits
        <3>4. totalMemOps' = totalMemOps
            BY <3>1 DEF NumReads, NumWrites, max_loc_reads, max_loc_writes, totalMemOps
        <3>5. DOMAIN list' = {} /\ Len(list') = 0
            BY <3>1, <3>2, SMTT(20)
        <3>6. SharesLeaveRoom'
            BY <1>1, <2>2, <3>1, <3>3, <3>4, <3>5, SMTT(20) DEF SharesLeaveRoom
        <3>7. SubEventsTypeOK'
            BY <1>0, <3>1, <3>3, <3>5 DEF SubEventsTypeOK
        <3>. QED BY <1>0, <3>1, <3>6, <3>7 DEF SubInv, TrapOnlyWithoutRange
    <2>. QED BY <2>1, <2>2
<1>7. CASE Created
    <2>1. event' = event /\ iops' = iops /\ flops' = flops /\ flip' = flip /\ pc' = "done" /\ list' = list
        BY <1>7 DEF Created
    <2>. QED BY <1>0, <1>2, <2>1 DEF SubEventsTypeOK
<1>. QED BY <1>4, <1>5, <1>6, <1>7, InsertInv, DistributeInv DEF createSubEvents

\* That of the sub-events depends on the variables of createSubEvents only.
LEMMA SubFrame == SubInv /\ UNCHANGED subEventVars => SubInv'
BY DEF SubInv, subEventVars, SubEventsTypeOK, SharesLeaveRoom, TrapOnlyWithoutRange,
       NumReads, NumWrites, totalMemOps, max_loc_reads, max_loc_writes

-----------------------------------------------------------------------------
(* Requests taken in turn. *)

\* The kinds of sub-events that access memory.
Kinds == {"read", "write"}

\* The places up to n of the sub-events of a kind.
Places(l, kind, n) == {i \in 1 .. n : l[i].msg = kind}

\* The places of those that name request k.
Naming(l, kind, k) == {i \in 1 .. Len(l) : l[i].msg = kind /\ l[i].request = k}

\* How many there are.
Count(l, kind) == Cardinality(Places(l, kind, Len(l)))

\* How often request k is named when n sub-events take size requests in turn.
Turns(n, size, k) == (n \div size) + (IF k < n % size THEN 1 ELSE 0)

\* The sub-events of a kind take the requests in turn.
InTurn(l, kind, size) ==
    /\ \A k \in 0 .. (size - 1) : Cardinality(Naming(l, kind, k)) = Turns(Count(l, kind), size, k)
    /\ \A i \in Places(l, kind, Len(l)) : l[i].request = (Cardinality(Places(l, kind, i)) - 1) % size
    /\ \A j \in 1 .. Count(l, kind) :
          \E i \in Places(l, kind, Len(l)) : Cardinality(Places(l, kind, i)) = j

\* A set of places, and the same with the next place.
LEMMA OneMore ==
    ASSUME NEW n \in Nat, NEW A \in SUBSET (1 .. n)
    PROVE  /\ IsFiniteSet(A) /\ Cardinality(A) \in Nat
           /\ Cardinality(A \cup {n + 1}) = Cardinality(A) + 1
<1>1. IsFiniteSet(1 .. n)
    <2>1. 1 \in Int /\ n \in Int
        BY SMTT(20)
    <2>. QED BY <2>1, FS_Interval
<1>2. IsFiniteSet(A) /\ Cardinality(A) \in Nat
    BY <1>1, FS_Subset, FS_CardinalityType
<1>3. n + 1 \notin A
    <2>1. n + 1 \notin 1 .. n
        BY SMTT(20)
    <2>. QED BY <2>1
<1>. QED BY <1>2, <1>3, FS_AddElement

\* One more turn.
LEMMA TurnsNext ==
    ASSUME NEW n \in Nat, NEW s \in Nat \ {0}, NEW k \in 0 .. (s - 1)
    PROVE  /\ Turns(n, s, k) \in Nat
           /\ Turns(n + 1, s, k) = IF k = n % s THEN Turns(n, s, k) + 1 ELSE Turns(n, s, k)
<1>. DEFINE q == n \div s
            r == n % s
            u == (n + 1) \div s
            v == (n + 1) % s
<1>1. q \in Nat /\ r \in 0 .. (s - 1) /\ n = (q * s) + r
    BY DivMod
<1>2. n + 1 \in Nat
    BY SMTT(20)
<1>3. u \in Nat /\ v \in 0 .. (s - 1) /\ n + 1 = (u * s) + v
    BY <1>2, DivMod
<1>. HIDE DEF q, r, u, v
<1>4. CASE r = s - 1
    <2>1. (u - (q + 1)) * s = 0 - v
        BY <1>1, <1>3, <1>4, SMTT(20)
    <2>2. u = q + 1
        BY <1>1, <1>3, <2>1, SMTT(20)
    <2>3. v = 0
        BY <1>1, <1>3, <2>1, <2>2, SMTT(20)
    <2>4. /\ q + (IF k < r THEN 1 ELSE 0) \in Nat
          /\ u + (IF k < v THEN 1 ELSE 0)
                 = IF k = r THEN (q + (IF k < r THEN 1 ELSE 0)) + 1 ELSE q + (IF k < r THEN 1 ELSE 0)
        BY <1>1, <1>3, <1>4, <2>2, <2>3, SMTT(20)
    <2>. QED BY <2>4 DEF Turns, q, r, u, v
<1>5. CASE r # s - 1
    <2>1. (u - q) * s = (r + 1) - v
        BY <1>1, <1>3, SMTT(20)
    <2>2. u = q
        BY <1>1, <1>3, <1>5, <2>1, SMTT(20)
    <2>3. v = r + 1
        BY <1>1, <1>3, <2>1, <2>2, SMTT(20)
    <2>4. /\ q + (IF k < r THEN 1 ELSE 0) \in Nat
          /\ u + (IF k < v THEN 1 ELSE 0)
                 = IF k = r THEN (q + (IF k < r THEN 1 ELSE 0)) + 1 ELSE q + (IF k < r THEN 1 ELSE 0)
        BY <1>1, <1>3, <1>5, <2>2, <2>3, SMTT(20)
    <2>. QED BY <2>4 DEF Turns, q, r, u, v
<1>. QED BY <1>4, <1>5

\* Before the first one.
LEMMA NoTurns ==
    ASSUME NEW kind, NEW size \in Nat
    PROVE  Count(<< >>, kind) = 0 /\ InTurn(<< >>, kind, size)
<1>1. Len(<< >>) = 0 /\ 1 .. 0 = {}
    BY SMTT(20)
<1>2. Places(<< >>, kind, Len(<< >>)) = {} /\ \A k : Naming(<< >>, kind, k) = {}
    BY <1>1 DEF Places, Naming
<1>3. Cardinality({}) = 0
    BY FS_EmptySet
<1>4. Count(<< >>, kind) = 0
    BY <1>2, <1>3 DEF Count
<1>5. ASSUME NEW k \in 0 .. (size - 1) PROVE Turns(0, size, k) = 0
    <2>1. size \in Nat \ {0}
        BY SMTT(20)
    <2>2. ((0 * size) + 0) % size = 0 /\ (0 * size) + 0 = 0
        <3>1. 0 \in 0 .. (size - 1) /\ 0 \in Nat /\ (0 * size) + 0 = 0
            BY <2>1, SMTT(20)
        <3>. QED BY <2>1, <3>1, ModUnique
    <2>3. 0 \div size = 0
        <3>. DEFINE d == 0 \div size
        <3>1. d \in Nat /\ 0 = (d * size) + 0
            <4>1. 0 \in Nat /\ 0 % size = 0
                BY <2>2, SMTT(20)
            <4>2. d \in Nat /\ 0 = (d * size) + (0 % size)
                BY <2>1, <4>1, DivMod
            <4>. QED BY <4>1, <4>2
        <3>. HIDE DEF d
        <3>2. d = 0
            BY <2>1, <3>1, SMTT(20)
        <3>. QED BY <3>2 DEF d
    <2>4. ~(k < 0)
        BY SMTT(20)
    <2>5. 0 + 0 = 0
        BY SMTT(20)
    <2>. QED BY <2>2, <2>3, <2>4, <2>5 DEF Turns
<1>. QED BY <1>1, <1>2, <1>3, <1>4, <1>5 DEF InTurn

\* The requests stay in turn when only other fields change.
LEMMA SameTurns ==
    ASSUME NEW l, NEW m, NEW kind, NEW size, Len(l) \in Nat, Len(m) = Len(l),
           \A i \in 1 .. Len(l) : m[i].msg = l[i].msg /\ m[i].request = l[i].request
    PROVE  /\ Count(m, kind) = Count(l, kind)
           /\ \A k : Naming(m, kind, k) = Naming(l, kind, k)
           /\ InTurn(l, kind, size) => InTurn(m, kind, size)
<1>1. ASSUME NEW n \in 0 .. Len(l) PROVE Places(m, kind, n) = Places(l, kind, n)
    <2>1. \A i \in 1 .. n : i \in 1 .. Len(l)
        BY SMTT(20)
    <2>. QED BY <2>1 DEF Places
<1>2. Places(m, kind, Len(m)) = Places(l, kind, Len(l)) /\ \A i \in Places(l, kind, Len(l)) : i \in 0 .. Len(l) /\ i \in 1 .. Len(l)
    <2>1. Len(l) \in 0 .. Len(l) /\ \A i \in 1 .. Len(l) : i \in 0 .. Len(l)
        BY SMTT(20)
    <2>. QED BY <1>1, <2>1 DEF Places
<1>3. \A k : Naming(m, kind, k) = Naming(l, kind, k)
    BY DEF Naming
<1>4. Count(m, kind) = Count(l, kind)
    BY <1>2 DEF Count
<1>. QED BY <1>1, <1>2, <1>3, <1>4 DEF InTurn

\* m is l and then x.
Grown(l, m, x) ==
    /\ Len(l) \in Nat /\ Len(m) = Len(l) + 1 /\ m[Len(l) + 1] = x
    /\ \A i \in 1 .. Len(l) : m[i] = l[i]

\* What that does to the places.
PlacesGrown(l, m, x, kind) ==
    /\ Len(l) \in Nat
    /\ \A i \in 0 .. Len(l) : Places(m, kind, i) = Places(l, kind, i)
    /\ Places(m, kind, Len(m)) =
           IF x.msg = kind THEN Places(l, kind, Len(l)) \cup {Len(l) + 1} ELSE Places(l, kind, Len(l))
    /\ \A k : Naming(m, kind, k) =
           IF x.msg = kind /\ x.request = k
           THEN Naming(l, kind, k) \cup {Len(l) + 1} ELSE Naming(l, kind, k)

\* The places of a list that grew.
LEMMA GrownPlaces ==
    ASSUME NEW l, NEW m, NEW x, Grown(l, m, x), NEW kind
    PROVE  PlacesGrown(l, m, x, kind)
<1>0. Len(l) \in Nat /\ Len(m) = Len(l) + 1 /\ m[Len(l) + 1] = x /\ \A i \in 1 .. Len(l) : m[i] = l[i]
    BY DEF Grown
<1>1. 1 .. Len(l) + 1 = (1 .. Len(l)) \cup {Len(l) + 1}
    BY <1>0, SMTT(20)
<1>2. \A n \in 0 .. Len(l) : \A i \in 1 .. n : i \in 1 .. Len(l)
    BY <1>0, SMTT(20)
<1>3. \A i \in 0 .. Len(l) : Places(m, kind, i) = Places(l, kind, i)
    BY <1>0, <1>2 DEF Places
<1>4. Places(m, kind, Len(m)) =
                  IF x.msg = kind THEN Places(l, kind, Len(l)) \cup {Len(l) + 1} ELSE Places(l, kind, Len(l))
    BY <1>0, <1>1 DEF Places
<1>5. \A k : Naming(m, kind, k) =
                  IF x.msg = kind /\ x.request = k
                  THEN Naming(l, kind, k) \cup {Len(l) + 1} ELSE Naming(l, kind, k)
    BY <1>0, <1>1 DEF Naming
<1>. QED BY <1>0, <1>3, <1>4, <1>5 DEF PlacesGrown

\* A sub-event of another kind does not disturb the turns.
LEMMA OtherTurn ==
    ASSUME NEW l, NEW m, NEW x, Grown(l, m, x), NEW kind, x.msg # kind, NEW size
    PROVE  /\ Count(m, kind) = Count(l, kind)
           /\ InTurn(l, kind, size) => InTurn(m, kind, size)
<1>1. /\ Len(l) \in Nat
      /\ \A i \in 0 .. Len(l) : Places(m, kind, i) = Places(l, kind, i)
      /\ Places(m, kind, Len(m)) = Places(l, kind, Len(l))
      /\ \A k : Naming(m, kind, k) = Naming(l, kind, k)
    <2>1. PlacesGrown(l, m, x, kind)
        BY GrownPlaces
    <2>. QED BY <2>1 DEF PlacesGrown
<1>2. \A i \in Places(l, kind, Len(l)) : m[i] = l[i] /\ i \in 0 .. Len(l)
    <2>1. \A i \in 1 .. Len(l) : i \in 0 .. Len(l)
        BY <1>1, SMTT(20)
    <2>. QED BY <2>1 DEF Places, Grown
<1>3. Count(m, kind) = Count(l, kind)
    BY <1>1 DEF Count
<1>. QED BY <1>1, <1>2, <1>3 DEF InTurn

\* The next sub-event of a kind takes the next request.
LEMMA NextTurn ==
    ASSUME NEW l, NEW m, NEW x, Grown(l, m, x), NEW kind, x.msg = kind, NEW size \in Nat \ {0},
           InTurn(l, kind, size), x.request = Count(l, kind) % size
    PROVE  /\ Count(l, kind) \in Nat /\ Count(m, kind) = Count(l, kind) + 1
           /\ InTurn(m, kind, size)
<1>. DEFINE n == Len(l)
            c == Count(l, kind)
            P == Places(l, kind, n)
<1>1. /\ n \in Nat /\ Len(m) = n + 1
      /\ \A i \in 0 .. n : Places(m, kind, i) = Places(l, kind, i)
      /\ Places(m, kind, n + 1) = P \cup {n + 1}
      /\ \A k : Naming(m, kind, k) = IF x.request = k THEN Naming(l, kind, k) \cup {n + 1} ELSE Naming(l, kind, k)
      /\ m[n + 1] = x /\ \A i \in 1 .. n : m[i] = l[i]
    <2>1. PlacesGrown(l, m, x, kind)
        BY GrownPlaces
    <2>. QED BY <2>1 DEF PlacesGrown, Grown
<1>2. c \in Nat /\ Cardinality(P \cup {n + 1}) = c + 1
    <2>1. P \in SUBSET (1 .. n)
        BY DEF Places
    <2>. QED BY <1>1, <2>1, OneMore DEF Count
<1>3. Count(m, kind) = c + 1
    BY <1>1, <1>2 DEF Count
<1>4. \A i \in P : i \in 1 .. n /\ i \in 0 .. n /\ m[i] = l[i]
    <2>1. \A i \in 1 .. n : i \in 0 .. n
        BY <1>1, SMTT(20)
    <2>. QED BY <1>1, <2>1 DEF Places
<1>5. ASSUME NEW k \in 0 .. (size - 1)
      PROVE  Cardinality(Naming(m, kind, k)) = Turns(c + 1, size, k)
    <2>. DEFINE N == Naming(l, kind, k)
    <2>1. N \in SUBSET (1 .. n)
        BY DEF Naming
    <2>2. Cardinality(N \cup {n + 1}) = Cardinality(N) + 1
        <3>. HIDE DEF N, n
        <3>. QED BY <1>1, <2>1, OneMore
    <2>3. Cardinality(N) = Turns(c, size, k)
        BY DEF InTurn
    <2>4. Turns(c + 1, size, k) = IF k = c % size THEN Turns(c, size, k) + 1 ELSE Turns(c, size, k)
        <3>. HIDE DEF c
        <3>. QED BY <1>2, TurnsNext
    <2>5. CASE x.request = k
        <3>1. Naming(m, kind, k) = N \cup {n + 1}
            BY <1>1, <2>5
        <3>. HIDE DEF N
        <3>. QED BY <2>2, <2>3, <2>4, <2>5, <3>1
    <2>6. CASE x.request # k
        <3>1. Naming(m, kind, k) = N
            BY <1>1, <2>6
        <3>. HIDE DEF N
        <3>. QED BY <2>3, <2>4, <2>6, <3>1
    <2>. QED BY <2>5, <2>6
<1>6. ASSUME NEW i \in P \cup {n + 1}
      PROVE  m[i].request = (Cardinality(Places(m, kind, i)) - 1) % size
    <2>1. CASE i = n + 1
        <3>1. m[i] = x /\ Cardinality(Places(m, kind, i)) = c + 1
            BY <1>1, <1>2, <2>1
        <3>2. (c + 1) - 1 = c
            <4>. HIDE DEF c
            <4>. QED BY <1>2, SMTT(20)
        <3>. QED BY <3>1, <3>2
    <2>2. CASE i \in P
        BY <1>1, <1>4, <2>2 DEF InTurn
    <2>. QED BY <2>1, <2>2
<1>7. ASSUME NEW j \in 1 .. c + 1
      PROVE  \E i \in P \cup {n + 1} : Cardinality(Places(m, kind, i)) = j
    <2>1. j = c + 1 \/ j \in 1 .. c
        <3>. HIDE DEF c
        <3>. QED BY <1>2, SMTT(20)
    <2>2. CASE j = c + 1
        BY <1>1, <1>2, <2>2
    <2>3. CASE j \in 1 .. c
        <3>1. PICK i \in P : Cardinality(Places(l, kind, i)) = j
            BY <2>3 DEF InTurn
        <3>2. Places(m, kind, i) = Places(l, kind, i)
            BY <1>1, <1>4
        <3>. QED BY <3>1, <3>2
    <2>. QED BY <2>1, <2>2, <2>3
<1>. QED BY <1>1, <1>2, <1>3, <1>5, <1>6, <1>7 DEF InTurn

\* A list of one sub-event without a message.
LEMMA OneMessageless ==
    ASSUME NEW x, x.msg = "none", NEW kind \in Kinds
    PROVE  Count(<<x>>, kind) = 0 /\ InTurn(<<x>>, kind, 0)
<1>. DEFINE l == << >>
            m == <<x>>
<1>1. Grown(l, m, x)
    BY SMTT(20) DEF Grown
<1>2. x.msg # kind /\ 0 \in Nat
    <2>1. x.msg # "read" /\ x.msg # "write"
        OBVIOUS
    <2>2. 0 \in Nat
        BY SMTT(20)
    <2>. QED BY <2>1, <2>2 DEF Kinds
<1>3. Count(l, kind) = 0 /\ InTurn(l, kind, 0)
    BY <1>2, NoTurns
<1>. HIDE DEF l, m
<1>4. Count(m, kind) = Count(l, kind) /\ (InTurn(l, kind, 0) => InTurn(m, kind, 0))
    BY <1>1, <1>2, OtherTurn
<1>5. Count(m, kind) = 0 /\ InTurn(m, kind, 0)
    BY <1>3, <1>4
<1>. QED BY <1>5 DEF m

\* The sub-events of a communication event: one read for each request.
LEMMA CommTurns ==
    ASSUME NEW l, NEW n \in Nat \ {0}, Len(l) = n,
           \A i \in 1 .. n : l[i].msg = "read" /\ l[i].request = i - 1
    PROVE  /\ Count(l, "read") = n /\ InTurn(l, "read", n)
           /\ Count(l, "write") = 0 /\ InTurn(l, "write", 0)
<1>1. \A i \in 0 .. n : Places(l, "read", i) = 1 .. i /\ Places(l, "write", i) = {}
    <2>1. \A i \in 0 .. n : \A h \in 1 .. i : h \in 1 .. n
        BY SMTT(20)
    <2>2. \A i \in 0 .. n : \A h \in 1 .. i : l[h].msg = "read" /\ l[h].msg # "write"
        BY <2>1
    <2>. QED BY <2>2 DEF Places
<1>2. ASSUME NEW i \in 0 .. n PROVE Cardinality(1 .. i) = i
    <2>1. 1 \in Int /\ i \in Int
        BY SMTT(20)
    <2>2. Cardinality(1 .. i) = IF 1 > i THEN 0 ELSE i - 1 + 1
        BY <2>1, FS_Interval
    <2>. QED BY <2>2, SMTT(20)
<1>3. n \in 0 .. n /\ 0 \in Nat /\ \A i \in 1 .. n : i \in 0 .. n
    BY SMTT(20)
<1>4. Count(l, "read") = n
    BY <1>1, <1>2, <1>3 DEF Count
<1>5. Count(l, "write") = 0
    BY <1>1, <1>3, FS_EmptySet DEF Count
<1>6. ASSUME NEW i \in 1 .. n PROVE (i - 1) % n = i - 1
    <2>1. i - 1 \in 0 .. (n - 1) /\ (0 * n) + (i - 1) = i - 1
        BY SMTT(20)
    <2>2. ((0 * n) + (i - 1)) % n = i - 1
        BY <1>3, <2>1, ModUnique
    <2>. QED BY <2>1, <2>2
<1>7. ASSUME NEW k \in 0 .. (n - 1) PROVE Cardinality(Naming(l, "read", k)) = Turns(n, n, k)
    <2>1. k + 1 \in 1 .. n /\ \A i \in 1 .. n : i - 1 = k <=> i = k + 1
        BY SMTT(20)
    <2>2. Naming(l, "read", k) = {k + 1}
        BY <2>1 DEF Naming
    <2>3. Cardinality(Naming(l, "read", k)) = 1
        BY <2>2, FS_Singleton
    <2>4. n % n = 0
        <3>1. 1 \in Nat /\ 0 \in 0 .. (n - 1) /\ (1 * n) + 0 = n
            BY SMTT(20)
        <3>2. ((1 * n) + 0) % n = 0
            BY <3>1, ModUnique
        <3>. QED BY <3>1, <3>2
    <2>5. n \div n = 1
        <3>1. PICK q \in Nat : q = n \div n /\ n = (q * n) + (n % n)
            BY DivMod
        <3>2. n = (q * n) + 0
            BY <2>4, <3>1
        <3>3. q = 1
            BY <3>2, SMTT(20)
        <3>. QED BY <3>1, <3>3
    <2>6. ~(k < 0) /\ 1 + 0 = 1
        BY SMTT(20)
    <2>. QED BY <2>3, <2>4, <2>5, <2>6 DEF Turns
<1>8. InTurn(l, "read", n)
    <2>3. Places(l, "read", n) = 1 .. n /\ \A i \in 1 .. n : Cardinality(Places(l, "read", i)) = i
        <3>1. \A i \in 0 .. n : Cardinality(1 .. i) = i
            BY <1>2
        <3>. QED BY <1>1, <1>3, <3>1
    <2>1. \A i \in Places(l, "read", n) : l[i].request = (Cardinality(Places(l, "read", i)) - 1) % n
        <3>1. \A i \in 1 .. n : (i - 1) % n = i - 1
            BY <1>6
        <3>. QED BY <2>3, <3>1
    <2>2. \A j \in 1 .. n : \E i \in Places(l, "read", n) : Cardinality(Places(l, "read", i)) = j
        BY <2>3
    <2>. QED BY <1>4, <1>7, <2>1, <2>2 DEF InTurn
<1>9. InTurn(l, "write", 0)
    <2>1. 0 .. (0 - 1) = {} /\ 1 .. 0 = {}
        BY SMTT(20)
    <2>. QED BY <1>1, <1>3, <1>5, <2>1 DEF InTurn
<1>. QED BY <1>4, <1>5, <1>8, <1>9

\* Requests that are taken in turn are all taken, none twice more than another.
LEMMA TurnsAreFair ==
    ASSUME NEW n \in Nat, NEW size \in Nat \ {0}, size <= n
    PROVE  \A k, h \in 0 .. (size - 1) :
              Turns(n, size, k) > 0 /\ Turns(n, size, k) <= Turns(n, size, h) + 1
<1>1. PICK q \in Nat, r \in 0 .. (size - 1) : q = n \div size /\ r = n % size /\ n = (q * size) + r
    BY DivMod
<1>2. q > 0
    <2>1. q = 0 => n = r
        BY <1>1, SMTT(20)
    <2>2. r < size
        BY SMTT(20)
    <2>. QED BY <1>1, <2>1, <2>2, SMTT(20)
<1>3. ASSUME NEW k \in 0 .. (size - 1), NEW h \in 0 .. (size - 1)
      PROVE  /\ q + (IF k < r THEN 1 ELSE 0) > 0
             /\ q + (IF k < r THEN 1 ELSE 0) <= (q + (IF h < r THEN 1 ELSE 0)) + 1
    BY <1>1, <1>2, SMTT(20)
<1>. QED BY <1>1, <1>3 DEF Turns

-----------------------------------------------------------------------------
(* Shares of the work. *)

\* Of the total, every sub-event of l has a share, the rest of the remainder is
\* still to be dealt out, and nothing is lost.
Shares(l, field, total, left, T) ==
    /\ SumOver(l, field) + left = (Len(l) * (total \div T)) + (total % T)
    /\ left <= total % T
    /\ \A i \in 1 .. Len(l) :
          /\ l[i][field] >= total \div T
          /\ l[i][field] + left <= (total \div T) + (total % T)

\* Before the first one.
LEMMA SharesStart ==
    ASSUME NEW field, NEW total \in Nat, NEW T \in Nat \ {0}
    PROVE  Shares(<< >>, field, total, total % T, T)
<1>. DEFINE q == total \div T
            r == total % T
<1>1. q \in Nat /\ r \in Nat
    <2>1. q \in Nat /\ r \in 0 .. (T - 1)
        BY DivMod
    <2>. QED BY <2>1, SMTT(20)
<1>2. Len(<< >>) = 0 /\ 0 \in Nat /\ 1 .. 0 = {}
    BY SMTT(20)
<1>3. SumOver(<< >>, field) = 0
    <2>1. \A i \in 1 .. Len(<< >>) : (<< >>)[i][field] \in Nat
        BY <1>2
    <2>2. PICK c : Sums(Field(<< >>, field), Len(<< >>), c) /\ SumOver(<< >>, field) = c[Len(<< >>)]
        BY <1>2, <2>1, SumIsLast
    <2>. QED BY <1>2, <2>2 DEF Sums
<1>. HIDE DEF q, r
<1>4. 0 + r = (0 * q) + r /\ r <= r
    BY <1>1, SMTT(20)
<1>. QED BY <1>2, <1>3, <1>4 DEF Shares, q, r

\* A new sub-event gets the quotient.
LEMMA SharesInsert ==
    ASSUME NEW l, NEW m, NEW x, Grown(l, m, x), NEW field, NEW total \in Nat, NEW T \in Nat \ {0},
           NEW left \in Nat, Shares(l, field, total, left, T), x[field] = total \div T,
           \A i \in 1 .. Len(l) : l[i][field] \in Nat
    PROVE  Shares(m, field, total, left, T)
<1>. DEFINE q == total \div T
            r == total % T
            n == Len(l)
            a == SumOver(l, field)
<1>1. q \in Nat /\ r \in Nat
    <2>1. q \in Nat /\ r \in 0 .. (T - 1)
        BY DivMod
    <2>. QED BY <2>1, SMTT(20)
<1>2. n \in Nat /\ Len(m) = n + 1 /\ m[n + 1] = x /\ \A i \in 1 .. n : m[i] = l[i]
    BY DEF Grown
<1>3. a \in Nat /\ SumOver(m, field) = a + q
    <2>1. m[Len(l) + 1][field] = q
        BY <1>2
    <2>. HIDE DEF q
    <2>. QED BY <1>1, <1>2, <2>1, SumAppend
<1>4. a + left = (n * q) + r /\ left <= r
    BY DEF Shares
<1>. HIDE DEF q, r, n, a
<1>5. (a + q) + left = ((n + 1) * q) + r
    BY <1>1, <1>2, <1>3, <1>4, SMTT(20)
<1>6. q >= q /\ q + left <= q + r
    BY <1>1, <1>4, SMTT(20)
<1>7. ASSUME NEW i \in 1 .. n + 1
      PROVE  m[i][field] >= q /\ m[i][field] + left <= q + r
    <2>1. i = n + 1 \/ i \in 1 .. n
        BY <1>2, SMTT(20)
    <2>2. CASE i = n + 1
        BY <1>2, <1>6, <2>2 DEF q
    <2>3. CASE i \in 1 .. n
        BY <1>2, <2>3 DEF Shares, q, r, n
    <2>. QED BY <2>1, <2>2, <2>3
<1>. QED BY <1>2, <1>3, <1>4, <1>5, <1>7 DEF Shares, q, r

\* One operation of the remainder is dealt out, or another field changes.
LEMMA SharesDeal ==
    ASSUME NEW l, NEW m, NEW field, NEW total \in Nat, NEW T \in Nat \ {0}, NEW left \in Nat,
           Shares(l, field, total, left, T),
           NEW k \in Nat \ {0}, NEW e \in Nat, e <= left, Dealt(l, m, field, k, e)
    PROVE  Shares(m, field, total, left - e, T)
<1>. DEFINE q == total \div T
            r == total % T
            n == Len(l)
            a == SumOver(l, field)
<1>1. q \in Nat /\ r \in Nat
    <2>1. q \in Nat /\ r \in 0 .. (T - 1)
        BY DivMod
    <2>. QED BY <2>1, SMTT(20)
<1>2. a \in Nat /\ SumOver(m, field) = a + e
    BY SumChange, SMTT(20)
<1>3. a + left = (n * q) + r /\ left <= r
    BY DEF Shares
<1>4. ASSUME NEW i \in 1 .. n
      PROVE  m[i][field] >= q /\ m[i][field] + (left - e) <= q + r
    <2>1. /\ l[i][field] \in Nat /\ l[i][field] >= q /\ l[i][field] + left <= q + r
          /\ m[i][field] = l[i][field] + (IF i = k THEN e ELSE 0)
        BY DEF Shares, Dealt
    <2>. HIDE DEF q, r
    <2>2. PICK u \in Nat : u = l[i][field]
        BY <2>1
    <2>3. u >= q /\ u + left <= q + r /\ m[i][field] = u + (IF i = k THEN e ELSE 0)
        BY <2>1, <2>2
    <2>4. u + (IF i = k THEN e ELSE 0) >= q /\ (u + (IF i = k THEN e ELSE 0)) + (left - e) <= q + r
        BY <1>1, <2>3, SMTT(20)
    <2>. QED BY <2>3, <2>4
<1>5. n * q \in Nat
    <2>1. n \in Nat
        BY DEF Dealt
    <2>. HIDE DEF q, n
    <2>. QED BY <1>1, <2>1, SMTT(20)
<1>. HIDE DEF q, r, n, a
<1>6. (a + e) + (left - e) = (n * q) + r /\ left - e <= r
    <2>1. PICK b \in Nat : b = n * q
        BY <1>5
    <2>2. a + left = b + r
        BY <1>3, <2>1
    <2>3. (a + e) + (left - e) = b + r /\ left - e <= r
        BY <1>1, <1>2, <1>3, <2>2, SMTT(20)
    <2>. QED BY <2>1, <2>3
<1>7. Len(m) = n
    BY DEF Dealt, n
<1>. QED BY <1>2, <1>4, <1>6, <1>7 DEF Shares, q, r

\* All of it is dealt out.
LEMMA SharesDone ==
    ASSUME NEW l, NEW field, NEW total \in Nat, NEW T \in Nat \ {0}, Len(l) = T,
           Shares(l, field, total, 0, T), SumOver(l, field) \in Nat,
           \A i \in 1 .. Len(l) : l[i][field] \in Nat
    PROVE  /\ SumOver(l, field) = total
           /\ \A i \in 1 .. Len(l) : l[i][field] \in (total \div T) .. ((total \div T) + (total % T))
<1>. DEFINE q == total \div T
            r == total % T
            a == SumOver(l, field)
<1>1. q \in Nat /\ r \in Nat /\ total = (q * T) + r
    <2>1. q \in Nat /\ r \in 0 .. (T - 1) /\ total = (q * T) + r
        BY DivMod
    <2>. HIDE DEF q, r
    <2>. QED BY <2>1, SMTT(20)
<1>2. a + 0 = (T * q) + r
    BY DEF Shares
<1>. HIDE DEF q, r, a
<1>3. a = total
    <2>1. T * q = q * T
        BY <1>1, SMTT(20)
    <2>2. a + 0 = total
        BY <1>1, <1>2, <2>1
    <2>. QED BY <2>2, SMTT(20) DEF a
<1>4. ASSUME NEW i \in 1 .. Len(l) PROVE l[i][field] \in q .. (q + r)
    <2>1. l[i][field] \in Nat /\ l[i][field] >= q /\ l[i][field] + 0 <= q + r
        BY DEF Shares, q, r
    <2>2. PICK u \in Nat : u = l[i][field]
        BY <2>1
    <2>3. u >= q /\ u + 0 <= q + r
        BY <2>1, <2>2
    <2>4. u \in q .. (q + r)
        BY <1>1, <2>3, SMTT(20)
    <2>. QED BY <2>2, <2>4
<1>. QED BY <1>3, <1>4 DEF q, r, a

\* Dividing by one sub-event.
LEMMA ShareOfOne ==
    ASSUME NEW a \in Nat
    PROVE  a \in (a \div 1) .. ((a \div 1) + (a % 1))
<1>1. 1 \in Nat \ {0}
    BY SMTT(20)
<1>2. a \div 1 \in Nat /\ a % 1 \in 0 .. (1 - 1) /\ a = ((a \div 1) * 1) + (a % 1)
    BY <1>1, DivMod
<1>3. PICK q \in Nat, r \in 0 .. (1 - 1) : q = a \div 1 /\ r = a % 1
    BY <1>2
<1>4. a = (q * 1) + r
    BY <1>2, <1>3
<1>5. a \in q .. (q + r)
    BY <1>4, SMTT(20)
<1>. QED BY <1>3, <1>5

-----------------------------------------------------------------------------
(* The sub-events created so far. *)

\* The requests that the ranges of a kind were split into.
Size(kind) == IF kind = "read" THEN NumReads ELSE NumWrites

\* How many accesses of a kind the event makes.
Counted(kind) == IF kind = "read" THEN max_loc_reads ELSE max_loc_writes

\* How many sub-events of a kind there are in the end.
Expected(kind) == IF event.type # "COMPUTATION" THEN Size(kind) ELSE Counted(kind)

\* What an event of a communication or pthread line looks like at the front.
Ranged ==
    event.type # "COMPUTATION" =>
        /\ NumWrites = 0
        /\ event.type = "COMMUNICATION" => NumReads > 0
        /\ event.type = "PTHREAD_API" => NumReads = 0

\* The sub-events created so far: their shares, and the requests they have taken.
SentInv ==
    /\ pc # "parse" => Ranged
    /\ pc = "insert" =>
          /\ Shares(list, "numIOPS", event.compIOPS, iops, totalMemOps)
          /\ Shares(list, "numFLOPS", event.compFLOPS, flops, totalMemOps)
          /\ \A kind \in Kinds : InTurn(list, kind, Size(kind)) /\ Inserted(kind) <= Counted(kind)
    /\ pc = "done" =>
          /\ list # << >>
          /\ \A kind \in Kinds : InTurn(list, kind, Size(kind)) /\ Inserted(kind) = Expected(kind)
          /\ WorkConserved

\* Inserted counts the places of a kind, Total is the sum over the list.
LEMMA InsertedIsCount ==
    /\ \A kind : Inserted(kind) = Count(list, kind)
    /\ \A field : Total(field) = SumOver(list, field)
BY DEF Inserted, Count, Places, Total, SumOver

\* What one turn of the insertion loop does.
LEMMA InsertStep ==
    ASSUME SubInv, Insert
    PROVE  /\ event' = event /\ iops' = iops /\ flops' = flops
           /\ \/ pc' = "trap"
              \/ \E kind \in Kinds, new \in SubEventRecords :
                    /\ Grown(list, list', new) /\ pc' = "insert"
                    /\ Inserted(kind) < Counted(kind) /\ Size(kind) # 0
                    /\ new.msg = kind /\ new.request = Inserted(kind) % Size(kind)
                    /\ new.numIOPS = event.compIOPS \div totalMemOps
                    /\ new.numFLOPS = event.compFLOPS \div totalMemOps
<1>. DEFINE kind == memTypeToInsert(Inserted("read"), Inserted("write"))
            size == IF kind = "read" THEN NumReads ELSE NumWrites
            new == subEvent(event.compIOPS \div totalMemOps, event.compFLOPS \div totalMemOps,
                            kind, Request(kind, size))
<1>1. /\ EventOK(event) /\ list \in Seq(SubEventRecords) /\ SharesLeaveRoom
      /\ pc = "insert" /\ Len(list) < totalMemOps
      /\ event' = event /\ iops' = iops /\ flops' = flops
    BY DEF SubInv, Insert
<1>2. kind \in Kinds /\ Inserted(kind) < Counted(kind) /\ size = Size(kind)
    BY <1>1, KindIsLeft DEF Kinds, Counted, Size
<1>3. NumReads \in Nat /\ NumWrites \in Nat /\ totalMemOps \in Nat
    BY <1>1, CountTypes
<1>4. CASE size = 0
    BY <1>1, <1>4 DEF Insert
<1>5. CASE size # 0
    <2>1. pc' = pc /\ list' = Append(list, new)
        BY <1>5 DEF Insert
    <2>2. /\ new.numIOPS = event.compIOPS \div totalMemOps /\ new.numFLOPS = event.compFLOPS \div totalMemOps
          /\ new.msg = kind /\ new.request = Inserted(kind) % Size(kind)
        BY <1>2 DEF subEvent, Request
    <2>3. new \in SubEventRecords
        <3>1. event.compIOPS \in Nat /\ event.compFLOPS \in Nat /\ totalMemOps \in Nat \ {0}
            BY <1>1, <1>3, SMTT(20) DEF EventOK, SharesLeaveRoom
        <3>2. event.compIOPS \div totalMemOps \in Nat /\ event.compFLOPS \div totalMemOps \in Nat
            BY <3>1, ShareFits
        <3>3. Inserted(kind) \in Nat /\ size \in Nat \ {0}
            BY <1>1, <1>2, <1>3, <1>5, InsertedCounts DEF SharesLeaveRoom, Kinds
        <3>4. Request(kind, size) \in 0 .. (size - 1)
            BY <3>3, DivMod DEF Request
        <3>5. Request(kind, size) \in Nat
            BY <3>3, <3>4, SMTT(20)
        <3>. QED BY <1>2, <3>2, <3>5 DEF subEvent, SubEventRecords, Kinds
    <2>4. Grown(list, list', new)
        <3>. HIDE DEF new, SubEventRecords
        <3>. QED BY <1>1, <2>1, <2>3, SMTT(20) DEF Grown
    <2>. HIDE DEF new
    <2>. QED BY <1>1, <1>2, <1>5, <2>1, <2>2, <2>3, <2>4
<1>. QED BY <1>4, <1>5

\* The counts of an event do not change with its list.
LEMMA SameCounts ==
    ASSUME event' = event
    PROVE  /\ totalMemOps' = totalMemOps /\ (Ranged => Ranged')
           /\ \A kind : Size(kind)' = Size(kind) /\ Counted(kind)' = Counted(kind) /\ Expected(kind)' = Expected(kind)
BY DEF totalMemOps, max_loc_reads, max_loc_writes, NumReads, NumWrites, Ranged, Size, Counted, Expected

\* Types that the lemmas on shares and turns need.
LEMMA SentTypes ==
    ASSUME SubInv
    PROVE  /\ Len(list) \in Nat /\ DOMAIN list = 1 .. Len(list)
           /\ event.compIOPS \in Nat /\ event.compFLOPS \in Nat /\ iops \in Nat /\ flops \in Nat
           /\ \A i \in 1 .. Len(list) : list[i]["numIOPS"] \in Nat /\ list[i]["numFLOPS"] \in Nat
           /\ \A kind \in Kinds : Size(kind) \in Nat /\ Counted(kind) \in Nat /\ Size(kind) <= Counted(kind)
           /\ totalMemOps \in Nat
           /\ totalMemOps = Counted("read") + Counted("write")
<1>1. EventOK(event) /\ list \in Seq(SubEventRecords) /\ SubEventsTypeOK
    BY DEF SubInv
<1>2. event.compIOPS \in Nat /\ event.compFLOPS \in Nat
    BY <1>1 DEF EventOK
<1>3. iops \in Nat /\ flops \in Nat
    BY <1>1, <1>2, SMTT(20) DEF SubEventsTypeOK
<1>4. Len(list) \in Nat /\ DOMAIN list = 1 .. Len(list) /\ \A i \in 1 .. Len(list) : list[i] \in SubEventRecords
    BY <1>1, SMTT(20)
<1>5. \A i \in 1 .. Len(list) : list[i]["numIOPS"] \in Nat /\ list[i]["numFLOPS"] \in Nat
    BY <1>4 DEF SubEventRecords
<1>6. /\ NumReads \in Nat /\ NumWrites \in Nat /\ max_loc_reads \in Nat /\ max_loc_writes \in Nat
      /\ totalMemOps \in Nat
    BY <1>1, CountTypes
<1>7. NumReads <= max_loc_reads /\ NumWrites <= max_loc_writes
    BY <1>1, <1>6, SMTT(20) DEF max_loc_reads, max_loc_writes, Larger, EventOK
<1>. QED BY <1>2, <1>3, <1>4, <1>5, <1>6, <1>7 DEF Kinds, Size, Counted, totalMemOps

\* One more sub-event takes its share and the next request of its kind.
LEMMA SentInsert ==
    ASSUME SubInv, SentInv, Insert
    PROVE  SentInv'
<1>1. event' = event /\ iops' = iops /\ flops' = flops /\ pc = "insert"
    BY InsertStep DEF Insert
<1>2. Ranged'
    BY <1>1, SameCounts DEF SentInv
<1>3. CASE pc' = "trap"
    BY <1>2, <1>3 DEF SentInv
<1>4. ASSUME NEW kind \in Kinds, NEW new \in SubEventRecords,
             Grown(list, list', new), pc' = "insert",
             Inserted(kind) < Counted(kind), Size(kind) # 0,
             new.msg = kind, new.request = Inserted(kind) % Size(kind),
             new.numIOPS = event.compIOPS \div totalMemOps,
             new.numFLOPS = event.compFLOPS \div totalMemOps
      PROVE  SentInv'
    <2>1. /\ Shares(list, "numIOPS", event.compIOPS, iops, totalMemOps)
          /\ Shares(list, "numFLOPS", event.compFLOPS, flops, totalMemOps)
          /\ \A k \in Kinds : InTurn(list, k, Size(k)) /\ Inserted(k) <= Counted(k)
        BY <1>1 DEF SentInv
    <2>2. totalMemOps \in Nat \ {0}
        <3>1. totalMemOps \in Nat /\ totalMemOps > 0
            BY <1>1, SentTypes DEF SubInv, SharesLeaveRoom
        <3>. QED BY <3>1, SMTT(20)
    <2>3. /\ Shares(list', "numIOPS", event.compIOPS, iops, totalMemOps)
          /\ Shares(list', "numFLOPS", event.compFLOPS, flops, totalMemOps)
        <3>1. event.compIOPS \in Nat /\ event.compFLOPS \in Nat /\ iops \in Nat /\ flops \in Nat
            BY SentTypes
        <3>2. \A i \in 1 .. Len(list) : list[i]["numIOPS"] \in Nat
            BY SentTypes
        <3>3. \A i \in 1 .. Len(list) : list[i]["numFLOPS"] \in Nat
            BY SentTypes
        <3>4. new["numIOPS"] = event.compIOPS \div totalMemOps /\ new["numFLOPS"] = event.compFLOPS \div totalMemOps
            BY <1>4
        <3>5. Shares(list', "numIOPS", event.compIOPS, iops, totalMemOps)
            BY <1>4, <2>1, <2>2, <3>1, <3>2, <3>4, SharesInsert
        <3>6. Shares(list', "numFLOPS", event.compFLOPS, flops, totalMemOps)
            BY <1>4, <2>1, <2>2, <3>1, <3>3, <3>4, SharesInsert
        <3>. QED BY <3>5, <3>6
    <2>4. ASSUME NEW k \in Kinds
          PROVE  InTurn(list', k, Size(k)) /\ Count(list', k) <= Counted(k)
        <3>1. Size(k) \in Nat /\ Counted(k) \in Nat /\ Inserted(k) = Count(list, k)
            BY SentTypes, InsertedIsCount
        <3>2. InTurn(list, k, Size(k)) /\ Count(list, k) <= Counted(k)
            BY <2>1, <3>1
        <3>3. CASE k = kind
            <4>. DEFINE size == Size(k)
            <4>1. size \in Nat \ {0} /\ new.msg = k /\ new.request = Count(list, k) % size
                BY <1>4, <3>1, <3>3
            <4>5. Grown(list, list', new) /\ InTurn(list, k, size)
                BY <1>4, <3>2
            <4>. HIDE DEF size
            <4>6. Count(list, k) \in Nat /\ Count(list', k) = Count(list, k) + 1 /\ InTurn(list', k, size)
                BY <4>1, <4>5, NextTurn, SMTT(20)
            <4>2. Count(list, k) \in Nat /\ Count(list', k) = Count(list, k) + 1 /\ InTurn(list', k, Size(k))
                BY <4>6 DEF size
            <4>3. Count(list, k) < Counted(k)
                BY <1>4, <3>1, <3>3
            <4>4. Count(list, k) + 1 <= Counted(k)
                BY <3>1, <4>2, <4>3, SMTT(20)
            <4>. QED BY <4>2, <4>4
        <3>4. CASE k # kind
            <4>1. Grown(list, list', new) /\ new.msg # k
                BY <1>4, <3>4
            <4>2. Count(list', k) = Count(list, k) /\ (InTurn(list, k, Size(k)) => InTurn(list', k, Size(k)))
                BY <4>1, OtherTurn
            <4>. QED BY <3>2, <4>2
        <3>. QED BY <3>3, <3>4
    <2>5. \A k \in Kinds : InTurn(list', k, Size(k)') /\ Inserted(k)' <= Counted(k)'
        <3>1. \A k : Inserted(k)' = Count(list', k)
            BY DEF Inserted, Count, Places
        <3>. QED BY <1>1, <2>4, <3>1, SameCounts
    <2>. QED BY <1>1, <1>2, <1>4, <2>3, <2>5, SameCounts DEF SentInv
<1>. QED BY <1>3, <1>4, InsertStep

\* A sequence's length is known from its domain.
LEMMA SameLength ==
    ASSUME NEW m \in Nat, NEW n \in Nat, 1 .. m = 1 .. n
    PROVE  m = n
BY SMTT(20)

\* What is left of a remainder.
LEMMA LessLeft ==
    ASSUME NEW a \in Nat, NEW b \in Nat, a - b \in Nat
    PROVE  a - b <= a /\ a - (a - b) = b
BY SMTT(20)

\* What a turn of the loops that deal out the remainders does.
LEMMA DistributeStep ==
    ASSUME SubInv, DistributeIOPS \/ DistributeFLOPS
    PROVE  \E k \in Nat \ {0} :
               /\ Dealt(list, list', "numIOPS", k, iops - iops')
               /\ Dealt(list, list', "numFLOPS", k, flops - flops')
               /\ iops - iops' \in Nat /\ flops - flops' \in Nat /\ iops' \in Nat /\ flops' \in Nat
               /\ Len(list') = Len(list)
               /\ \A i \in 1 .. Len(list) : list'[i].msg = list[i].msg /\ list'[i].request = list[i].request
<1>1. /\ list \in Seq(SubEventRecords) /\ SharesLeaveRoom /\ pc = "insert" /\ Len(list) \in Nat
      /\ iops \in Nat /\ flops \in Nat /\ totalMemOps \in Nat /\ DOMAIN list = 1 .. Len(list)
    BY SentTypes DEF SubInv, DistributeIOPS, DistributeFLOPS
<1>2. totalMemOps = Len(list) /\ 1 .. Len(list) \in SUBSET (Nat \ {0})
    BY <1>1, SMTT(20) DEF DistributeIOPS, DistributeFLOPS, Inserting, SharesLeaveRoom
<1>3. \A i \in 1 .. Len(list) :
          list[i] \in SubEventRecords /\ list[i].numIOPS \in Nat /\ list[i].numFLOPS \in Nat
    <2>1. \A i \in 1 .. Len(list) : list[i] \in SubEventRecords
        BY <1>1, SMTT(20)
    <2>. QED BY <2>1 DEF SubEventRecords
<1>4. SubInv'
    BY DistributeInv
<1>5. Len(list') \in Nat /\ DOMAIN list' = 1 .. Len(list')
    <2>1. list' \in Seq(SubEventRecords)
        BY <1>4 DEF SubInv
    <2>. QED BY <2>1, SMTT(20)
<1>6. CASE DistributeIOPS
    <2>1. PICK k \in 1 .. Len(list) : list' = [list EXCEPT ![k].numIOPS = @ + 1]
        BY <1>2, <1>6 DEF DistributeIOPS
    <2>2. iops - iops' = 1 /\ flops - flops' = 0 /\ iops' \in Nat /\ flops' \in Nat /\ 1 \in Nat /\ 0 \in Nat
        BY <1>1, <1>6, SMTT(20) DEF DistributeIOPS
    <2>3. Len(list') = Len(list)
        <3>1. DOMAIN list' = DOMAIN list
            BY <2>1
        <3>2. 1 .. Len(list') = 1 .. Len(list)
            BY <1>1, <1>5, <3>1
        <3>. QED BY <1>1, <1>5, <3>2, SameLength
    <2>4. ASSUME NEW i \in 1 .. Len(list)
          PROVE  /\ list'[i].msg = list[i].msg /\ list'[i].request = list[i].request
                 /\ list'[i].numIOPS = list[i].numIOPS + (IF i = k THEN 1 ELSE 0)
                 /\ list'[i].numFLOPS = list[i].numFLOPS + (IF i = k THEN 0 ELSE 0)
        <3>1. list[i] \in SubEventRecords /\ list[i].numIOPS + 0 = list[i].numIOPS
              /\ list[i].numFLOPS + 0 = list[i].numFLOPS
            BY <1>3, SMTT(20)
        <3>2. CASE i = k
            <4>1. list'[i] = [list[i] EXCEPT !.numIOPS = @ + 1]
                BY <1>1, <2>1, <3>2
            <4>. QED BY <3>1, <3>2, <4>1 DEF SubEventRecords
        <3>3. CASE i # k
            <4>1. list'[i] = list[i]
                BY <1>1, <2>1, <3>3
            <4>. QED BY <3>1, <3>3, <4>1
        <3>. QED BY <3>2, <3>3
    <2>5. Dealt(list, list', "numIOPS", k, 1) /\ Dealt(list, list', "numFLOPS", k, 0)
        BY <1>1, <1>3, <2>3, <2>4 DEF Dealt
    <2>6. k \in Nat \ {0}
        BY <1>2
    <2>. QED BY <2>2, <2>3, <2>4, <2>5, <2>6
<1>7. CASE DistributeFLOPS
    <2>1. PICK k \in 1 .. Len(list) : list' = [list EXCEPT ![k].numFLOPS = @ + 1]
        BY <1>2, <1>7 DEF DistributeFLOPS
    <2>2. iops - iops' = 0 /\ flops - flops' = 1 /\ iops' \in Nat /\ flops' \in Nat /\ 1 \in Nat /\ 0 \in Nat
        BY <1>1, <1>7, SMTT(20) DEF DistributeFLOPS
    <2>3. Len(list') = Len(list)
        <3>1. DOMAIN list' = DOMAIN list
            BY <2>1
        <3>2. 1 .. Len(list') = 1 .. Len(list)
            BY <1>1, <1>5, <3>1
        <3>. QED BY <1>1, <1>5, <3>2, SameLength
    <2>4. ASSUME NEW i \in 1 .. Len(list)
          PROVE  /\ list'[i].msg = list[i].msg /\ list'[i].request = list[i].request
                 /\ list'[i].numIOPS = list[i].numIOPS + (IF i = k THEN 0 ELSE 0)
                 /\ list'[i].numFLOPS = list[i].numFLOPS + (IF i = k THEN 1 ELSE 0)
        <3>1. list[i] \in SubEventRecords /\ list[i].numIOPS + 0 = list[i].numIOPS
              /\ list[i].numFLOPS + 0 = list[i].numFLOPS
            BY <1>3, SMTT(20)
        <3>2. CASE i = k
            <4>1. list'[i] = [list[i] EXCEPT !.numFLOPS = @ + 1]
                BY <1>1, <2>1, <3>2
            <4>. QED BY <3>1, <3>2, <4>1 DEF SubEventRecords
        <3>3. CASE i # k
            <4>1. list'[i] = list[i]
                BY <1>1, <2>1, <3>3
            <4>. QED BY <3>1, <3>3, <4>1
        <3>. QED BY <3>2, <3>3
    <2>5. Dealt(list, list', "numIOPS", k, 0) /\ Dealt(list, list', "numFLOPS", k, 1)
        BY <1>1, <1>3, <2>3, <2>4 DEF Dealt
    <2>6. k \in Nat \ {0}
        BY <1>2
    <2>. QED BY <2>2, <2>3, <2>4, <2>5, <2>6
<1>. QED BY <1>6, <1>7

\* One operation of a remainder goes to a sub-event.
LEMMA SentDistribute ==
    ASSUME SubInv, SentInv, DistributeIOPS \/ DistributeFLOPS
    PROVE  SentInv'
<1>1. event' = event /\ pc = "insert" /\ pc' = "insert"
    BY DEF DistributeIOPS, DistributeFLOPS
<1>2. PICK k \in Nat \ {0} :
               /\ Dealt(list, list', "numIOPS", k, iops - iops')
               /\ Dealt(list, list', "numFLOPS", k, flops - flops')
               /\ iops - iops' \in Nat /\ flops - flops' \in Nat /\ iops' \in Nat /\ flops' \in Nat
               /\ Len(list') = Len(list)
               /\ \A i \in 1 .. Len(list) : list'[i].msg = list[i].msg /\ list'[i].request = list[i].request
    BY DistributeStep
<1>3. totalMemOps \in Nat \ {0}
    <2>1. totalMemOps \in Nat /\ totalMemOps > 0
        BY <1>1, SentTypes DEF SubInv, SharesLeaveRoom
    <2>. QED BY <2>1, SMTT(20)
<1>4. event.compIOPS \in Nat /\ event.compFLOPS \in Nat /\ iops \in Nat /\ flops \in Nat /\ Len(list) \in Nat
    BY SentTypes
<1>5. /\ iops - iops' <= iops /\ iops - (iops - iops') = iops'
      /\ flops - flops' <= flops /\ flops - (flops - flops') = flops'
    BY <1>2, <1>4, LessLeft
<1>6. Shares(list', "numIOPS", event.compIOPS, iops', totalMemOps)
    <2>. DEFINE e == iops - iops'
    <2>1. Shares(list, "numIOPS", event.compIOPS, iops, totalMemOps)
        BY <1>1 DEF SentInv
    <2>2. e \in Nat /\ e <= iops /\ Dealt(list, list', "numIOPS", k, e)
        BY <1>2, <1>5
    <2>3. iops - e = iops'
        BY <1>5
    <2>. HIDE DEF e
    <2>4. Shares(list', "numIOPS", event.compIOPS, iops - e, totalMemOps)
        BY <1>3, <1>4, <2>1, <2>2, SharesDeal
    <2>. QED BY <2>3, <2>4
<1>7. Shares(list', "numFLOPS", event.compFLOPS, flops', totalMemOps)
    <2>. DEFINE e == flops - flops'
    <2>1. Shares(list, "numFLOPS", event.compFLOPS, flops, totalMemOps)
        BY <1>1 DEF SentInv
    <2>2. e \in Nat /\ e <= flops /\ Dealt(list, list', "numFLOPS", k, e)
        BY <1>2, <1>5
    <2>3. flops - e = flops'
        BY <1>5
    <2>. HIDE DEF e
    <2>4. Shares(list', "numFLOPS", event.compFLOPS, flops - e, totalMemOps)
        BY <1>3, <1>4, <2>1, <2>2, SharesDeal
    <2>. QED BY <2>3, <2>4
<1>8. \A kind \in Kinds : InTurn(list', kind, Size(kind)') /\ Inserted(kind)' <= Counted(kind)'
    <2>1. ASSUME NEW kind \in Kinds
          PROVE  InTurn(list', kind, Size(kind)) /\ Count(list', kind) <= Counted(kind)
        <3>1. InTurn(list, kind, Size(kind)) /\ Count(list, kind) <= Counted(kind)
            BY <1>1, InsertedIsCount DEF SentInv
        <3>2. Count(list', kind) = Count(list, kind) /\ InTurn(list', kind, Size(kind))
            BY <1>2, <1>4, <3>1, SameTurns
        <3>. QED BY <3>1, <3>2
    <2>2. \A kind : Inserted(kind)' = Count(list', kind)
        BY DEF Inserted, Count, Places
    <2>. QED BY <1>1, <2>1, <2>2, SameCounts
<1>. QED BY <1>1, <1>6, <1>7, <1>8, SameCounts DEF SentInv

\* An event whose sub-events are created at once.
LEMMA SentCreate ==
    ASSUME SubInv, SentInv, CreatePthread \/ CreateComm \/ CreateComp
    PROVE  SentInv'
<1>1. event' = event /\ pc = "create" /\ Ranged' /\ Ranged /\ list = << >>
    BY SameCounts DEF CreatePthread, CreateComm, CreateComp, SentInv, SubInv
<1>2. \A kind : /\ Inserted(kind)' = Count(list', kind) /\ Size(kind)' = Size(kind)
                /\ Counted(kind)' = Counted(kind) /\ Expected(kind)' = Expected(kind)
    <2>1. \A kind : Inserted(kind)' = Count(list', kind)
        BY DEF Inserted, Count, Places
    <2>. QED BY <1>1, <2>1, SameCounts
<1>3. \A kind \in Kinds : Size(kind) \in Nat /\ Counted(kind) \in Nat /\ Size(kind) <= Counted(kind)
    BY SentTypes
<1>4. "read" \in Kinds /\ "write" \in Kinds
    BY DEF Kinds
<1>5. CASE CreatePthread
    <2>1. list' = <<NoMessage(0, 0)>> /\ pc' = "done" /\ event.type = "PTHREAD_API"
        BY <1>5 DEF CreatePthread
    <2>2. \A kind \in Kinds : Size(kind) = 0 /\ Expected(kind) = 0
        BY <1>1, <2>1 DEF Ranged, Size, Expected, Kinds
    <2>3. \A kind \in Kinds : Count(list', kind) = 0 /\ InTurn(list', kind, 0)
        <3>1. NoMessage(0, 0).msg = "none"
            BY DEF NoMessage, subEvent
        <3>. QED BY <2>1, <3>1, OneMessageless
    <2>4. list' # << >>
        BY <2>1, SMTT(20)
    <2>5. WorkConserved'
        BY <1>1, <2>1 DEF WorkConserved
    <2>6. \A kind \in Kinds : InTurn(list', kind, Size(kind)') /\ Inserted(kind)' = Expected(kind)'
        BY <1>2, <2>2, <2>3
    <2>. QED BY <1>1, <2>1, <2>4, <2>5, <2>6 DEF SentInv
<1>6. CASE CreateComm
    <2>1. /\ list' = [j \in 1 .. NumReads |-> subEvent(0, 0, "read", j - 1)]
          /\ pc' = "done" /\ event.type = "COMMUNICATION"
        BY <1>6 DEF CreateComm
    <2>2. /\ Size("read") = NumReads /\ Expected("read") = NumReads /\ NumReads > 0 /\ NumReads \in Nat
          /\ Size("write") = 0 /\ Expected("write") = 0
        BY <1>1, <1>3, <1>4, <2>1 DEF Ranged, Size, Expected
    <2>3. NumReads \in Nat \ {0}
        BY <2>2, SMTT(20)
    <2>4. \A i \in 1 .. NumReads : list'[i].msg = "read" /\ list'[i].request = i - 1
        BY <2>1 DEF subEvent
    <2>5. Len(list') = NumReads /\ list' # << >>
        <3>1. list' \in [1 .. NumReads -> {subEvent(0, 0, "read", j - 1) : j \in 1 .. NumReads}]
            BY <2>1
        <3>2. Len(list') = NumReads
            BY <2>2, <3>1, SMTT(20)
        <3>3. Len(<< >>) = 0 /\ NumReads # 0
            BY <2>3, SMTT(20)
        <3>. QED BY <3>2, <3>3
    <2>6. /\ Count(list', "read") = NumReads /\ InTurn(list', "read", NumReads)
          /\ Count(list', "write") = 0 /\ InTurn(list', "write", 0)
        BY <2>3, <2>4, <2>5, CommTurns
    <2>7. \A kind \in Kinds : InTurn(list', kind, Size(kind)') /\ Inserted(kind)' = Expected(kind)'
        BY <1>2, <2>2, <2>6 DEF Kinds
    <2>8. WorkConserved'
        BY <1>1, <2>1 DEF WorkConserved
    <2>. QED BY <1>1, <2>1, <2>5, <2>7, <2>8 DEF SentInv
<1>7. CASE CreateComp /\ totalMemOps = 0
    <2>. DEFINE x == NoMessage(event.compIOPS, event.compFLOPS)
    <2>1. list' = <<x>> /\ pc' = "done" /\ event.type = "COMPUTATION"
        BY <1>7 DEF CreateComp
    <2>2. \A kind \in Kinds : Size(kind) = 0 /\ Expected(kind) = 0
        <3>1. totalMemOps = Counted("read") + Counted("write")
            BY SentTypes
        <3>2. PICK r \in Nat, w \in Nat : r = Counted("read") /\ w = Counted("write")
            BY <1>3, <1>4
        <3>3. r + w = 0
            BY <1>7, <3>1, <3>2
        <3>4. r = 0 /\ w = 0
            BY <3>3, SMTT(20)
        <3>5. \A kind \in Kinds : Counted(kind) = 0 /\ Size(kind) \in Nat /\ Size(kind) <= 0
            BY <1>3, <3>2, <3>4 DEF Kinds
        <3>6. \A a \in Nat : a <= 0 => a = 0
            BY SMTT(20)
        <3>. QED BY <2>1, <3>5, <3>6 DEF Expected
    <2>3. /\ x.msg = "none" /\ x["numIOPS"] = event.compIOPS /\ x["numFLOPS"] = event.compFLOPS
          /\ event.compIOPS \in Nat /\ event.compFLOPS \in Nat
        BY SentTypes DEF NoMessage, subEvent
    <2>. HIDE DEF x
    <2>4. \A kind \in Kinds : Count(list', kind) = 0 /\ InTurn(list', kind, 0)
        BY <2>1, <2>3, OneMessageless
    <2>5. \A kind \in Kinds : InTurn(list', kind, Size(kind)') /\ Inserted(kind)' = Expected(kind)'
        BY <1>2, <2>2, <2>4
    <2>6. list' # << >> /\ Len(list') = 1 /\ DOMAIN list' = {1} /\ list'[1] = x
        BY <2>1, SMTT(20)
    <2>7. Total("numIOPS")' = event.compIOPS /\ Total("numFLOPS")' = event.compFLOPS
        <3>1. SumOver(<<x>>, "numIOPS") = event.compIOPS /\ SumOver(<<x>>, "numFLOPS") = event.compFLOPS
            BY <2>3, SumOfOne
        <3>2. Total("numIOPS")' = SumOver(list', "numIOPS") /\ Total("numFLOPS")' = SumOver(list', "numFLOPS")
            BY DEF Total, SumOver
        <3>. QED BY <2>1, <3>1, <3>2
    <2>8. WorkConserved'
        <3>1. /\ event.compIOPS \in (event.compIOPS \div 1) .. ((event.compIOPS \div 1) + (event.compIOPS % 1))
              /\ event.compFLOPS \in (event.compFLOPS \div 1) .. ((event.compFLOPS \div 1) + (event.compFLOPS % 1))
            BY <2>3, ShareOfOne
        <3>. QED BY <1>1, <2>3, <2>6, <2>7, <3>1 DEF WorkConserved
    <2>. QED BY <1>1, <2>1, <2>5, <2>6, <2>8 DEF SentInv
<1>8. CASE CreateComp /\ totalMemOps # 0
    <2>1. /\ iops' = event.compIOPS % totalMemOps /\ flops' = event.compFLOPS % totalMemOps
          /\ pc' = "insert" /\ list' = << >>
        BY <1>1, <1>8 DEF CreateComp
    <2>2. totalMemOps \in Nat \ {0} /\ event.compIOPS \in Nat /\ event.compFLOPS \in Nat
        BY <1>8, SentTypes
    <2>3. /\ Shares(list', "numIOPS", event.compIOPS, iops', totalMemOps)
          /\ Shares(list', "numFLOPS", event.compFLOPS, flops', totalMemOps)
        BY <2>1, <2>2, SharesStart
    <2>4. \A kind \in Kinds : Count(list', kind) = 0 /\ InTurn(list', kind, Size(kind))
        BY <1>3, <2>1, NoTurns
    <2>5. \A kind \in Kinds : InTurn(list', kind, Size(kind)') /\ Inserted(kind)' <= Counted(kind)'
        <3>1. \A a \in Nat : 0 <= a
            BY SMTT(20)
        <3>. QED BY <1>2, <1>3, <2>4, <3>1
    <2>. QED BY <1>1, <2>1, <2>3, <2>5, SameCounts DEF SentInv
<1>. QED BY <1>5, <1>6, <1>7, <1>8

\* All sub-events are there and nothing is left to deal out.
LEMMA SentCreated ==
    ASSUME SubInv, SentInv, Created
    PROVE  SentInv'
<1>1. /\ event' = event /\ list' = list /\ pc = "insert" /\ pc' = "done" /\ iops = 0 /\ flops = 0
      /\ SharesLeaveRoom /\ ~(Len(list) < totalMemOps) /\ list \in Seq(SubEventRecords)
    BY DEF Created, Inserting, SubInv
<1>2. /\ Len(list) \in Nat /\ totalMemOps \in Nat /\ event.compIOPS \in Nat /\ event.compFLOPS \in Nat
      /\ DOMAIN list = 1 .. Len(list)
      /\ \A i \in 1 .. Len(list) : list[i]["numIOPS"] \in Nat /\ list[i]["numFLOPS"] \in Nat
      /\ \A kind \in Kinds : Size(kind) \in Nat /\ Counted(kind) \in Nat
      /\ totalMemOps = Counted("read") + Counted("write")
    BY SentTypes
<1>3. Len(list) = totalMemOps /\ totalMemOps \in Nat \ {0} /\ list # << >>
    <2>1. PICK n \in Nat, t \in Nat : n = Len(list) /\ t = totalMemOps
        BY <1>2
    <2>2. ~(n < t) /\ n <= t /\ t > 0
        BY <1>1, <2>1 DEF SharesLeaveRoom
    <2>3. n = t /\ t \in Nat \ {0} /\ n # 0
        BY <2>2, SMTT(20)
    <2>4. Len(<< >>) = 0
        BY SMTT(20)
    <2>. QED BY <2>1, <2>3, <2>4
<1>4. \A kind \in Kinds : InTurn(list, kind, Size(kind)) /\ Inserted(kind) <= Counted(kind)
    BY <1>1 DEF SentInv
<1>5. \A kind \in Kinds : Inserted(kind) = Expected(kind)
    <2>1. /\ Inserted("read") \in Nat /\ Inserted("write") \in Nat
          /\ Inserted("read") + Inserted("write") = Len(list)
        BY <1>1, InsertedCounts DEF SharesLeaveRoom
    <2>2. PICK a \in Nat, b \in Nat : a = Inserted("read") /\ b = Inserted("write")
        BY <2>1
    <2>3. PICK r \in Nat, w \in Nat : r = Counted("read") /\ w = Counted("write")
        BY <1>2 DEF Kinds
    <2>4. a <= r /\ b <= w /\ a + b = r + w
        BY <1>2, <1>3, <1>4, <2>1, <2>2, <2>3 DEF Kinds
    <2>5. a = r /\ b = w
        BY <2>4, SMTT(20)
    <2>. QED BY <1>1, <2>2, <2>3, <2>5 DEF Kinds, Expected, SharesLeaveRoom
<1>6. /\ Shares(list, "numIOPS", event.compIOPS, 0, totalMemOps)
      /\ Shares(list, "numFLOPS", event.compFLOPS, 0, totalMemOps)
    BY <1>1 DEF SentInv
<1>7. /\ SumOver(list, "numIOPS") = event.compIOPS /\ SumOver(list, "numFLOPS") = event.compFLOPS
      /\ \A i \in 1 .. Len(list) :
            /\ list[i]["numIOPS"] \in (event.compIOPS \div totalMemOps)
                                          .. ((event.compIOPS \div totalMemOps) + (event.compIOPS % totalMemOps))
            /\ list[i]["numFLOPS"] \in (event.compFLOPS \div totalMemOps)
                                          .. ((event.compFLOPS \div totalMemOps) + (event.compFLOPS % totalMemOps))
    <2>1. \A i \in 1 .. Len(list) : list[i]["numIOPS"] \in Nat
        BY <1>2
    <2>2. \A i \in 1 .. Len(list) : list[i]["numFLOPS"] \in Nat
        BY <1>2
    <2>3. SumOver(list, "numIOPS") \in Nat /\ SumOver(list, "numFLOPS") \in Nat
        BY <1>2, <2>1, <2>2, SumType
    <2>4. /\ SumOver(list, "numIOPS") = event.compIOPS
          /\ \A i \in 1 .. Len(list) :
                list[i]["numIOPS"] \in (event.compIOPS \div totalMemOps)
                                          .. ((event.compIOPS \div totalMemOps) + (event.compIOPS % totalMemOps))
        BY <1>2, <1>3, <1>6, <2>1, <2>3, SharesDone
    <2>5. /\ SumOver(list, "numFLOPS") = event.compFLOPS
          /\ \A i \in 1 .. Len(list) :
                list[i]["numFLOPS"] \in (event.compFLOPS \div totalMemOps)
                                          .. ((event.compFLOPS \div totalMemOps) + (event.compFLOPS % totalMemOps))
        BY <1>2, <1>3, <1>6, <2>2, <2>3, SharesDone
    <2>. QED BY <2>4, <2>5
<1>8. WorkConserved'
    <2>1. Total("numIOPS")' = SumOver(list', "numIOPS") /\ Total("numFLOPS")' = SumOver(list', "numFLOPS")
        BY DEF Total, SumOver
    <2>. QED BY <1>1, <1>2, <1>3, <1>7, <2>1 DEF WorkConserved
<1>9. \A kind \in Kinds : InTurn(list', kind, Size(kind)') /\ Inserted(kind)' = Expected(kind)'
    <2>1. \A kind : Inserted(kind)' = Inserted(kind)
        BY <1>1 DEF Inserted
    <2>. QED BY <1>1, <1>4, <1>5, <2>1, SameCounts
<1>10. Ranged'
    BY <1>1, SameCounts DEF SentInv
<1>. QED BY <1>1, <1>3, <1>8, <1>9, <1>10 DEF SentInv

\* Every turn of createSubEvents keeps what the list of sub-events has.
LEMMA SentSteps ==
    ASSUME SubInv, SentInv, createSubEvents
    PROVE  SentInv'
BY SentCreate, SentInsert, SentDistribute, SentCreated DEF createSubEvents

\* It depends on the variables of createSubEvents only.
LEMMA SentFrame ==
    ASSUME SentInv, UNCHANGED subEventVars
    PROVE  SentInv'
<1>1. event' = event /\ list' = list /\ iops' = iops /\ flops' = flops /\ pc' = pc
    BY DEF subEventVars
<1>2. \A kind : Inserted(kind)' = Inserted(kind)
    BY <1>1 DEF Inserted
<1>3. WorkConserved => WorkConserved'
    <2>1. \A field : Total(field)' = Total(field)
        BY <1>1 DEF Total
    <2>. QED BY <1>1, <2>1 DEF WorkConserved
<1>. QED BY <1>1, <1>2, <1>3, SameCounts DEF SentInv

\* When all is created, every request is sent.
LEMMA AllSent == SubInv /\ SentInv => EveryRequestSent
<1>. SUFFICES ASSUME SubInv, SentInv, pc = "done" PROVE EveryRequestSent
    BY DEF EveryRequestSent
<1>1. list # << >> /\ \A kind \in Kinds : InTurn(list, kind, Size(kind)) /\ Inserted(kind) = Expected(kind)
    BY DEF SentInv
<1>2. ASSUME NEW kind \in Kinds
      PROVE  /\ \A k \in 0 .. Size(kind) - 1 : Cardinality(Naming(list, kind, k)) > 0
             /\ \A k, l \in 0 .. Size(kind) - 1 :
                   Cardinality(Naming(list, kind, k)) <= Cardinality(Naming(list, kind, l)) + 1
    <2>1. /\ Size(kind) \in Nat /\ Counted(kind) \in Nat /\ Size(kind) <= Counted(kind)
          /\ Inserted(kind) = Count(list, kind)
        BY SentTypes, InsertedIsCount
    <2>2. PICK s \in Nat, n \in Nat : s = Size(kind) /\ n = Count(list, kind)
        BY <1>1, <2>1 DEF Expected
    <2>3. s <= n
        <3>1. s <= s
            BY SMTT(20)
        <3>. QED BY <1>1, <2>1, <2>2, <3>1 DEF Expected
    <2>4. \A k \in 0 .. (s - 1) : Cardinality(Naming(list, kind, k)) = Turns(n, s, k)
        BY <1>1, <2>2 DEF InTurn
    <2>5. CASE s = 0
        <3>1. 0 .. s - 1 = {}
            BY <2>5, SMTT(20)
        <3>. QED BY <2>2, <3>1
    <2>6. CASE s # 0
        <3>1. s \in Nat \ {0}
            BY <2>6
        <3>2. \A k, h \in 0 .. (s - 1) : Turns(n, s, k) > 0 /\ Turns(n, s, k) <= Turns(n, s, h) + 1
            BY <2>3, <3>1, TurnsAreFair
        <3>. QED BY <2>2, <2>4, <3>2
    <2>. QED BY <2>5, <2>6
<1>3. DOMAIN list = 1 .. Len(list)
    BY SentTypes
<1>. QED BY <1>1, <1>2, <1>3 DEF EveryRequestSent, Kinds, Naming, Size, Expected, Counted
=============================================================================
