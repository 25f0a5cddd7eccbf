-------------------------- MODULE SafetyOpsProofs ---------------------------
(***************************************************************************)
(* Lemmas on the operators of BreakerOps and CapacityOps, which stand for  *)
(* the methods of the two classes of safety/circuit_breaker.py: what       *)
(* they return for any breaker, history, amount and time.                  *)
(***************************************************************************)
EXTENDS BreakerOps, CapacityOps, TLAPS, FiniteSetTheorems, SequenceTheorems,
        WellFoundedInduction

-----------------------------------------------------------------------------
(* The breaker: whatever time and breaker a method is given, it leaves a   *)
(* breaker.                                                                *)

LEMMA NewBreakerType == NewBreaker \in Breaker
BY DEF NewBreaker, Breaker, BreakerStates, NotTripped

LEMMA EvaluateType ==
    ASSUME NEW b \in Breaker, NEW n \in Nat
    PROVE  Evaluate(b, n) \in Breaker
BY DEF Evaluate, Breaker, BreakerStates

LEMMA AdmitType ==
    ASSUME NEW b \in Breaker, NEW n \in Nat
    PROVE  Admit(b, n) \in Breaker
BY EvaluateType DEF Admit, Breaker

LEMMA TripType ==
    ASSUME NEW b \in Breaker, NEW n \in Nat
    PROVE  Trip(b, n) \in Breaker
BY DEF Trip, Breaker, BreakerStates

LEMMA ReleaseProbeType ==
    ASSUME NEW b \in Breaker
    PROVE  ReleaseProbe(b) \in Breaker
BY DEF ReleaseProbe, Breaker

\* A counter that a report moves stays a natural number: a success frees a
\* probe only if one is out.
LEMMA CountedType ==
    ASSUME NEW b \in Breaker
    PROVE  /\ [b EXCEPT !.failures = 0] \in Breaker
           /\ [b EXCEPT !.failures = @ + 1] \in Breaker
           /\ [b EXCEPT !.successes = @ + 1,
                        !.probes = IF @ > 0 THEN @ - 1 ELSE @] \in Breaker
<1>1. [b EXCEPT !.failures = 0] \in Breaker
  BY DEF Breaker
<1>2. [b EXCEPT !.failures = @ + 1] \in Breaker
  BY DEF Breaker
<1>3. [b EXCEPT !.successes = @ + 1,
                !.probes = IF @ > 0 THEN @ - 1 ELSE @] \in Breaker
  <2>. DEFINE s == b.successes + 1
              p == IF b.probes > 0 THEN b.probes - 1 ELSE b.probes
  <2>1. s \in Nat /\ p \in Nat
    BY DEF Breaker
  <2>. HIDE DEF s, p
  <2>2. [b EXCEPT !.successes = s, !.probes = p] \in Breaker
    BY <2>1 DEF Breaker
  <2>. QED  BY <2>2, Zenon DEF s, p
<1>. QED  BY <1>1, <1>2, <1>3

LEMMA RecordSuccessType ==
    ASSUME NEW b \in Breaker, NEW n \in Nat
    PROVE  RecordSuccess(b, n) \in Breaker
<1>. DEFINE e == Evaluate(b, n)
            counted == [e EXCEPT !.successes = @ + 1,
                                 !.probes = IF @ > 0 THEN @ - 1 ELSE @]
            closed == [e EXCEPT !.failures = 0]
<1>1. e \in Breaker
  BY EvaluateType
<1>2. counted \in Breaker /\ closed \in Breaker
  BY <1>1, CountedType
<1>3. RecordSuccess(b, n) \in {e, counted, closed, NewBreaker}
  BY Zenon DEF RecordSuccess, Close
<1>. QED  BY <1>1, <1>2, <1>3, NewBreakerType, Zenon

LEMMA RecordFailureType ==
    ASSUME NEW b \in Breaker, NEW n \in Nat
    PROVE  RecordFailure(b, n) \in Breaker
<1>. DEFINE e == Evaluate(b, n)
            counted == [e EXCEPT !.failures = @ + 1]
            tripped == [counted EXCEPT !.state = "OPEN", !.tripped = n,
                                       !.probes = 0]
<1>1. e \in Breaker
  BY EvaluateType
<1>2. counted \in Breaker
  BY <1>1, CountedType
<1>3. tripped \in Breaker
  <2>1. ASSUME NEW c \in Breaker
        PROVE  [c EXCEPT !.state = "OPEN", !.tripped = n, !.probes = 0]
                  \in Breaker
    BY DEF Breaker, BreakerStates
  <2>. QED  BY <1>2, <2>1
<1>4. Trip(e, n) \in Breaker
  BY <1>1, TripType
<1>5. RecordFailure(b, n) \in {e, counted, tripped, Trip(e, n)}
  BY Zenon DEF RecordFailure
<1>. QED  BY <1>1, <1>2, <1>3, <1>4, <1>5, Zenon

-----------------------------------------------------------------------------
(* The sum of a sequence, by its partial sums.  What a sum is for every    *)
(* length is shown for the least length at which it would fail.            *)

LEMMA Smallest ==
    ASSUME NEW T \in SUBSET Nat, T # {}
    PROVE  \E m \in T : \A n \in T : m <= n
<1>. DEFINE Less == {p \in Nat \X Nat : p[1] < p[2]}
<1>1. IsWellFoundedOn(Less, Nat)
  BY NatLessThanWellFounded DEF OpToRel
<1>2. \E m \in T : \A n \in T : ~(<<n, m>> \in Less)
  BY <1>1, WFMin
<1>3. \A m, n \in T : ~(<<n, m>> \in Less) => m <= n
  OBVIOUS
<1>. QED  BY <1>2, <1>3

\* g holds the partial sums of f up to n.
Sums(g, f, n) ==
    /\ g \in [0..n -> Nat]
    /\ g[0] = 0
    /\ \A i \in 1..n : g[i] = g[i - 1] + f[i]

LEMMA SumsExist ==
    ASSUME NEW f \in Seq(Nat)
    PROVE  \E g : Sums(g, f, Len(f))
<1>. DEFINE Fails == {n \in Nat : n <= Len(f) /\ ~\E g : Sums(g, f, n)}
<1>0. Len(f) \in Nat
  OBVIOUS
<1>1. SUFFICES Fails = {}
  BY <1>0
<1>2. SUFFICES ASSUME Fails # {} PROVE FALSE
  OBVIOUS
<1>3. PICK m \in Fails : \A n \in Fails : m <= n
  <2>. Fails \in SUBSET Nat
    OBVIOUS
  <2>. HIDE DEF Fails
  <2>. QED  BY <1>2, Smallest
<1>4. CASE m = 0
  <2>. DEFINE g == [i \in 0..0 |-> 0]
  <2>1. Sums(g, f, 0)
    BY DEF Sums
  <2>. QED  BY <1>3, <1>4, <2>1
<1>5. CASE m # 0
  <2>1. m \in Nat /\ m - 1 \in Nat /\ m <= Len(f)
    BY <1>3, <1>5
  <2>2. m - 1 \notin Fails
    <3>. HIDE DEF Fails
    <3>. QED  BY <1>3, <2>1
  <2>3. PICK g : Sums(g, f, m - 1)
    BY <1>0, <2>1, <2>2
  <2>4. m \in 1..Len(f) /\ f[m] \in Nat
    BY <1>0, <1>5, <2>1
  <2>. DEFINE h == [i \in 0..m |-> IF i = m THEN g[m - 1] + f[m] ELSE g[i]]
  <2>5. Sums(h, f, m)
    <3>1. h \in [0..m -> Nat]
      BY <2>1, <2>3, <2>4 DEF Sums
    <3>2. h[0] = 0
      BY <1>5, <2>1, <2>3 DEF Sums
    <3>3. ASSUME NEW i \in 1..m PROVE h[i] = h[i - 1] + f[i]
      <4>1. CASE i = m
        BY <1>5, <2>1, <4>1
      <4>2. CASE i # m
        BY <2>1, <2>3, <4>2 DEF Sums
      <4>. QED  BY <4>1, <4>2
    <3>. QED  BY <3>1, <3>2, <3>3 DEF Sums
  <2>. QED  BY <1>3, <2>5
<1>. QED  BY <1>4, <1>5

\* Partial sums that grow no more than others stay below them.
LEMMA SumsCompare ==
    ASSUME NEW k \in Nat, NEW n \in Nat, NEW a, NEW b,
           \A i \in 0..n : a[k + i] \in Nat /\ b[i] \in Nat,
           a[k] <= b[0],
           \A i \in 1..n : a[k + i] - a[k + (i - 1)] <= b[i] - b[i - 1]
    PROVE  \A i \in 0..n : a[k + i] <= b[i]
<1>. DEFINE Below(i) == a[k + i] <= b[i]
            Fails == {i \in Nat : i <= n /\ ~Below(i)}
<1>1. SUFFICES Fails = {}
  <2>1. ASSUME Fails = {}, NEW i \in 0..n PROVE Below(i)
    <3>1. i \in Nat /\ i <= n
      OBVIOUS
    <3>. HIDE DEF Below
    <3>. QED  BY <2>1, <3>1
  <2>. QED  BY <2>1
<1>2. SUFFICES ASSUME Fails # {} PROVE FALSE
  OBVIOUS
<1>3. PICK m \in Fails : \A i \in Fails : m <= i
  <2>. Fails \in SUBSET Nat
    OBVIOUS
  <2>. HIDE DEF Fails
  <2>. QED  BY <1>2, Smallest
<1>4. m \in Nat /\ m <= n /\ m # 0
  BY <1>3
<1>5. m - 1 \in Nat /\ m - 1 \notin Fails
  BY <1>3, <1>4
<1>6. a[k + (m - 1)] <= b[m - 1]
  BY <1>4, <1>5
<1>7. a[k + m] - a[k + (m - 1)] <= b[m] - b[m - 1]
  BY <1>4
<1>8. /\ a[k + m] \in Nat /\ a[k + (m - 1)] \in Nat
      /\ b[m] \in Nat /\ b[m - 1] \in Nat
  BY <1>4
<1>9. Below(m)
  <2>1. ASSUME NEW p \in Nat, NEW q \in Nat, NEW r \in Nat, NEW s \in Nat,
               p <= r, q - p <= s - r
        PROVE  q <= s
    BY <2>1
  <2>. QED  BY <1>6, <1>7, <1>8, <2>1
<1>10. ~Below(m)
  BY <1>3
<1>. QED  BY <1>9, <1>10

\* The partial sums are unique, and Total is the last of them.
LEMMA TotalIsLast ==
    ASSUME NEW f \in Seq(Nat), NEW g, Sums(g, f, Len(f))
    PROVE  Total(f) = g[Len(f)] /\ Total(f) \in Nat
<1>. DEFINE R(s) == [n \in 0..Len(f) |-> IF n = 0 THEN 0
                                        ELSE s[n - 1] + f[n]]
            s == CHOOSE s : s = R(s)
<1>1. Len(f) \in Nat
  OBVIOUS
<1>2. g = R(g)
  BY <1>1 DEF Sums
<1>3. s = R(s)
  BY <1>2
<1>4. Total(f) = s[Len(f)]
  BY DEF Total
<1>. HIDE DEF s
<1>5. \A i \in 0..Len(f) : s[i] = g[i]
  <2>. DEFINE Fails == {i \in Nat : i <= Len(f) /\ s[i] # g[i]}
  <2>1. SUFFICES Fails = {}
    BY <1>1
  <2>2. SUFFICES ASSUME Fails # {} PROVE FALSE
    OBVIOUS
  <2>3. PICK m \in Fails : \A i \in Fails : m <= i
    <3>. Fails \in SUBSET Nat
      OBVIOUS
    <3>. HIDE DEF Fails
    <3>. QED  BY <2>2, Smallest
  <2>4. m \in Nat /\ m <= Len(f) /\ m \in 0..Len(f)
    BY <1>1, <2>3
  <2>5. s[m] = (IF m = 0 THEN 0 ELSE s[m - 1] + f[m])
    BY <1>3, <2>4
  <2>6. g[m] = (IF m = 0 THEN 0 ELSE g[m - 1] + f[m])
    BY <1>2, <2>4
  <2>7. m # 0 => s[m - 1] = g[m - 1]
    <3>. HAVE m # 0
    <3>1. m - 1 \in Nat /\ m - 1 <= Len(f) /\ m - 1 \notin Fails
      BY <1>1, <2>3, <2>4
    <3>. QED  BY <3>1
  <2>8. s[m] = g[m]
    BY <2>5, <2>6, <2>7
  <2>. QED  BY <2>3, <2>8
<1>6. Len(f) \in 0..Len(f)
  BY <1>1
<1>. QED  BY <1>4, <1>5, <1>6 DEF Sums

LEMMA TotalType ==
    ASSUME NEW f \in Seq(Nat)
    PROVE  Total(f) \in Nat
BY SumsExist, TotalIsLast

\* A sequence that is zero at first and then below another sums to no more.
LEMMA TotalBelow ==
    ASSUME NEW f \in Seq(Nat), NEW h \in Seq(Nat), NEW k \in Nat,
           Len(f) = k + Len(h),
           \A i \in 1..k : f[i] = 0,
           \A i \in 1..Len(h) : f[k + i] <= h[i]
    PROVE  Total(f) <= Total(h)
<1>. DEFINE n == Len(h)
<1>0. n \in Nat
  OBVIOUS
<1>1. PICK a : Sums(a, f, Len(f))
  BY SumsExist
<1>2. PICK b : Sums(b, h, n)
  BY SumsExist
<1>. HIDE DEF n
<1>3. /\ \A i \in 0..(k + n) : a[i] \in Nat
      /\ \A i \in 0..n : b[i] \in Nat
      /\ a[0] = 0 /\ b[0] = 0
  BY <1>1, <1>2 DEF Sums, n
<1>4. a[k] = 0
  <2>. DEFINE z == [i \in 0..k |-> 0]
  <2>1. \A i \in 0..k : a[0 + i] \in Nat /\ z[i] \in Nat /\ z[i] = 0
    BY <1>0, <1>3
  <2>. HIDE DEF z
  <2>2. a[0] <= z[0]
    BY <1>3, <2>1
  <2>3. ASSUME NEW i \in 1..k
        PROVE  a[0 + i] - a[0 + (i - 1)] <= z[i] - z[i - 1]
    <3>1. i \in 1..Len(f)
      BY <1>0 DEF n
    <3>2. a[i] = a[i - 1] + f[i] /\ f[i] = 0
      BY <1>1, <3>1 DEF Sums
    <3>3. i - 1 \in 0..k /\ i \in 0..k /\ 0 + i = i /\ 0 + (i - 1) = i - 1
      OBVIOUS
    <3>4. a[i] \in Nat /\ a[i - 1] \in Nat /\ z[i] = 0 /\ z[i - 1] = 0
      BY <2>1, <3>3
    <3>5. a[0 + i] = a[i] /\ a[0 + (i - 1)] = a[i - 1]
      BY <3>3
    <3>. QED  BY <3>2, <3>4, <3>5
  <2>4. a[0] <= z[0] /\ 0 \in Nat
    BY <2>2
  <2>5. \A i \in 0..k : a[0 + i] <= z[i]
    BY <2>1, <2>3, <2>4, SumsCompare
  <2>6. k \in 0..k /\ 0 + k = k
    OBVIOUS
  <2>7. a[0 + k] <= z[k] /\ z[k] = 0 /\ a[0 + k] \in Nat
    BY <2>1, <2>5, <2>6
  <2>8. a[0 + k] = a[k]
    BY <2>6
  <2>. QED  BY <2>7, <2>8
<1>5. ASSUME NEW i \in 1..n
      PROVE  a[k + i] - a[k + (i - 1)] <= b[i] - b[i - 1]
  <2>1. k + i \in 1..Len(f) /\ i \in 1..Len(h)
    BY <1>0 DEF n
  <2>2. a[k + i] = a[k + (i - 1)] + f[k + i]
    <3>1. \A j \in 1..Len(f) : a[j] = a[j - 1] + f[j]
      BY <1>1, Zenon DEF Sums
    <3>. DEFINE j == k + i
    <3>2. j \in 1..Len(f)
      BY <2>1
    <3>. HIDE DEF j
    <3>3. a[j] = a[j - 1] + f[j]
      BY <3>1, <3>2
    <3>4. j - 1 = k + (i - 1)
      BY DEF j
    <3>. QED  BY <3>3, <3>4, Zenon DEF j
  <2>3. b[i] = b[i - 1] + h[i]
    BY <1>2, <2>1 DEF Sums, n
  <2>4. k + i \in 0..(k + n) /\ k + (i - 1) \in 0..(k + n)
        /\ i \in 0..n /\ i - 1 \in 0..n
    BY <1>0
  <2>5. /\ a[k + i] \in Nat /\ a[k + (i - 1)] \in Nat
        /\ b[i] \in Nat /\ b[i - 1] \in Nat
    BY <1>3, <2>4
  <2>6. f[k + i] <= h[i] /\ f[k + i] \in Nat /\ h[i] \in Nat
    <3>1. f[k + i] <= h[i]
      BY <2>1
    <3>2. f[k + i] \in Nat /\ h[i] \in Nat
      BY <2>1, ElementOfSeq
    <3>. QED  BY <3>1, <3>2
  <2>7. ASSUME NEW p \in Nat, NEW q \in Nat, NEW x \in Nat, NEW y \in Nat,
               x <= y
        PROVE  (p + x) - p <= (q + y) - q
    BY <2>7
  <2>. QED  BY <2>2, <2>3, <2>5, <2>6, <2>7
<1>6. a[k + n] <= b[n]
  <2>1. \A i \in 0..n : a[k + i] \in Nat /\ b[i] \in Nat
    BY <1>0, <1>3
  <2>2. a[k] <= b[0]
    BY <1>3, <1>4
  <2>3. \A i \in 0..n : a[k + i] <= b[i]
    BY <1>0, <1>5, <2>1, <2>2, SumsCompare
  <2>. QED  BY <1>0, <2>3
<1>. QED  BY <1>1, <1>2, <1>6, TotalIsLast DEF n

\* What is appended is added.
LEMMA TotalAppend ==
    ASSUME NEW f \in Seq(Nat), NEW x \in Nat
    PROVE  Total(Append(f, x)) = Total(f) + x
<1>. DEFINE h == Append(f, x)
            n == Len(f)
<1>1. n \in Nat /\ h \in Seq(Nat) /\ Len(h) = n + 1 /\ h[n + 1] = x
      /\ \A i \in 1..n : h[i] = f[i]
  OBVIOUS
<1>2. PICK a : Sums(a, f, n)
  BY SumsExist
<1>. DEFINE b == [i \in 0..(n + 1) |-> IF i = n + 1 THEN a[n] + x ELSE a[i]]
<1>3. Sums(b, h, n + 1)
  <2>. HIDE DEF h, n
  <2>1. b \in [0..(n + 1) -> Nat]
    BY <1>1, <1>2 DEF Sums
  <2>2. b[0] = 0
    BY <1>1, <1>2 DEF Sums
  <2>3. ASSUME NEW i \in 1..(n + 1) PROVE b[i] = b[i - 1] + h[i]
    <3>1. CASE i = n + 1
      BY <1>1, <3>1
    <3>2. CASE i # n + 1
      BY <1>1, <1>2, <3>2 DEF Sums
    <3>. QED  BY <3>1, <3>2
  <2>. QED  BY <2>1, <2>2, <2>3 DEF Sums
<1>4. Total(h) = b[n + 1] /\ Total(f) = a[n]
  BY <1>1, <1>2, <1>3, TotalIsLast
<1>5. b[n + 1] = a[n] + x
  BY <1>1
<1>. QED  BY <1>4, <1>5

-----------------------------------------------------------------------------
(* The governor's history.                                                 *)

\* The purge keeps what follows a prefix that is older than the window.
LEMMA PurgeSuffix ==
    ASSUME NEW h \in Seq(Reservation), NEW n \in Nat
    PROVE  \E k \in 0..Len(h) :
              /\ Purge(h, n) = SubSeq(h, k + 1, Len(h))
              /\ \A i \in 1..k : h[i].at < n - WindowSeconds
<1>. DEFINE expired == {m \in 0..Len(h) :
                          \A i \in 1..m : h[i].at < n - WindowSeconds}
            c == Cardinality(expired)
<1>1. Len(h) \in Nat
  OBVIOUS
<1>2. IsFiniteSet(0..Len(h))
  BY <1>1, FS_Interval
<1>3. IsFiniteSet(expired)
  BY <1>2, FS_Subset
<1>4. 0 \in expired
  BY <1>1
<1>5. c \in Nat /\ c # 0
  <2>. HIDE DEF expired
  <2>. QED  BY <1>3, <1>4, FS_CardinalityType, FS_EmptySet
<1>6. c - 1 \in expired
  <2>1. SUFFICES ASSUME c - 1 \notin expired PROVE FALSE
    OBVIOUS
  <2>2. expired \in SUBSET (0..(c - 2))
    <3>1. SUFFICES ASSUME NEW m \in expired, ~(m <= c - 2) PROVE FALSE
      <4>. HIDE DEF c
      <4>. QED  BY <1>1, <1>5
    <3>2. m \in Nat /\ m <= Len(h) /\ c - 1 <= m /\ c - 1 \in Nat
      <4>. HIDE DEF c
      <4>. QED  BY <1>1, <1>5, <3>1
    <3>3. c - 1 \in expired
      <4>. HIDE DEF c
      <4>. QED  BY <1>1, <3>2
    <3>. QED  BY <2>1, <3>3
  <2>3. Cardinality(0..(c - 2)) < c
    <3>. HIDE DEF c
    <3>1. c - 2 \in Int
      BY <1>5
    <3>2. Cardinality(0..(c - 2)) = IF 0 > c - 2 THEN 0 ELSE c - 2 - 0 + 1
      BY <3>1, FS_Interval
    <3>. QED  BY <1>5, <3>2
  <2>4. IsFiniteSet(0..(c - 2)) /\ Cardinality(0..(c - 2)) \in Nat
    <3>. HIDE DEF c
    <3>1. c - 2 \in Int
      BY <1>5
    <3>. QED  BY <3>1, FS_Interval, FS_CardinalityType
  <2>5. c <= Cardinality(0..(c - 2))
    <3>. HIDE DEF expired
    <3>. QED  BY <2>2, <2>4, FS_Subset
  <2>. HIDE DEF c
  <2>. QED  BY <1>5, <2>3, <2>4, <2>5
<1>7. c - 1 \in 0..Len(h) /\ \A i \in 1..(c - 1) : h[i].at < n - WindowSeconds
  BY <1>6
<1>8. Purge(h, n) = SubSeq(h, c, Len(h))
  BY Zenon DEF Purge
<1>9. (c - 1) + 1 = c
  <2>. HIDE DEF c
  <2>. QED  BY <1>5
<1>. HIDE DEF c
<1>. QED  BY <1>7, <1>8, <1>9

\* A suffix of a history is one.
LEMMA SuffixType ==
    ASSUME NEW h \in Seq(Reservation), NEW k \in 0..Len(h)
    PROVE  /\ SubSeq(h, k + 1, Len(h)) \in Seq(Reservation)
           /\ Len(SubSeq(h, k + 1, Len(h))) = Len(h) - k
           /\ \A i \in 1..(Len(h) - k) :
                 SubSeq(h, k + 1, Len(h))[i] = h[k + i]
<1>1. Len(h) \in Nat /\ k \in Nat
  OBVIOUS
<1>2. \A i \in k + 1..Len(h) : h[i] \in Reservation
  BY <1>1, ElementOfSeq
<1>3. k + 1 \in Int /\ Len(h) \in Int
  BY <1>1
<1>4. /\ SubSeq(h, k + 1, Len(h)) \in Seq(Reservation)
      /\ Len(SubSeq(h, k + 1, Len(h))) =
            IF k + 1 <= Len(h) THEN Len(h) - (k + 1) + 1 ELSE 0
      /\ \A i \in 1..Len(h) - (k + 1) + 1 :
            SubSeq(h, k + 1, Len(h))[i] = h[(k + 1) + i - 1]
  BY <1>2, <1>3, SubSeqProperties
<1>5. \A i \in 1..(Len(h) - k) :
          i \in 1..Len(h) - (k + 1) + 1 /\ (k + 1) + i - 1 = k + i
  BY <1>1
<1>. QED  BY <1>1, <1>4, <1>5

LEMMA PurgeType ==
    ASSUME NEW h \in Seq(Reservation), NEW n \in Nat
    PROVE  Purge(h, n) \in Seq(Reservation)
BY PurgeSuffix, SuffixType

\* record_action leaves a history.
LEMMA ReserveType ==
    ASSUME NEW h \in Seq(Reservation), NEW a \in Nat, NEW n \in Nat
    PROVE  Reserve(h, a, n) \in Seq(Reservation)
<1>1. Purge(h, n) \in Seq(Reservation)
  BY PurgeType
<1>2. [at |-> n, amount |-> a] \in Reservation
  BY DEF Reservation
<1>. QED  BY <1>1, <1>2, AppendProperties DEF Reserve

-----------------------------------------------------------------------------
(* A rolling window.  s stands for all the reservations that were made, in *)
(* their order, of which the history has the last ones.                    *)

\* The history has all of s that a window which ends at now can see.
Follows(history, s, now) ==
    \E k \in 0..Len(s) :
        /\ history = SubSeq(s, k + 1, Len(s))
        /\ \A i \in 1..k : s[i].at < now - WindowSeconds

LEMMA ReservationOf ==
    ASSUME NEW s \in Seq(Reservation)
    PROVE  \A i \in 1..Len(s) : s[i].at \in Nat /\ s[i].amount \in Nat
<1>. TAKE i \in 1..Len(s)
<1>1. s[i] \in Reservation
  BY ElementOfSeq
<1>. QED  BY <1>1 DEF Reservation

LEMMA AmountsType ==
    ASSUME NEW s \in Seq(Reservation), NEW n \in 0..Len(s), NEW from \in Int
    PROVE  /\ Amounts(s, n, from) \in Seq(Nat)
           /\ Len(Amounts(s, n, from)) = n
           /\ \A i \in 1..n :
                 /\ Amounts(s, n, from)[i] \in {0, s[i].amount}
                 /\ s[i].amount \in Nat
                 /\ i \notin Inside(s, n, from) => Amounts(s, n, from)[i] = 0
<1>1. Len(s) \in Nat /\ n \in Nat /\ \A i \in 1..n : i \in 1..Len(s)
  OBVIOUS
<1>2. \A i \in 1..n : s[i].amount \in Nat
  BY <1>1, ReservationOf
<1>. DEFINE a == Amounts(s, n, from)
<1>3. a \in [1..n -> Nat]
  BY <1>2 DEF Amounts
<1>4. a \in Seq(Nat) /\ Len(a) = n
  <2>. HIDE DEF a
  <2>. QED  BY <1>1, <1>3
<1>5. \A i \in 1..n : /\ a[i] \in {0, s[i].amount}
                      /\ i \notin Inside(s, n, from) => a[i] = 0
  BY DEF Amounts
<1>. QED  BY <1>2, <1>4, <1>5

LEMMA InsideType ==
    ASSUME NEW s, NEW n \in Nat, NEW from
    PROVE  /\ IsFiniteSet(Inside(s, n, from))
           /\ Inside(s, n, from) \in SUBSET (1..n)
<1>1. IsFiniteSet(1..n)
  BY FS_Interval
<1>2. Inside(s, n, from) \in SUBSET (1..n)
  BY DEF Inside
<1>. QED  BY <1>1, <1>2, FS_Subset

\* What comes later is not seen among the first n.
LEMMA LimitsPrefix ==
    ASSUME NEW s \in Seq(Reservation), NEW r \in Reservation,
           NEW n \in 0..Len(s), NEW from
    PROVE  WithinLimits(Append(s, r), n, from) <=> WithinLimits(s, n, from)
<1>1. \A i \in 1..n : Append(s, r)[i] = s[i]
  BY AppendProperties
<1>2. Inside(Append(s, r), n, from) = Inside(s, n, from)
  BY <1>1 DEF Inside
<1>3. Amounts(Append(s, r), n, from) = Amounts(s, n, from)
  BY <1>1, <1>2 DEF Amounts
<1>. QED  BY <1>2, <1>3 DEF WithinLimits

\* The volume of a history is that of what it was made of.
LEMMA VolumeType ==
    ASSUME NEW h \in Seq(Reservation)
    PROVE  LET a == [i \in DOMAIN h |-> h[i].amount]
           IN  /\ a \in Seq(Nat) /\ Len(a) = Len(h)
               /\ \A i \in 1..Len(h) : a[i] = h[i].amount
               /\ Volume(h) = Total(a)
               /\ Volume(h) \in Nat
<1>. DEFINE a == [i \in DOMAIN h |-> h[i].amount]
<1>1. Len(h) \in Nat /\ DOMAIN h = 1..Len(h)
  OBVIOUS
<1>2. \A i \in 1..Len(h) : h[i].amount \in Nat
  BY ReservationOf
<1>3. a \in [1..Len(h) -> Nat] /\ \A i \in 1..Len(h) : a[i] = h[i].amount
  BY <1>1, <1>2
<1>4. Volume(h) = Total(a)
  BY Zenon DEF Volume
<1>. HIDE DEF a
<1>5. a \in Seq(Nat) /\ Len(a) = Len(h)
  BY <1>1, <1>3
<1>6. Total(a) \in Nat
  BY <1>5, TotalType
<1>. QED  BY <1>3, <1>4, <1>5, <1>6 DEF a

\* A purge leaves what a window can see that ends no earlier than the purge
\* and those before it.
LEMMA PurgeFollows ==
    ASSUME NEW s \in Seq(Reservation), NEW h, NEW last \in Nat, NEW now \in Nat,
           NEW later \in Nat,
           last <= later, now <= later, Follows(h, s, last)
    PROVE  Follows(Purge(h, now), s, later)
<1>1. PICK k \in 0..Len(s) :
          /\ h = SubSeq(s, k + 1, Len(s))
          /\ \A i \in 1..k : s[i].at < last - WindowSeconds
  BY DEF Follows
<1>2. Len(s) \in Nat /\ k \in Nat
  OBVIOUS
<1>3. /\ h \in Seq(Reservation) /\ Len(h) = Len(s) - k
      /\ \A i \in 1..(Len(s) - k) : h[i] = s[k + i]
  BY <1>1, SuffixType
<1>4. PICK j \in 0..Len(h) :
          /\ Purge(h, now) = SubSeq(h, j + 1, Len(h))
          /\ \A i \in 1..j : h[i].at < now - WindowSeconds
  BY <1>3, PurgeSuffix
<1>. DEFINE m == k + j
<1>5. m \in 0..Len(s) /\ j \in Nat
  BY <1>2, <1>3, <1>4
<1>6. SubSeq(h, j + 1, Len(h)) = SubSeq(s, m + 1, Len(s))
  <2>1. /\ SubSeq(h, j + 1, Len(h)) \in Seq(Reservation)
        /\ Len(SubSeq(h, j + 1, Len(h))) = Len(h) - j
        /\ \A i \in 1..(Len(h) - j) : SubSeq(h, j + 1, Len(h))[i] = h[j + i]
    BY <1>3, SuffixType
  <2>2. /\ SubSeq(s, m + 1, Len(s)) \in Seq(Reservation)
        /\ Len(SubSeq(s, m + 1, Len(s))) = Len(s) - m
        /\ \A i \in 1..(Len(s) - m) : SubSeq(s, m + 1, Len(s))[i] = s[m + i]
    BY <1>5, SuffixType
  <2>3. Len(h) - j = Len(s) - m
    BY <1>2, <1>3, <1>5
  <2>4. \A i \in 1..(Len(h) - j) : h[j + i] = s[m + i]
    <3>. TAKE i \in 1..(Len(h) - j)
    <3>1. j + i \in 1..(Len(s) - k) /\ k + (j + i) = m + i
      BY <1>2, <1>3, <1>5
    <3>. QED  BY <1>3, <3>1
  <2>. HIDE DEF m
  <2>. DEFINE u == SubSeq(h, j + 1, Len(h))
              v == SubSeq(s, m + 1, Len(s))
  <2>5. /\ u \in Seq(Reservation) /\ v \in Seq(Reservation)
        /\ Len(u) = Len(v) /\ \A i \in 1..Len(u) : u[i] = v[i]
    BY <2>1, <2>2, <2>3, <2>4
  <2>. HIDE DEF u, v
  <2>6. u = v
    BY <2>5, SeqEqual
  <2>. QED  BY <2>6, Zenon DEF u, v
<1>7. \A i \in 1..m : s[i].at < later - WindowSeconds
  <2>. TAKE i \in 1..m
  <2>1. WindowSeconds \in Nat /\ i \in 1..Len(s) /\ s[i].at \in Nat
    BY <1>2, <1>5, ReservationOf, CapacityAssumption
  <2>2. CASE i <= k
    <3>1. i \in 1..k
      BY <1>2, <2>2
    <3>. QED  BY <1>1, <2>1, <3>1
  <2>3. CASE ~(i <= k)
    <3>1. i - k \in 1..j /\ i - k \in 1..(Len(s) - k) /\ k + (i - k) = i
      BY <1>2, <1>3, <1>5, <2>3
    <3>2. s[i].at < now - WindowSeconds
      BY <1>3, <1>4, <3>1
    <3>. QED  BY <2>1, <3>2
  <2>. QED  BY <2>2, <2>3
<1>. HIDE DEF m
<1>. QED  BY <1>4, <1>5, <1>6, <1>7 DEF Follows

\* A reservation is added to both.
LEMMA AppendFollows ==
    ASSUME NEW s \in Seq(Reservation), NEW live, NEW now \in Nat,
           NEW r \in Reservation,
           Follows(live, s, now)
    PROVE  Follows(Append(live, r), Append(s, r), now)
<1>. DEFINE q == Append(s, r)
            n == Len(s)
            u == Append(live, r)
<1>1. /\ n \in Nat /\ q \in Seq(Reservation) /\ Len(q) = n + 1 /\ q[n + 1] = r
      /\ \A i \in 1..n : q[i] = s[i]
  BY AppendProperties
<1>2. PICK k \in 0..n : /\ live = SubSeq(s, k + 1, n)
                        /\ \A i \in 1..k : s[i].at < now - WindowSeconds
  BY DEF Follows
<1>3. /\ live \in Seq(Reservation) /\ Len(live) = n - k
      /\ \A i \in 1..(n - k) : live[i] = s[k + i]
  BY <1>2, SuffixType
<1>4. /\ u \in Seq(Reservation) /\ Len(u) = n - k + 1 /\ u[n - k + 1] = r
      /\ \A i \in 1..(n - k) : u[i] = live[i]
  <2>1. Len(live) = n - k
    BY <1>3
  <2>. QED  BY <1>3, <2>1, AppendProperties
<1>. HIDE DEF q, n, u
<1>. DEFINE v == SubSeq(q, k + 1, Len(q))
<1>5. k \in 0..Len(q) /\ k \in Nat
  BY <1>1
<1>6. /\ v \in Seq(Reservation) /\ Len(v) = n - k + 1
      /\ \A i \in 1..(n - k + 1) : v[i] = q[k + i]
  <2>1. Len(q) - k = n - k + 1
    BY <1>1, <1>5
  <2>. QED  BY <1>1, <1>5, <2>1, SuffixType
<1>7. ASSUME NEW i \in 1..(n - k + 1) PROVE u[i] = v[i]
  <2>1. CASE i = n - k + 1
    <3>1. k + i = n + 1
      BY <1>1, <1>5, <2>1
    <3>. QED  BY <1>1, <1>4, <1>6, <2>1, <3>1
  <2>2. CASE i # n - k + 1
    <3>1. i \in 1..(n - k) /\ k + i \in 1..n
      BY <1>1, <1>5, <2>2
    <3>. QED  BY <1>1, <1>3, <1>4, <1>6, <3>1
  <2>. QED  BY <2>1, <2>2
<1>. HIDE DEF v
<1>8. u = v
  BY <1>4, <1>6, <1>7, SeqEqual
<1>9. \A i \in 1..k : q[i].at < now - WindowSeconds
  <2>. TAKE i \in 1..k
  <2>1. i \in 1..n
    BY <1>1
  <2>2. q[i] = s[i]
    BY <1>1, <2>1
  <2>. QED  BY <1>2, <2>2
<1>10. u = SubSeq(q, k + 1, Len(q))
  BY <1>8 DEF v
<1>11. Follows(u, q, now)
  BY <1>5, <1>9, <1>10, Zenon DEF Follows
<1>. QED  BY <1>11 DEF q, u

\* With a reservation for which there is room the window that ends at its time
\* is within the limits: it sees nothing older than what the purge has left.
LEMMA RoomWithinLimits ==
    ASSUME NEW s \in Seq(Reservation), NEW live, NEW now \in Nat,
           NEW r \in Reservation,
           r.at = now, Follows(live, s, now), HasRoom(live, r.amount)
    PROVE  WithinLimits(Append(s, r), Len(s) + 1, now - WindowSeconds)
<1>. DEFINE q == Append(s, r)
            n == Len(s)
            from == now - WindowSeconds
            ins == Inside(q, n + 1, from)
            amounts == Amounts(q, n + 1, from)
<1>1. /\ n \in Nat /\ q \in Seq(Reservation) /\ Len(q) = n + 1 /\ q[n + 1] = r
      /\ \A i \in 1..n : q[i] = s[i]
  BY AppendProperties
<1>2. PICK k \in 0..n : /\ live = SubSeq(s, k + 1, n)
                        /\ \A i \in 1..k : s[i].at < from
  BY DEF Follows
<1>3. /\ live \in Seq(Reservation) /\ Len(live) = n - k
      /\ \A i \in 1..(n - k) : live[i] = s[k + i]
  BY <1>2, SuffixType
<1>4. from \in Int /\ from + WindowSeconds = now
  BY CapacityAssumption
<1>5. n + 1 \in 0..Len(q)
  BY <1>1
<1>. HIDE DEF q, n, from
<1>6. /\ amounts \in Seq(Nat) /\ Len(amounts) = n + 1
      /\ \A i \in 1..(n + 1) : /\ amounts[i] \in {0, q[i].amount}
                               /\ q[i].amount \in Nat
                               /\ i \notin ins => amounts[i] = 0
  BY <1>1, <1>4, <1>5, AmountsType
<1>7. IsFiniteSet(ins) /\ ins \in SUBSET (1..(n + 1))
  <2>1. n + 1 \in Nat
    BY <1>1
  <2>. QED  BY <2>1, InsideType
<1>8. \A i \in 1..k : i \notin ins
  <2>. TAKE i \in 1..k
  <2>1. i \in 1..n
    BY <1>1
  <2>2. q[i].at < from /\ q[i].at \in Nat
    BY <1>1, <1>2, <2>1, ReservationOf DEF n
  <2>3. q[i].at \notin from..(from + WindowSeconds)
    BY <1>4, <2>2
  <2>. QED  BY <2>3 DEF Inside
<1>. HIDE DEF ins, amounts
<1>9. Cardinality(ins) <= MaxActions
  <2>1. ins \in SUBSET (k + 1..n + 1)
    BY <1>1, <1>7, <1>8
  <2>2. /\ IsFiniteSet(k + 1..n + 1)
        /\ Cardinality(k + 1..n + 1) =
              IF k + 1 > n + 1 THEN 0 ELSE (n + 1) - (k + 1) + 1
    <3>1. k + 1 \in Int /\ n + 1 \in Int
      BY <1>1
    <3>. QED  BY <3>1, FS_Interval
  <2>3. Cardinality(ins) <= Cardinality(k + 1..n + 1)
    BY <2>1, <2>2, FS_Subset
  <2>4. n - k + 1 <= MaxActions
    BY <1>3 DEF HasRoom
  <2>5. Cardinality(ins) \in Nat /\ MaxActions \in Nat
    BY <1>7, FS_CardinalityType, CapacityAssumption
  <2>. QED  BY <1>1, <2>2, <2>3, <2>4, <2>5
<1>10. Total(amounts) <= MaxVolume
  <2>. DEFINE a == [i \in DOMAIN live |-> live[i].amount]
              b == Append(a, r.amount)
  <2>1. /\ a \in Seq(Nat) /\ Len(a) = n - k /\ Volume(live) = Total(a)
        /\ Volume(live) \in Nat
        /\ \A i \in 1..(n - k) : a[i] = live[i].amount
    BY <1>3, VolumeType
  <2>2. r.amount \in Nat
    BY DEF Reservation
  <2>. HIDE DEF a
  <2>3. /\ b \in Seq(Nat) /\ Len(b) = n - k + 1 /\ b[n - k + 1] = r.amount
        /\ \A i \in 1..(n - k) : b[i] = a[i]
    <3>1. Len(a) = n - k
      BY <2>1
    <3>. QED  BY <2>1, <2>2, <3>1
  <2>4. Total(b) = Volume(live) + r.amount
    BY <2>1, <2>2, TotalAppend
  <2>. HIDE DEF b
  <2>5. n + 1 = k + Len(b) /\ k \in Nat
    BY <1>1, <2>3
  <2>6. \A i \in 1..k : amounts[i] = 0
    <3>. TAKE i \in 1..k
    <3>1. i \in 1..(n + 1)
      BY <1>1
    <3>. QED  BY <1>6, <1>8, <3>1
  <2>7. ASSUME NEW i \in 1..Len(b)
        PROVE  amounts[k + i] <= b[i]
    <3>1. k + i \in 1..(n + 1)
      BY <1>1, <2>5
    <3>2. /\ amounts[k + i] \in {0, q[k + i].amount}
          /\ q[k + i].amount \in Nat
      BY <1>6, <3>1
    <3>3. b[i] = q[k + i].amount
      <4>1. CASE i = n - k + 1
        <5>1. k + i = n + 1
          BY <1>1, <4>1
        <5>. QED  BY <1>1, <2>3, <4>1, <5>1
      <4>2. CASE i # n - k + 1
        <5>1. i \in 1..(n - k) /\ k + i \in 1..n
          BY <1>1, <2>3, <4>2
        <5>2. b[i] = live[i].amount /\ live[i] = s[k + i]
          BY <1>3, <2>1, <2>3, <5>1
        <5>3. q[k + i] = s[k + i]
          BY <1>1, <5>1
        <5>. QED  BY <5>2, <5>3
      <4>. QED  BY <4>1, <4>2
    <3>. QED  BY <3>2, <3>3
  <2>8. Total(amounts) <= Total(b)
    BY <1>6, <2>3, <2>5, <2>6, <2>7, TotalBelow
  <2>9. Volume(live) + r.amount <= MaxVolume
    BY DEF HasRoom
  <2>10. /\ Total(amounts) \in Nat /\ Total(b) \in Nat
         /\ MaxVolume \in Nat
    BY <1>6, <2>3, TotalType, CapacityAssumption
  <2>. QED  BY <2>4, <2>8, <2>9, <2>10
<1>. QED  BY <1>9, <1>10 DEF WithinLimits, ins, amounts, q, n, from

=============================================================================
