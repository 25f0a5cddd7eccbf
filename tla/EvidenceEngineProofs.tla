------------------------ MODULE EvidenceEngineProofs -------------------------
(***************************************************************************)
(* What a claim of the evidence engine rests on, for any evaluators,       *)
(* cases, requests and entries of the ledger: what was counted is bounded  *)
(* by what the ledger was while it was read, payments alone are never      *)
(* approved, and every claim is logged.                                    *)
(*                                                                         *)
(* The bounds on a claim are not inductive.  An evaluation that has read a *)
(* part of its cases is bounded by that part, so the invariant counts the  *)
(* positions in the cohorts before the next one to read.  At the end they  *)
(* are all positions, and as no case is twice in the cohorts the positions *)
(* are as many as the cases.                                               *)
(***************************************************************************)
EXTENDS EvidenceEngine, TLAPS, FiniteSetTheorems, SequenceTheorems

-----------------------------------------------------------------------------
(* The summary of a case.                                                  *)

LEMMA InsertProperties ==
    ASSUME NEW S, NEW s \in Seq(S), NEW x \in S, NEW i \in 1..(Len(s) + 1)
    PROVE  /\ InsertAt(s, i, x) \in Seq(S)
           /\ \A j \in DOMAIN s : \E k \in DOMAIN InsertAt(s, i, x) :
                                     InsertAt(s, i, x)[k] = s[j]
<1>. DEFINE a == SubSeq(s, 1, i - 1)
            b == SubSeq(s, i, Len(s))
            one == <<x>>
<1>1. Len(s) \in Nat /\ i \in Nat /\ DOMAIN s = 1..Len(s)
  OBVIOUS
<1>2. /\ a \in Seq(S) /\ Len(a) = i - 1
      /\ \A j \in 1..(i - 1) : a[j] = s[j]
  <2>1. \A j \in 1..(i - 1) : s[j] \in S
    BY <1>1, ElementOfSeq
  <2>2. /\ a \in Seq(S)
        /\ Len(a) = IF 1 <= i - 1 THEN (i - 1) - 1 + 1 ELSE 0
        /\ \A j \in 1..((i - 1) - 1 + 1) : a[j] = s[1 + j - 1]
    <3>1. 1 \in Int /\ i - 1 \in Int
      BY <1>1
    <3>. QED  BY <2>1, <3>1, SubSeqProperties
  <2>. HIDE DEF a
  <2>3. \A j \in 1..(i - 1) : j \in 1..((i - 1) - 1 + 1) /\ 1 + j - 1 = j
    BY <1>1
  <2>. QED  BY <1>1, <2>2, <2>3
<1>3. /\ b \in Seq(S) /\ Len(b) = Len(s) - i + 1
      /\ \A j \in 1..(Len(s) - i + 1) : b[j] = s[i + j - 1]
  <2>1. \A j \in i..Len(s) : s[j] \in S
    BY <1>1, ElementOfSeq
  <2>2. /\ b \in Seq(S)
        /\ Len(b) = IF i <= Len(s) THEN Len(s) - i + 1 ELSE 0
        /\ \A j \in 1..(Len(s) - i + 1) : b[j] = s[i + j - 1]
    <3>1. i \in Int /\ Len(s) \in Int
      BY <1>1
    <3>. QED  BY <2>1, <3>1, SubSeqProperties
  <2>. HIDE DEF b
  <2>. QED  BY <1>1, <2>2
<1>4. one \in Seq(S) /\ Len(one) = 1
  OBVIOUS
<1>. HIDE DEF a, b, one
<1>5. /\ a \o one \in Seq(S) /\ Len(a \o one) = i
      /\ \A j \in 1..(i - 1) : (a \o one)[j] = a[j]
  <2>1. /\ a \o one \in Seq(S) /\ Len(a \o one) = Len(a) + Len(one)
        /\ \A j \in 1..Len(a) + Len(one) :
              (a \o one)[j] = IF j <= Len(a) THEN a[j] ELSE one[j - Len(a)]
    BY <1>2, <1>4, ConcatProperties
  <2>. QED  BY <1>1, <1>2, <1>4, <2>1
<1>. DEFINE c == (a \o one) \o b
<1>6. /\ c \in Seq(S) /\ Len(c) = Len(s) + 1
      /\ \A j \in 1..(Len(s) + 1) :
            c[j] = IF j <= i THEN (a \o one)[j] ELSE b[j - i]
  <2>1. /\ c \in Seq(S) /\ Len(c) = Len(a \o one) + Len(b)
        /\ \A j \in 1..Len(a \o one) + Len(b) :
              c[j] = IF j <= Len(a \o one) THEN (a \o one)[j]
                                           ELSE b[j - Len(a \o one)]
    <3>. DEFINE d == a \o one
    <3>1. d \in Seq(S)
      BY <1>5
    <3>. HIDE DEF d
    <3>2. /\ d \o b \in Seq(S) /\ Len(d \o b) = Len(d) + Len(b)
          /\ \A j \in 1..Len(d) + Len(b) :
                (d \o b)[j] = IF j <= Len(d) THEN d[j] ELSE b[j - Len(d)]
      BY <1>3, <3>1, ConcatProperties
    <3>. QED  BY <3>2 DEF d
  <2>. HIDE DEF c
  <2>2. Len(a \o one) = i /\ Len(a \o one) + Len(b) = Len(s) + 1
    BY <1>1, <1>3, <1>5
  <2>. QED  BY <2>1, <2>2
<1>. HIDE DEF c
<1>7. DOMAIN c = 1..(Len(s) + 1)
  BY <1>6
<1>8. ASSUME NEW j \in DOMAIN s PROVE \E k \in DOMAIN c : c[k] = s[j]
  <2>1. CASE j < i
    <3>1. j \in 1..(i - 1) /\ j \in 1..(Len(s) + 1) /\ j <= i
      BY <1>1, <2>1
    <3>. QED  BY <1>2, <1>5, <1>6, <1>7, <3>1
  <2>2. CASE ~(j < i)
    <3>. DEFINE k == j + 1
                m == k - i
    <3>1. /\ k \in 1..(Len(s) + 1) /\ ~(k <= i)
          /\ m \in 1..(Len(s) - i + 1) /\ i + m - 1 = j
      BY <1>1, <2>2
    <3>. HIDE DEF k
    <3>2. c[k] = b[m]
      BY <1>6, <3>1
    <3>. HIDE DEF m
    <3>3. b[m] = s[j]
      BY <1>3, <3>1
    <3>. QED  BY <1>7, <3>1, <3>2, <3>3
  <2>. QED  BY <2>1, <2>2
<1>9. InsertAt(s, i, x) = c
  BY DEF InsertAt, a, b, c, one
<1>. QED  BY <1>6, <1>8, <1>9

\* A case counts as recovered exactly if an entry of it is no loss, which is
\* when it has been paid; nothing is confirmed that does not count so.
LEMMA SummaryOf ==
    ASSUME NEW s \in Seq(FinancialStates)
    PROVE  /\ Gross(s) \in {0, 1} /\ Net(s) \in {0, 1}
           /\ Recovered(s) <=> \E i \in DOMAIN s : s[i] # "LOST"
           /\ Recovered(s) <=> Gross(s) = 1
           /\ OneRecovered(s) = Gross(s)
<1>1. Gross(s) \in {0, 1} /\ Net(s) \in {0, 1}
  BY DEF Gross, Net
<1>2. Gross(s) = 1 <=> \E i \in DOMAIN s : s[i] # "LOST"
  BY DEF Gross
<1>3. Net(s) = 1 => Gross(s) = 1
  BY <1>2 DEF Net
<1>4. s # <<>> /\ Last(s) = "CONFIRMED_SETTLED" => Gross(s) = 1
  <2>. HAVE s # <<>> /\ Last(s) = "CONFIRMED_SETTLED"
  <2>1. Len(s) \in DOMAIN s
    BY EmptySeq, LenProperties
  <2>. QED  BY <1>2, <2>1 DEF Last
<1>5. Recovered(s) <=> Gross(s) = 1
  <2>1. Net(s) > 0 <=> Net(s) = 1
    BY <1>1
  <2>2. Gross(s) > 0 <=> Gross(s) = 1
    BY <1>1
  <2>. QED  BY <1>3, <1>4, <2>1, <2>2, Zenon DEF Recovered
<1>. QED  BY <1>1, <1>2, <1>5 DEF OneRecovered

-----------------------------------------------------------------------------
(* Counting.                                                               *)

\* The members of a set of positions before a position.
Before(S, n) == {i \in S : i < n}

LEMMA BeforeFinite ==
    ASSUME NEW S \in SUBSET Nat, NEW n \in Nat
    PROVE  IsFiniteSet(Before(S, n)) /\ Cardinality(Before(S, n)) \in Nat
<1>1. \A i \in S : i \in Nat
  OBVIOUS
<1>2. ASSUME NEW i \in Before(S, n) PROVE i \in 0..n
  <2>1. i \in S /\ i < n
    BY DEF Before
  <2>2. i \in Nat
    BY <1>1, <2>1
  <2>. QED  BY <2>1, <2>2
<1>3. IsFiniteSet(0..n)
  BY FS_Interval
<1>4. Before(S, n) \in SUBSET (0..n)
  BY <1>2
<1>. QED  BY <1>3, <1>4, FS_Subset, FS_CardinalityType

LEMMA BeforeNext ==
    ASSUME NEW S \in SUBSET Nat, NEW n \in Nat
    PROVE  Cardinality(Before(S, n + 1)) =
              Cardinality(Before(S, n)) + IF n \in S THEN 1 ELSE 0
<1>1. IsFiniteSet(Before(S, n)) /\ n \notin Before(S, n)
      /\ Cardinality(Before(S, n)) \in Nat
  BY BeforeFinite DEF Before
<1>. DEFINE one == IF n \in S THEN {n} ELSE {}
<1>0. Before(S, n + 1) = Before(S, n) \cup one
  <2>1. \A i \in S : i < n + 1 <=> i < n \/ i = n
    <3>1. \A i \in S : i \in Nat
      OBVIOUS
    <3>. QED  BY <3>1
  <2>. QED  BY <2>1 DEF Before
<1>2. CASE n \in S
  <2>1. Before(S, n + 1) = Before(S, n) \cup {n}
    BY <1>0, <1>2
  <2>. QED  BY <1>1, <1>2, <2>1, FS_AddElement
<1>3. CASE n \notin S
  <2>1. Before(S, n + 1) = Before(S, n)
    BY <1>0, <1>3
  <2>. QED  BY <1>1, <1>3, <2>1
<1>. QED  BY <1>2, <1>3

LEMMA BeforeMonotone ==
    ASSUME NEW S \in SUBSET Nat, NEW T \in SUBSET Nat, NEW n \in Nat,
           S \subseteq T
    PROVE  Cardinality(Before(S, n)) <= Cardinality(Before(T, n))
<1>1. Before(S, n) \in SUBSET Before(T, n)
  BY DEF Before
<1>. QED  BY <1>1, BeforeFinite, FS_Subset

LEMMA BeforeFirst ==
    ASSUME NEW S \in SUBSET (Nat \ {0})
    PROVE  Cardinality(Before(S, 1)) = 0
<1>1. ASSUME NEW i \in Before(S, 1) PROVE FALSE
  <2>1. i \in S /\ i < 1
    BY DEF Before
  <2>2. i \in Nat /\ i # 0
    BY <2>1
  <2>. QED  BY <2>1, <2>2
<1>. QED  BY <1>1, FS_EmptySet

\* A set that a sequence without repetitions reaches from some positions is as
\* large as the set of these.
LEMMA AsManyPositions ==
    ASSUME NEW c \in Seq(Cases), IsInjective(c),
           NEW S, S \subseteq DOMAIN c, NEW T,
           \A i \in S : c[i] \in T,
           \A x \in T : \E i \in S : c[i] = x
    PROVE  Cardinality(T) = Cardinality(S)
<1>1. IsFiniteSet(S)
  <2>1. DOMAIN c = 1..Len(c) /\ Len(c) \in Nat
    OBVIOUS
  <2>2. IsFiniteSet(DOMAIN c)
    BY <2>1, FS_Interval
  <2>3. S \in SUBSET DOMAIN c
    OBVIOUS
  <2>. QED  BY <2>2, <2>3, FS_Subset
<1>. DEFINE f == [i \in S |-> c[i]]
<1>2. f \in [S -> T]
  OBVIOUS
<1>3. f \in Injection(S, T)
  BY <1>2 DEF Injection, IsInjective
<1>4. f \in Surjection(S, T)
  BY <1>2 DEF Surjection
<1>5. f \in Bijection(S, T)
  BY <1>3, <1>4 DEF Bijection
<1>6. ExistsBijection(S, T)
  BY <1>5 DEF ExistsBijection
<1>. QED  BY <1>1, <1>6, FS_Bijection

\* How often a claim is in a sequence, when one more is appended.
LEMMA TimesAppend ==
    ASSUME NEW s \in Seq(EvidenceMetricEntry), NEW y \in EvidenceMetricEntry,
           NEW x
    PROVE  /\ Times(x, s) \in Nat
           /\ Times(x, Append(s, y)) = Times(x, s) + IF y = x THEN 1 ELSE 0
<1>. DEFINE n == Len(s)
            old == {i \in DOMAIN s : s[i] = x}
            new == {i \in DOMAIN Append(s, y) : Append(s, y)[i] = x}
<1>1. /\ n \in Nat /\ DOMAIN s = 1..n
      /\ DOMAIN Append(s, y) = 1..(n + 1)
      /\ Append(s, y)[n + 1] = y
      /\ \A i \in 1..n : Append(s, y)[i] = s[i]
  <2>1. Append(s, y) \in Seq(EvidenceMetricEntry)
        /\ Len(Append(s, y)) = n + 1
    BY AppendProperties
  <2>. QED  BY <2>1, AppendProperties
<1>2. IsFiniteSet(old) /\ Cardinality(old) \in Nat
  <2>1. IsFiniteSet(1..n) /\ old \in SUBSET (1..n)
    BY <1>1, FS_Interval
  <2>. QED  BY <2>1, FS_Subset, FS_CardinalityType
<1>3. n + 1 \notin old /\ new = IF y = x THEN old \cup {n + 1} ELSE old
  BY <1>1
<1>. HIDE DEF old, new
<1>4. Cardinality(new) = Cardinality(old) + IF y = x THEN 1 ELSE 0
  <2>1. Cardinality(old \cup {n + 1}) = Cardinality(old) + 1
    BY <1>2, <1>3, FS_AddElement
  <2>. QED  BY <1>2, <1>3, <2>1
<1>. QED  BY <1>2, <1>4 DEF Times, old, new

-----------------------------------------------------------------------------
(* The inductive invariant.                                                *)

\* The positions in the cohorts of a call of the cases that are in a set, and
\* of these the positions of the treatment and those of the control.
Positions(r, set) == {i \in 1..Len(Cohorts(r)) : Cohorts(r)[i] \in set}

Treated(r, set) == {i \in Positions(r, set) : i <= Len(r.treatment)}

Controlled(r, set) == {i \in Positions(r, set) : i > Len(r.treatment)}

\* What was counted before position at is bounded by what the ledger was in
\* the meantime, which is m, and by what is recovered.
Bounded(r, n, at, m, recovered) ==
    LET seen(S) == Cardinality(Before(S, at))
    IN  /\ n.gross < at
        /\ n.treatment + n.control <= n.gross
        /\ n.confirmed <= seen(Positions(r, m.confirmed))
        /\ seen(Positions(r, m.kept)) <= n.confirmed
        /\ seen(Treated(r, m.before)) <= n.treatment
        /\ n.treatment <= seen(Treated(r, recovered))
        /\ seen(Controlled(r, m.before)) <= n.control
        /\ n.control <= seen(Controlled(r, recovered))

\* The types, without the bounds on what was counted.
Typed ==
    /\ ledger \in [Cases -> Seq(FinancialStates)]
    /\ evaluation \in [Evaluators -> Evaluation \cup {None}]
    /\ registry \in [Metrics -> EvidenceMetricEntry \cup {None}]
    /\ log \in Seq(EvidenceMetricEntry)
    /\ made \in Seq(EvidenceMetricEntry)
    /\ begun \in 0..MaxEvaluations
    /\ met \in [Evaluators -> [confirmed : SUBSET Cases, kept : SUBSET Cases,
                               before : SUBSET Cases]]
    /\ \A m \in Metrics : registry[m] # None => registry[m].request.metric = m

\* An evaluation that has read all its cases has made its claim of them.
ClaimInv ==
    \A e \in Evaluators :
        LET v == evaluation[e]
        IN  /\ v # None => v.at <= Len(Cohorts(v.request)) + 1
            /\ Step(e) = "log" => /\ v.at = Len(Cohorts(v.request)) + 1
                                  /\ v.claim = Claim(v.request, v.counted)

\* While an evaluation reads, what it has met includes how the ledger is.
MetInv ==
    \A e \in Evaluators :
        /\ Step(e) = "read" => /\ Confirmed \subseteq met[e].confirmed
                               /\ met[e].kept \subseteq Confirmed
        /\ Step(e) # "none" => met[e].before \subseteq AllRecovered

CountInv ==
    \A e \in Evaluators :
        LET v == evaluation[e]
        IN  v # None =>
                Bounded(v.request, v.counted, v.at, met[e], AllRecovered)

\* The evaluators whose claim is about to be logged.
Waiting(claim) ==
    {e \in Evaluators : Step(e) = "log" /\ evaluation[e].claim = claim}

\* However many evaluators there are, finitely many are at work.
LogInv ==
    /\ IsFiniteSet({e \in Evaluators : evaluation[e] # None})
    /\ \A claim \in EvidenceMetricEntry :
          Times(claim, made) = Times(claim, log) + Cardinality(Waiting(claim))

IndInv == Typed /\ ClaimInv /\ MetInv /\ CountInv /\ LogInv

-----------------------------------------------------------------------------
(* What a call counts.                                                     *)

LEMMA CohortsOf ==
    ASSUME NEW r \in Requests
    PROVE  /\ Cohorts(r) \in Seq(Cases) /\ IsInjective(Cohorts(r))
           /\ r.treatment \in Seq(Cases) /\ r.control \in Seq(Cases)
           /\ Len(r.treatment) \in Nat /\ Len(r.control) \in Nat
           /\ Len(Cohorts(r)) \in Nat
           /\ Len(Cohorts(r)) = Len(r.treatment) + Len(r.control)
           /\ DOMAIN Cohorts(r) = 1..Len(Cohorts(r))
           /\ \A i \in 1..Len(r.treatment) : Cohorts(r)[i] = r.treatment[i]
           /\ \A i \in 1..Len(r.control) :
                 Cohorts(r)[Len(r.treatment) + i] = r.control[i]
<1>. DEFINE a == r.treatment
            b == r.control
<1>1. a \in Seq(Cases) /\ b \in Seq(Cases) /\ IsInjective(a \o b)
  BY EvidenceAssumption
<1>. HIDE DEF a, b
<1>2. Len(a) \in Nat /\ Len(b) \in Nat
  BY <1>1
<1>3. /\ a \o b \in Seq(Cases) /\ Len(a \o b) = Len(a) + Len(b)
      /\ \A i \in 1..Len(a) + Len(b) :
            (a \o b)[i] = IF i <= Len(a) THEN a[i] ELSE b[i - Len(a)]
  BY <1>1, ConcatProperties
<1>4. DOMAIN (a \o b) = 1..Len(a \o b)
  BY <1>3, LenProperties
<1>. DEFINE c == a \o b
<1>. HIDE DEF c
<1>5. \A i \in 1..Len(a) : c[i] = a[i]
  BY <1>2, <1>3 DEF c
<1>6. \A i \in 1..Len(b) : c[Len(a) + i] = b[i]
  <2>. TAKE i \in 1..Len(b)
  <2>1. /\ Len(a) + i \in 1..Len(a) + Len(b) /\ ~(Len(a) + i <= Len(a))
        /\ Len(a) + i - Len(a) = i
    BY <1>2
  <2>. QED  BY <1>3, <2>1 DEF c
<1>7. Cohorts(r) = c
  BY DEF Cohorts, a, b, c
<1>8. Len(c) \in Nat
  BY <1>2, <1>3 DEF c
<1>. QED  BY <1>1, <1>2, <1>3, <1>4, <1>5, <1>6, <1>7, <1>8
   DEF a, b, c

LEMMA PositionsOf ==
    ASSUME NEW r \in Requests, NEW set
    PROVE  /\ Positions(r, set) \in SUBSET (Nat \ {0})
           /\ Treated(r, set) \in SUBSET (Nat \ {0})
           /\ Controlled(r, set) \in SUBSET (Nat \ {0})
           /\ Positions(r, set) \in SUBSET Nat
           /\ Treated(r, set) \in SUBSET Nat
           /\ Controlled(r, set) \in SUBSET Nat
<1>1. Positions(r, set) \in SUBSET (Nat \ {0})
  BY DEF Positions
<1>2. /\ Treated(r, set) \subseteq Positions(r, set)
      /\ Controlled(r, set) \subseteq Positions(r, set)
  BY DEF Treated, Controlled
<1>. QED  BY <1>1, <1>2

LEMMA PositionsMonotone ==
    ASSUME NEW r, NEW set, NEW larger, set \subseteq larger
    PROVE  /\ Positions(r, set) \subseteq Positions(r, larger)
           /\ Treated(r, set) \subseteq Treated(r, larger)
           /\ Controlled(r, set) \subseteq Controlled(r, larger)
<1>1. Positions(r, set) \subseteq Positions(r, larger)
  BY DEF Positions
<1>. QED  BY <1>1 DEF Treated, Controlled

\* The counts before a position.
LEMMA SeenType ==
    ASSUME NEW r \in Requests, NEW set, NEW at \in Nat
    PROVE  /\ Cardinality(Before(Positions(r, set), at)) \in Nat
           /\ Cardinality(Before(Treated(r, set), at)) \in Nat
           /\ Cardinality(Before(Controlled(r, set), at)) \in Nat
BY PositionsOf, BeforeFinite

LEMMA SeenMonotone ==
    ASSUME NEW r \in Requests, NEW set, NEW larger, set \subseteq larger,
           NEW at \in Nat
    PROVE  /\ Cardinality(Before(Positions(r, set), at))
                 <= Cardinality(Before(Positions(r, larger), at))
           /\ Cardinality(Before(Treated(r, set), at))
                 <= Cardinality(Before(Treated(r, larger), at))
           /\ Cardinality(Before(Controlled(r, set), at))
                 <= Cardinality(Before(Controlled(r, larger), at))
BY PositionsMonotone, PositionsOf, BeforeMonotone

\* What was counted stays within bounds that grow.
LEMMA BoundedGrows ==
    ASSUME NEW r \in Requests, NEW n \in Tally, NEW at \in Nat,
           NEW m, NEW larger, NEW recovered, NEW more,
           Bounded(r, n, at, m, recovered),
           m.confirmed \subseteq larger.confirmed,
           larger.kept \subseteq m.kept,
           larger.before = m.before,
           recovered \subseteq more
    PROVE  Bounded(r, n, at, larger, more)
<1>1. n.confirmed \in Nat /\ n.treatment \in Nat /\ n.control \in Nat
  BY DEF Tally
<1>2. n.confirmed <= Cardinality(Before(Positions(r, larger.confirmed), at))
  <2>1. /\ n.confirmed <= Cardinality(Before(Positions(r, m.confirmed), at))
        /\ Cardinality(Before(Positions(r, m.confirmed), at))
              <= Cardinality(Before(Positions(r, larger.confirmed), at))
    BY SeenMonotone DEF Bounded
  <2>. QED  BY <1>1, <2>1, SeenType
<1>3. Cardinality(Before(Positions(r, larger.kept), at)) <= n.confirmed
  <2>1. /\ Cardinality(Before(Positions(r, m.kept), at)) <= n.confirmed
        /\ Cardinality(Before(Positions(r, larger.kept), at))
              <= Cardinality(Before(Positions(r, m.kept), at))
    BY SeenMonotone DEF Bounded
  <2>. QED  BY <1>1, <2>1, SeenType
<1>4. n.treatment <= Cardinality(Before(Treated(r, more), at))
  <2>1. /\ n.treatment <= Cardinality(Before(Treated(r, recovered), at))
        /\ Cardinality(Before(Treated(r, recovered), at))
              <= Cardinality(Before(Treated(r, more), at))
    BY SeenMonotone DEF Bounded
  <2>. QED  BY <1>1, <2>1, SeenType
<1>5. n.control <= Cardinality(Before(Controlled(r, more), at))
  <2>1. /\ n.control <= Cardinality(Before(Controlled(r, recovered), at))
        /\ Cardinality(Before(Controlled(r, recovered), at))
              <= Cardinality(Before(Controlled(r, more), at))
    BY SeenMonotone DEF Bounded
  <2>. QED  BY <1>1, <2>1, SeenType
<1>. QED  BY <1>2, <1>3, <1>4, <1>5 DEF Bounded

\* The next case counts one, or none, in each count as in its bounds.
LEMMA BoundedNext ==
    ASSUME NEW r \in Requests, NEW n \in Tally, NEW at \in Nat \ {0},
           at <= Len(Cohorts(r)),
           NEW m, NEW recovered, Bounded(r, n, at, m, recovered),
           NEW s \in Seq(FinancialStates),
           Net(s) > 0 => Cohorts(r)[at] \in m.confirmed,
           Cohorts(r)[at] \in m.kept => Net(s) > 0,
           Cohorts(r)[at] \in m.before => Recovered(s),
           Recovered(s) => Cohorts(r)[at] \in recovered
    PROVE  LET more == Count(n, s, at <= Len(r.treatment))
           IN  more \in Tally /\ Bounded(r, more, at + 1, m, recovered)
<1>. DEFINE treated == at <= Len(r.treatment)
            more == Count(n, s, treated)
            g == Gross(s)
            t == IF treated THEN g ELSE 0
            c == IF treated THEN 0 ELSE g
            seen(S) == Cardinality(Before(S, at))
            next(S) == Cardinality(Before(S, at + 1))
<1>1. /\ n.gross \in Nat /\ n.confirmed \in Nat
      /\ n.treatment \in Nat /\ n.control \in Nat
      /\ Len(r.treatment) \in Nat /\ Len(Cohorts(r)) \in Nat
  BY CohortsOf DEF Tally
<1>2. /\ g \in {0, 1} /\ Net(s) \in {0, 1}
      /\ Recovered(s) <=> g = 1
      /\ OneRecovered(s) = g
  BY SummaryOf
<1>3. t \in {0, 1} /\ c \in {0, 1} /\ t + c = g
  BY <1>2
<1>4. more = [gross |-> n.gross + g, confirmed |-> n.confirmed + Net(s),
              treatment |-> n.treatment + t, control |-> n.control + c]
  BY <1>2 DEF Count, OneConfirmed
<1>5. ASSUME NEW set
      PROVE  /\ at \in Positions(r, set) <=> Cohorts(r)[at] \in set
             /\ at \in Treated(r, set) <=> Cohorts(r)[at] \in set /\ treated
             /\ at \in Controlled(r, set) <=> Cohorts(r)[at] \in set /\ ~treated
  <2>1. at \in 1..Len(Cohorts(r)) /\ (at > Len(r.treatment) <=> ~treated)
    BY <1>1
  <2>. QED  BY <2>1 DEF Positions, Treated, Controlled
<1>6. ASSUME NEW set
      PROVE  /\ next(Positions(r, set)) = seen(Positions(r, set))
                   + IF at \in Positions(r, set) THEN 1 ELSE 0
             /\ next(Treated(r, set)) = seen(Treated(r, set))
                   + IF at \in Treated(r, set) THEN 1 ELSE 0
             /\ next(Controlled(r, set)) = seen(Controlled(r, set))
                   + IF at \in Controlled(r, set) THEN 1 ELSE 0
             /\ seen(Positions(r, set)) \in Nat
             /\ seen(Treated(r, set)) \in Nat
             /\ seen(Controlled(r, set)) \in Nat
  BY PositionsOf, BeforeNext, SeenType
<1>. HIDE DEF more, g, t, c, seen, next
<1>7. more \in Tally
  <2>1. n.gross + g \in Nat /\ n.confirmed + Net(s) \in Nat
    BY <1>1, <1>2
  <2>2. n.treatment + t \in Nat /\ n.control + c \in Nat
    BY <1>1, <1>3
  <2>. QED  BY <1>4, <2>1, <2>2 DEF Tally
<1>8. more.gross < at + 1 /\ more.treatment + more.control <= more.gross
  <2>. DEFINE x == n.gross
              y == n.treatment
              z == n.control
  <2>1. x < at /\ y + z <= x
    BY DEF Bounded
  <2>2. x \in Nat /\ y \in Nat /\ z \in Nat
    BY <1>1
  <2>3. /\ more.gross = x + g
        /\ more.treatment = y + t /\ more.control = z + c
    BY <1>4
  <2>. HIDE DEF x, y, z
  <2>4. x + g < at + 1
    BY <1>2, <2>1, <2>2
  <2>5. (y + t) + (z + c) <= x + g
    BY <1>2, <1>3, <2>1, <2>2
  <2>. QED  BY <2>3, <2>4, <2>5
<1>9. more.confirmed <= next(Positions(r, m.confirmed))
  <2>1. n.confirmed <= seen(Positions(r, m.confirmed))
    BY DEF Bounded, seen
  <2>2. Net(s) = 1 => at \in Positions(r, m.confirmed)
    BY <1>2, <1>5
  <2>. QED  BY <1>1, <1>2, <1>4, <1>6, <2>1, <2>2
<1>10. next(Positions(r, m.kept)) <= more.confirmed
  <2>1. seen(Positions(r, m.kept)) <= n.confirmed
    BY DEF Bounded, seen
  <2>2. at \in Positions(r, m.kept) => Net(s) = 1
    BY <1>2, <1>5
  <2>. QED  BY <1>1, <1>2, <1>4, <1>6, <2>1, <2>2
<1>11. next(Treated(r, m.before)) <= more.treatment
  <2>1. seen(Treated(r, m.before)) <= n.treatment
    BY DEF Bounded, seen
  <2>2. at \in Treated(r, m.before) => t = 1
    BY <1>2, <1>5 DEF t
  <2>3. /\ next(Treated(r, m.before)) = seen(Treated(r, m.before))
              + IF at \in Treated(r, m.before) THEN 1 ELSE 0
        /\ seen(Treated(r, m.before)) \in Nat
    BY <1>6
  <2>. QED  BY <1>1, <1>3, <1>4, <2>1, <2>2, <2>3
<1>12. more.treatment <= next(Treated(r, recovered))
  <2>1. n.treatment <= seen(Treated(r, recovered))
    BY DEF Bounded, seen
  <2>2. t = 1 => at \in Treated(r, recovered)
    BY <1>2, <1>5 DEF t
  <2>. QED  BY <1>1, <1>3, <1>4, <1>6, <2>1, <2>2
<1>13. next(Controlled(r, m.before)) <= more.control
  <2>1. seen(Controlled(r, m.before)) <= n.control
    BY DEF Bounded, seen
  <2>2. at \in Controlled(r, m.before) => c = 1
    BY <1>2, <1>5 DEF c
  <2>3. /\ next(Controlled(r, m.before)) = seen(Controlled(r, m.before))
              + IF at \in Controlled(r, m.before) THEN 1 ELSE 0
        /\ seen(Controlled(r, m.before)) \in Nat
    BY <1>6
  <2>. QED  BY <1>1, <1>3, <1>4, <2>1, <2>2, <2>3
<1>14. more.control <= next(Controlled(r, recovered))
  <2>1. n.control <= seen(Controlled(r, recovered))
    BY DEF Bounded, seen
  <2>2. c = 1 => at \in Controlled(r, recovered)
    BY <1>2, <1>5 DEF c
  <2>. QED  BY <1>1, <1>3, <1>4, <1>6, <2>1, <2>2
<1>15. Bounded(r, more, at + 1, m, recovered)
  BY <1>8, <1>9, <1>10, <1>11, <1>12, <1>13, <1>14 DEF Bounded, next
<1>. QED  BY <1>7, <1>15 DEF more

\* Before it reads, a call has counted nothing.
LEMMA BoundedFirst ==
    ASSUME NEW r \in Requests, NEW m, NEW recovered
    PROVE  Nothing \in Tally /\ Bounded(r, Nothing, 1, m, recovered)
<1>1. ASSUME NEW set
      PROVE  /\ Cardinality(Before(Positions(r, set), 1)) = 0
             /\ Cardinality(Before(Treated(r, set), 1)) = 0
             /\ Cardinality(Before(Controlled(r, set), 1)) = 0
  BY PositionsOf, BeforeFirst
<1>. QED  BY <1>1 DEF Nothing, Tally, Bounded

-----------------------------------------------------------------------------
(* The steps.                                                              *)

LEMMA NotNone ==
    /\ \A v \in Evaluation : v # None
    /\ \A claim \in EvidenceMetricEntry : claim # None
BY EvidenceAssumption

\* What an evaluation is doing.
LEMMA EvaluationOf ==
    ASSUME Typed, NEW e \in Evaluators
    PROVE  /\ evaluation[e] = None <=> Step(e) = "none"
           /\ Step(e) # "none" =>
                 /\ evaluation[e] \in Evaluation
                 /\ Step(e) = evaluation[e].step
                 /\ Step(e) \in {"read", "log"}
                 /\ evaluation[e].request \in Requests
                 /\ evaluation[e].at \in Nat \ {0}
                 /\ evaluation[e].counted \in Tally
BY DEF Typed, Step, Evaluation

LEMMA ClaimType ==
    ASSUME NEW r \in Requests, NEW n \in Tally
    PROVE  Claim(r, n) \in EvidenceMetricEntry
<1>1. Verdict(r, n) \in Verdicts
  BY DEF Verdict, Verdicts
<1>2. ASSUME NEW a \in Nat, NEW b \in Nat
      PROVE  Lift(n, a, b) \in Int \X Int
  <2>1. n.treatment \in Nat /\ n.control \in Nat
    BY DEF Tally
  <2>2. CASE a = 0
    BY <2>2 DEF Lift
  <2>3. CASE a > 0 /\ n.control > 0
    <3>1. /\ n.treatment * b - n.control * a \in Int
          /\ n.control * b \in Int /\ n.control * a \in Int
          /\ n.treatment * a \in Int
      BY <2>1
    <3>2. n.control * n.treatment \in Int /\ n.control * a \in Int
      BY <2>1
    <3>. QED  BY <1>2, <2>3, <3>1, <3>2 DEF Lift
  <2>4. CASE a > 0 /\ ~(n.control > 0)
    BY <2>1, <2>4 DEF Lift
  <2>. QED  BY <2>2, <2>3, <2>4
<1>3. Len(r.treatment) \in Nat /\ Len(r.control) \in Nat
  BY CohortsOf
<1>. QED  BY <1>1, <1>2, <1>3 DEF Claim, EvidenceMetricEntry

LEMMA MetOf ==
    ASSUME Typed
    PROVE  /\ Confirmed \in SUBSET Cases /\ AllRecovered \in SUBSET Cases
           /\ \A e \in Evaluators :
                 /\ met[e].confirmed \in SUBSET Cases
                 /\ met[e].kept \in SUBSET Cases
                 /\ met[e].before \in SUBSET Cases
BY DEF Typed, Confirmed, AllRecovered

\* A new entry takes no case from what was recovered.
LEMMA RecordProperties ==
    ASSUME Typed, NEW c \in Cases, NEW state \in FinancialStates,
           NEW i \in 1..Len(ledger[c]) + 1, RecordEntry(c, state, i)
    PROVE  /\ ledger' \in [Cases -> Seq(FinancialStates)]
           /\ AllRecovered \subseteq AllRecovered'
<1>1. ledger[c] \in Seq(FinancialStates) /\ i \in 1..(Len(ledger[c]) + 1)
  BY DEF Typed
<1>2. /\ InsertAt(ledger[c], i, state) \in Seq(FinancialStates)
      /\ \A j \in DOMAIN ledger[c] :
            \E k \in DOMAIN InsertAt(ledger[c], i, state) :
                InsertAt(ledger[c], i, state)[k] = ledger[c][j]
  BY <1>1, InsertProperties
<1>3. ledger' = [ledger EXCEPT ![c] = InsertAt(ledger[c], i, state)]
  BY DEF RecordEntry
<1>4. ledger' \in [Cases -> Seq(FinancialStates)]
  BY <1>2, <1>3 DEF Typed
<1>5. ASSUME NEW d \in Cases, Recovered(ledger[d])
      PROVE  Recovered(ledger'[d])
  <2>1. ledger[d] \in Seq(FinancialStates) /\ ledger'[d] \in Seq(FinancialStates)
    BY <1>4 DEF Typed
  <2>2. PICK j \in DOMAIN ledger[d] : ledger[d][j] # "LOST"
    BY <1>5, <2>1, SummaryOf
  <2>3. \E k \in DOMAIN ledger'[d] : ledger'[d][k] = ledger[d][j]
    <3>1. CASE d = c
      <4>1. ledger'[d] = InsertAt(ledger[c], i, state)
        BY <1>3, <3>1 DEF Typed
      <4>. QED  BY <1>2, <3>1, <4>1
    <3>2. CASE d # c
      <4>1. ledger'[d] = ledger[d]
        BY <1>3, <3>2 DEF Typed
      <4>. QED  BY <4>1
    <3>. QED  BY <3>1, <3>2
  <2>. QED  BY <2>1, <2>2, <2>3, SummaryOf
<1>. QED  BY <1>4, <1>5 DEF AllRecovered

LEMMA InitInv == Init => IndInv
<1>. SUFFICES ASSUME Init PROVE IndInv
  OBVIOUS
<1>1. Typed
  <2>1. <<>> \in Seq(FinancialStates) /\ <<>> \in Seq(EvidenceMetricEntry)
    BY EmptySeq
  <2>2. 0 \in 0..MaxEvaluations
    BY EvidenceAssumption
  <2>. QED  BY <2>1, <2>2 DEF Init, Typed, NotMet
<1>2. \A e \in Evaluators : evaluation[e] = None /\ Step(e) = "none"
  BY DEF Init, Step
<1>3. ClaimInv /\ MetInv /\ CountInv
  BY <1>2 DEF ClaimInv, MetInv, CountInv
<1>4. LogInv
  <2>1. {e \in Evaluators : evaluation[e] # None} = {}
    BY <1>2
  <2>2. ASSUME NEW claim
        PROVE  Waiting(claim) = {} /\ Times(claim, <<>>) = 0
    <3>1. Waiting(claim) = {}
      BY <1>2 DEF Waiting
    <3>2. {i \in DOMAIN <<>> : <<>>[i] = claim} = {}
      OBVIOUS
    <3>. QED  BY <3>1, <3>2, FS_EmptySet DEF Times
  <2>3. made = <<>> /\ log = <<>>
    BY DEF Init
  <2>4. ASSUME NEW claim \in EvidenceMetricEntry
        PROVE  Times(claim, made)
                  = Times(claim, log) + Cardinality(Waiting(claim))
    <3>1. Times(claim, made) = 0 /\ Times(claim, log) = 0
      BY <2>2, <2>3
    <3>2. Cardinality(Waiting(claim)) = 0
      BY <2>2, FS_EmptySet
    <3>. QED  BY <3>1, <3>2
  <2>. QED  BY <2>1, <2>4, FS_EmptySet DEF LogInv
<1>. QED  BY <1>1, <1>3, <1>4 DEF IndInv

\* A step of one evaluator leaves what is said of the others; a step that
\* leaves an evaluation as it is leaves what was counted.
LEMMA BeginStep ==
    ASSUME IndInv, NEW e \in Evaluators, NEW r \in Requests, Begin(e, r)
    PROVE  IndInv'
<1>. DEFINE v == [step |-> "read", request |-> r, at |-> 1,
                  counted |-> Nothing, claim |-> None]
            m == [confirmed |-> Confirmed, kept |-> Confirmed,
                  before |-> AllRecovered]
<1>. USE DEF IndInv
<1>1. v \in Evaluation /\ v # None
  BY BoundedFirst, NotNone DEF Evaluation
<1>2. /\ evaluation[e] = None
      /\ evaluation' = [evaluation EXCEPT ![e] = v]
      /\ met' = [met EXCEPT ![e] = m]
      /\ UNCHANGED <<ledger, registry, log, made>>
      /\ begun < MaxEvaluations /\ begun' = begun + 1
  BY DEF Begin
<1>3. Confirmed' = Confirmed /\ AllRecovered' = AllRecovered
  BY <1>2 DEF Confirmed, AllRecovered
<1>4. Typed'
  <2>1. m \in [confirmed : SUBSET Cases, kept : SUBSET Cases,
               before : SUBSET Cases]
    BY MetOf
  <2>2. begun' \in 0..MaxEvaluations
    BY <1>2, EvidenceAssumption DEF Typed
  <2>. HIDE DEF v, m
  <2>. QED  BY <1>1, <1>2, <2>1, <2>2 DEF Typed
<1>5. /\ evaluation'[e] = v /\ met'[e] = m /\ Step(e)' = "read"
      /\ Step(e) = "none"
      /\ \A f \in Evaluators \ {e} : /\ evaluation'[f] = evaluation[f]
                                     /\ met'[f] = met[f]
                                     /\ Step(f)' = Step(f)
  BY <1>1, <1>2 DEF Typed, Step
<1>6. ClaimInv'
  <2>1. 1 <= Len(Cohorts(r)) + 1
    BY CohortsOf
  <2>. QED  BY <1>5, <2>1 DEF ClaimInv
<1>7. MetInv'
  BY <1>3, <1>5 DEF MetInv
<1>8. CountInv'
  <2>1. Bounded(r, Nothing, 1, m, AllRecovered)
    BY BoundedFirst
  <2>. HIDE DEF m
  <2>. QED  BY <1>3, <1>5, <2>1 DEF CountInv
<1>9. LogInv'
  <2>. HIDE DEF v, m
  <2>1. {f \in Evaluators : evaluation'[f] # None}
           = {f \in Evaluators : evaluation[f] # None} \cup {e}
    BY <1>1, <1>5
  <2>2. IsFiniteSet({f \in Evaluators : evaluation'[f] # None})
    BY <2>1, FS_AddElement DEF LogInv
  <2>3. ASSUME NEW claim PROVE Waiting(claim)' = Waiting(claim)
    BY <1>5 DEF Waiting
  <2>. QED  BY <1>2, <2>2, <2>3 DEF LogInv
<1>. QED  BY <1>4, <1>6, <1>7, <1>8, <1>9

LEMMA ReadStep ==
    ASSUME IndInv, NEW e \in Evaluators, ReadCase(e)
    PROVE  IndInv'
<1>. DEFINE v == evaluation[e]
            r == v.request
            c == Cohorts(r)[v.at]
            n == Count(v.counted, ledger[c], v.at <= Len(r.treatment))
            w == [v EXCEPT !.counted = n, !.at = @ + 1]
<1>. USE DEF IndInv
<1>1. /\ Step(e) = "read" /\ v \in Evaluation /\ v # None
      /\ r \in Requests /\ v.at \in Nat \ {0} /\ v.counted \in Tally
      /\ v.at <= Len(Cohorts(r))
  BY EvaluationOf DEF ReadCase
<1>2. evaluation' = [evaluation EXCEPT ![e] = w]
      /\ UNCHANGED <<ledger, registry, log, made, begun, met>>
  BY DEF ReadCase
<1>3. Confirmed' = Confirmed /\ AllRecovered' = AllRecovered
  BY <1>2 DEF Confirmed, AllRecovered
<1>4. c \in Cases /\ ledger[c] \in Seq(FinancialStates)
  <2>1. Cohorts(r) \in Seq(Cases) /\ Len(Cohorts(r)) \in Nat
    BY <1>1, CohortsOf
  <2>2. v.at \in 1..Len(Cohorts(r))
    BY <1>1, <2>1
  <2>3. c \in Cases
    <3>. DEFINE s == Cohorts(r)
                i == v.at
    <3>1. s \in Seq(Cases) /\ i \in 1..Len(s)
      BY <2>1, <2>2
    <3>. HIDE DEF s, i
    <3>2. s[i] \in Cases
      BY <3>1, ElementOfSeq
    <3>. QED  BY <3>2 DEF s, i
  <2>. QED  BY <2>3 DEF Typed
<1>5. n \in Tally /\ Bounded(r, n, v.at + 1, met[e], AllRecovered)
  <2>1. Bounded(r, v.counted, v.at, met[e], AllRecovered)
    BY <1>1 DEF CountInv
  <2>2. /\ Confirmed \subseteq met[e].confirmed
        /\ met[e].kept \subseteq Confirmed
        /\ met[e].before \subseteq AllRecovered
    BY <1>1 DEF MetInv
  <2>3. /\ c \in Confirmed <=> Net(ledger[c]) > 0
        /\ c \in AllRecovered <=> Recovered(ledger[c])
    BY <1>4 DEF Confirmed, AllRecovered
  <2>4. /\ Net(ledger[c]) > 0 => c \in met[e].confirmed
        /\ c \in met[e].kept => Net(ledger[c]) > 0
        /\ c \in met[e].before => Recovered(ledger[c])
        /\ Recovered(ledger[c]) => c \in AllRecovered
    BY <2>2, <2>3
  <2>. QED  BY <1>1, <1>4, <2>1, <2>4, BoundedNext
<1>. HIDE DEF n
<1>6. /\ w \in Evaluation /\ w # None
      /\ w.step = v.step /\ w.request = r /\ w.at = v.at + 1 /\ w.counted = n
      /\ w.claim = v.claim
  <2>1. n \in Tally /\ v.at + 1 \in Nat \ {0}
    BY <1>1, <1>5
  <2>. DEFINE k == v.at + 1
  <2>2. w = [v EXCEPT !.counted = n, !.at = k]
    BY <1>1 DEF Evaluation
  <2>3. k \in Nat \ {0} /\ v \in Evaluation
    BY <1>1, <2>1
  <2>. HIDE DEF k, v, w
  <2>4. w = [step |-> v.step, request |-> v.request, at |-> k,
             counted |-> n, claim |-> v.claim]
    BY <2>2, <2>3 DEF Evaluation
  <2>5. w \in Evaluation
    BY <2>1, <2>3, <2>4 DEF Evaluation
  <2>. QED  BY <2>4, <2>5, NotNone DEF k
<1>. HIDE DEF w
<1>7. /\ evaluation'[e] = w /\ Step(e)' = "read"
      /\ \A f \in Evaluators \ {e} : /\ evaluation'[f] = evaluation[f]
                                     /\ Step(f)' = Step(f)
  BY <1>1, <1>2, <1>6 DEF Typed, Step
<1>8. Typed'
  BY <1>2, <1>6 DEF Typed
<1>9. ClaimInv'
  <2>1. w.at <= Len(Cohorts(r)) + 1
    BY <1>1, <1>6, CohortsOf
  <2>. QED  BY <1>6, <1>7, <2>1 DEF ClaimInv
<1>10. MetInv'
  BY <1>1, <1>2, <1>3, <1>7 DEF MetInv
<1>11. CountInv'
  <2>1. Bounded(w.request, w.counted, w.at, met[e], AllRecovered)
    BY <1>5, <1>6
  <2>. QED  BY <1>2, <1>3, <1>7, <2>1 DEF CountInv
<1>12. LogInv'
  <2>1. {f \in Evaluators : evaluation'[f] # None}
           = {f \in Evaluators : evaluation[f] # None}
    BY <1>1, <1>6, <1>7
  <2>2. ASSUME NEW claim PROVE Waiting(claim)' = Waiting(claim)
    BY <1>1, <1>7 DEF Waiting
  <2>. QED  BY <1>2, <2>1, <2>2 DEF LogInv
<1>. QED  BY <1>8, <1>9, <1>10, <1>11, <1>12

\* The evaluators that wait to log a claim are some of those at work.
LEMMA WaitingFinite ==
    ASSUME LogInv, Typed, NEW claim
    PROVE  IsFiniteSet(Waiting(claim)) /\ Cardinality(Waiting(claim)) \in Nat
<1>1. Waiting(claim) \in SUBSET {e \in Evaluators : evaluation[e] # None}
  BY EvaluationOf DEF Waiting
<1>. QED  BY <1>1, FS_Subset, FS_CardinalityType DEF LogInv

LEMMA RegisterStep ==
    ASSUME IndInv, NEW e \in Evaluators, Register(e)
    PROVE  IndInv'
<1>. DEFINE v == evaluation[e]
            r == v.request
            new == Claim(r, v.counted)
            w == [v EXCEPT !.step = "log", !.claim = new]
<1>. USE DEF IndInv
<1>1. /\ Step(e) = "read" /\ v \in Evaluation /\ v # None
      /\ r \in Requests /\ v.at \in Nat \ {0} /\ v.counted \in Tally
      /\ v.at > Len(Cohorts(r)) /\ v.at <= Len(Cohorts(r)) + 1
  BY EvaluationOf DEF Register, ClaimInv
<1>2. new \in EvidenceMetricEntry /\ new.request = r
  BY <1>1, ClaimType DEF Claim
<1>3. /\ evaluation' = [evaluation EXCEPT ![e] = w]
      /\ registry' = [registry EXCEPT ![r.metric] = new]
      /\ made' = Append(made, new)
      /\ UNCHANGED <<ledger, log, begun, met>>
  BY DEF Register
<1>. HIDE DEF new
<1>4. Confirmed' = Confirmed /\ AllRecovered' = AllRecovered
  BY <1>3 DEF Confirmed, AllRecovered
<1>5. /\ w \in Evaluation /\ w # None
      /\ w.step = "log" /\ w.request = r /\ w.at = v.at
      /\ w.counted = v.counted /\ w.claim = new
  <2>1. w \in Evaluation
    BY <1>1, <1>2 DEF Evaluation
  <2>. QED  BY <1>1, <2>1, NotNone DEF Evaluation
<1>. HIDE DEF w
<1>6. /\ evaluation'[e] = w /\ Step(e)' = "log"
      /\ \A f \in Evaluators \ {e} : /\ evaluation'[f] = evaluation[f]
                                     /\ Step(f)' = Step(f)
  BY <1>1, <1>3, <1>5 DEF Typed, Step
<1>7. Typed'
  <2>1. r.metric \in Metrics
    BY <1>1 DEF Metrics
  <2>2. made' \in Seq(EvidenceMetricEntry)
    BY <1>2, <1>3, AppendProperties DEF Typed
  <2>3. /\ registry' \in [Metrics -> EvidenceMetricEntry \cup {None}]
        /\ \A m \in Metrics :
              registry'[m] # None => registry'[m].request.metric = m
    BY <1>2, <1>3, <2>1 DEF Typed
  <2>. QED  BY <1>3, <1>5, <2>2, <2>3 DEF Typed
<1>8. ClaimInv'
  <2>1. v.at = Len(Cohorts(r)) + 1
    BY <1>1, CohortsOf
  <2>. QED  BY <1>1, <1>5, <1>6, <2>1 DEF ClaimInv, new
<1>9. MetInv'
  BY <1>1, <1>3, <1>4, <1>6 DEF MetInv
<1>10. CountInv'
  BY <1>1, <1>3, <1>4, <1>5, <1>6 DEF CountInv
<1>11. LogInv'
  <2>1. {f \in Evaluators : evaluation'[f] # None}
           = {f \in Evaluators : evaluation[f] # None}
    BY <1>1, <1>5, <1>6
  <2>2. ASSUME NEW claim \in EvidenceMetricEntry
        PROVE  Times(claim, made')
                  = Times(claim, log) + Cardinality(Waiting(claim)')
    <3>1. /\ Times(claim, made) \in Nat
          /\ Times(claim, made')
                = Times(claim, made) + IF new = claim THEN 1 ELSE 0
      BY <1>2, <1>3, TimesAppend DEF Typed
    <3>2. /\ Times(claim, made)
                = Times(claim, log) + Cardinality(Waiting(claim))
          /\ IsFiniteSet(Waiting(claim))
          /\ Cardinality(Waiting(claim)) \in Nat
      BY WaitingFinite DEF LogInv
    <3>3. Times(claim, log) \in Nat
      BY <1>2, TimesAppend DEF Typed
    <3>4. e \notin Waiting(claim)
      BY <1>1 DEF Waiting
    <3>5. CASE new = claim
      <4>1. Waiting(claim)' = Waiting(claim) \cup {e}
        BY <1>5, <1>6, <3>5 DEF Waiting
      <4>2. Cardinality(Waiting(claim)') = Cardinality(Waiting(claim)) + 1
        BY <3>2, <3>4, <4>1, FS_AddElement
      <4>. QED  BY <3>1, <3>2, <3>3, <3>5, <4>2
    <3>6. CASE new # claim
      <4>1. Waiting(claim)' = Waiting(claim)
        BY <1>1, <1>5, <1>6, <3>6 DEF Waiting
      <4>. QED  BY <3>1, <3>2, <3>3, <3>6, <4>1
    <3>. QED  BY <3>5, <3>6
  <2>. QED  BY <1>3, <2>1, <2>2 DEF LogInv
<1>. QED  BY <1>7, <1>8, <1>9, <1>10, <1>11

LEMMA AuditStep ==
    ASSUME IndInv, NEW e \in Evaluators, AuditClaim(e)
    PROVE  IndInv'
<1>. DEFINE v == evaluation[e]
            new == v.claim
<1>. USE DEF IndInv
<1>1. /\ Step(e) = "log" /\ v \in Evaluation /\ v # None
      /\ v.request \in Requests /\ v.counted \in Tally
  BY EvaluationOf DEF AuditClaim
<1>2. new \in EvidenceMetricEntry
  BY <1>1, ClaimType DEF ClaimInv
<1>3. /\ log' = Append(log, new)
      /\ evaluation' = [evaluation EXCEPT ![e] = None]
      /\ met' = [met EXCEPT ![e] = NotMet]
      /\ UNCHANGED <<ledger, registry, made, begun>>
  BY DEF AuditClaim, Logged
<1>4. Confirmed' = Confirmed /\ AllRecovered' = AllRecovered
  BY <1>3 DEF Confirmed, AllRecovered
<1>5. /\ evaluation'[e] = None /\ Step(e)' = "none"
      /\ \A f \in Evaluators \ {e} : /\ evaluation'[f] = evaluation[f]
                                     /\ met'[f] = met[f]
                                     /\ Step(f)' = Step(f)
  BY <1>3 DEF Typed, Step
<1>6. Typed'
  <2>1. log' \in Seq(EvidenceMetricEntry)
    BY <1>2, <1>3, AppendProperties DEF Typed
  <2>. QED  BY <1>3, <2>1 DEF Typed, NotMet
<1>7. ClaimInv' /\ MetInv' /\ CountInv'
  BY <1>4, <1>5 DEF ClaimInv, MetInv, CountInv
<1>8. LogInv'
  <2>1. IsFiniteSet({f \in Evaluators : evaluation'[f] # None})
    <3>1. {f \in Evaluators : evaluation'[f] # None}
             \in SUBSET {f \in Evaluators : evaluation[f] # None}
      BY <1>5
    <3>. QED  BY <3>1, FS_Subset DEF LogInv
  <2>2. ASSUME NEW claim \in EvidenceMetricEntry
        PROVE  Times(claim, made)
                  = Times(claim, log') + Cardinality(Waiting(claim)')
    <3>1. /\ Times(claim, log) \in Nat
          /\ Times(claim, log')
                = Times(claim, log) + IF new = claim THEN 1 ELSE 0
      BY <1>2, <1>3, TimesAppend DEF Typed
    <3>2. /\ Times(claim, made)
                = Times(claim, log) + Cardinality(Waiting(claim))
          /\ IsFiniteSet(Waiting(claim))
          /\ Cardinality(Waiting(claim)) \in Nat
      BY WaitingFinite DEF LogInv
    <3>3. CASE new = claim
      <4>1. e \in Waiting(claim) /\ Waiting(claim)' = Waiting(claim) \ {e}
        BY <1>1, <1>5, <3>3 DEF Waiting
      <4>2. Cardinality(Waiting(claim)') = Cardinality(Waiting(claim)) - 1
        BY <3>2, <4>1, FS_RemoveElement
      <4>. QED  BY <3>1, <3>2, <3>3, <4>2
    <3>4. CASE new # claim
      <4>1. Waiting(claim)' = Waiting(claim)
        BY <1>1, <1>5, <3>4 DEF Waiting
      <4>. QED  BY <3>1, <3>2, <3>4, <4>1
    <3>. QED  BY <3>3, <3>4
  <2>. QED  BY <1>3, <2>1, <2>2 DEF LogInv
<1>. QED  BY <1>6, <1>7, <1>8

LEMMA RecordStep ==
    ASSUME IndInv, NEW c \in Cases, NEW state \in FinancialStates,
           NEW i \in 1..Len(ledger[c]) + 1, RecordEntry(c, state, i)
    PROVE  IndInv'
<1>. USE DEF IndInv
<1>1. UNCHANGED <<evaluation, registry, log, made, begun>>
      /\ \A e \in Evaluators : Step(e)' = Step(e)
  BY DEF RecordEntry, Step
<1>2. /\ ledger' \in [Cases -> Seq(FinancialStates)]
      /\ AllRecovered \subseteq AllRecovered'
  BY RecordProperties
<1>3. Confirmed' \in SUBSET Cases
  BY DEF Confirmed
<1>4. ASSUME NEW e \in Evaluators
      PROVE  /\ met'[e].confirmed = IF Step(e) = "read"
                                    THEN met[e].confirmed \cup Confirmed'
                                    ELSE met[e].confirmed
             /\ met'[e].kept = IF Step(e) = "read"
                               THEN met[e].kept \cap Confirmed'
                               ELSE met[e].kept
             /\ met'[e].before = met[e].before
             /\ met'[e] \in [confirmed : SUBSET Cases, kept : SUBSET Cases,
                             before : SUBSET Cases]
  <2>1. met[e] \in [confirmed : SUBSET Cases, kept : SUBSET Cases,
                    before : SUBSET Cases]
    BY DEF Typed
  <2>2. met'[e] = IF Step(e) = "read"
                  THEN [met[e] EXCEPT !.confirmed = @ \cup Confirmed',
                                      !.kept = @ \cap Confirmed']
                  ELSE met[e]
    BY DEF RecordEntry
  <2>3. CASE Step(e) = "read"
    BY <1>3, <2>1, <2>2, <2>3
  <2>4. CASE Step(e) # "read"
    BY <2>1, <2>2, <2>4
  <2>. QED  BY <2>3, <2>4
<1>5. Typed'
  <2>1. met' = [e \in Evaluators |-> met'[e]]
    BY DEF RecordEntry
  <2>2. met' \in [Evaluators -> [confirmed : SUBSET Cases,
                                 kept : SUBSET Cases,
                                 before : SUBSET Cases]]
    BY <1>4, <2>1
  <2>. QED  BY <1>1, <1>2, <2>2 DEF Typed
<1>6. ClaimInv'
  BY <1>1 DEF ClaimInv
<1>7. MetInv'
  BY <1>1, <1>2, <1>4 DEF MetInv
<1>8. CountInv'
  <2>1. ASSUME NEW e \in Evaluators, evaluation[e] # None
        PROVE  Bounded(evaluation[e].request, evaluation[e].counted,
                       evaluation[e].at, met'[e], AllRecovered')
    <3>1. /\ evaluation[e].request \in Requests
          /\ evaluation[e].counted \in Tally
          /\ evaluation[e].at \in Nat
      BY <2>1, EvaluationOf
    <3>2. Bounded(evaluation[e].request, evaluation[e].counted,
                  evaluation[e].at, met[e], AllRecovered)
      BY <2>1 DEF CountInv
    <3>3. /\ met[e].confirmed \subseteq met'[e].confirmed
          /\ met'[e].kept \subseteq met[e].kept
          /\ met'[e].before = met[e].before
      BY <1>4
    <3>. QED  BY <1>2, <3>1, <3>2, <3>3, BoundedGrows
  <2>. QED  BY <1>1, <2>1 DEF CountInv
<1>9. LogInv'
  <2>1. ASSUME NEW claim PROVE Waiting(claim)' = Waiting(claim)
    BY <1>1 DEF Waiting
  <2>. QED  BY <1>1, <2>1 DEF LogInv
<1>. QED  BY <1>5, <1>6, <1>7, <1>8, <1>9

LEMMA Inductive == Spec => []IndInv
<1>1. IndInv /\ [Next]_vars => IndInv'
  <2>. SUFFICES ASSUME IndInv, [Next]_vars PROVE IndInv'
    OBVIOUS
  <2>1. CASE UNCHANGED vars
    BY <2>1 DEF vars, IndInv, Typed, ClaimInv, MetInv, CountInv, LogInv, Step,
                Confirmed, AllRecovered, Waiting
  <2>. QED
    BY <2>1, BeginStep, ReadStep, RegisterStep, AuditStep, RecordStep
       DEF Next
<1>. QED  BY <1>1, InitInv, PTL DEF Spec

-----------------------------------------------------------------------------
(* What a claim holds.                                                     *)

\* A count before a position is bounded by its cohort.
LEMMA SeenAtMost ==
    ASSUME NEW r \in Requests, NEW set, NEW at \in Nat
    PROVE  /\ Cardinality(Before(Positions(r, set), at)) <= Len(Cohorts(r))
           /\ Cardinality(Before(Treated(r, set), at)) <= Len(r.treatment)
           /\ Cardinality(Before(Controlled(r, set), at)) <= Len(r.control)
<1>. DEFINE k == Len(r.treatment)
            l == Len(r.control)
            n == Len(Cohorts(r))
<1>1. k \in Nat /\ l \in Nat /\ n \in Nat /\ n = k + l
  BY CohortsOf
<1>2. /\ Before(Positions(r, set), at) \in SUBSET (1..n)
      /\ Before(Treated(r, set), at) \in SUBSET (1..k)
      /\ Before(Controlled(r, set), at) \in SUBSET ((k + 1)..n)
  <2>1. \A i \in Positions(r, set) : i \in 1..n
    BY DEF Positions
  <2>2. \A i \in Treated(r, set) : i \in 1..n /\ i <= k
    BY <2>1 DEF Treated
  <2>3. \A i \in Controlled(r, set) : i \in 1..n /\ i > k
    BY <2>1 DEF Controlled
  <2>. HIDE DEF n, k, l
  <2>4. \A i \in Treated(r, set) : i \in 1..k
    BY <1>1, <2>2
  <2>5. \A i \in Controlled(r, set) : i \in (k + 1)..n
    BY <1>1, <2>3
  <2>. QED  BY <2>1, <2>4, <2>5 DEF Before
<1>. HIDE DEF n, k, l
<1>3. /\ IsFiniteSet(1..n) /\ Cardinality(1..n) = n
      /\ IsFiniteSet(1..k) /\ Cardinality(1..k) = k
      /\ IsFiniteSet((k + 1)..n) /\ Cardinality((k + 1)..n) = l
  <2>1. /\ IsFiniteSet(1..n)
        /\ Cardinality(1..n) = IF 1 > n THEN 0 ELSE n - 1 + 1
    BY <1>1, FS_Interval
  <2>2. /\ IsFiniteSet(1..k)
        /\ Cardinality(1..k) = IF 1 > k THEN 0 ELSE k - 1 + 1
    BY <1>1, FS_Interval
  <2>3. /\ IsFiniteSet((k + 1)..n)
        /\ Cardinality((k + 1)..n)
              = IF k + 1 > n THEN 0 ELSE n - (k + 1) + 1
    <3>1. k + 1 \in Int /\ n \in Int
      BY <1>1
    <3>. QED  BY <3>1, FS_Interval
  <2>. QED  BY <1>1, <2>1, <2>2, <2>3
<1>4. /\ Cardinality(Before(Positions(r, set), at)) <= Cardinality(1..n)
      /\ Cardinality(Before(Treated(r, set), at)) <= Cardinality(1..k)
      /\ Cardinality(Before(Controlled(r, set), at))
            <= Cardinality((k + 1)..n)
  BY <1>2, <1>3, FS_Subset
<1>. QED  BY <1>3, <1>4 DEF n, k, l

LEMMA CountsBounded ==
    ASSUME NEW r \in Requests, NEW n \in Tally, NEW at \in Nat,
           at <= Len(Cohorts(r)) + 1, NEW m, NEW recovered,
           Bounded(r, n, at, m, recovered)
    PROVE  n \in Counts(r)
<1>. DEFINE p == Cardinality(Before(Positions(r, m.confirmed), at))
            t == Cardinality(Before(Treated(r, recovered), at))
            c == Cardinality(Before(Controlled(r, recovered), at))
            len == Len(Cohorts(r))
            a == Len(r.treatment)
            b == Len(r.control)
<1>1. /\ n.gross < at /\ n.confirmed <= p
      /\ n.treatment <= t /\ n.control <= c
  BY DEF Bounded
<1>2. p <= len /\ t <= a /\ c <= b
  BY SeenAtMost
<1>3. p \in Nat /\ t \in Nat /\ c \in Nat
  BY SeenType
<1>4. /\ len \in Nat /\ a \in Nat /\ b \in Nat /\ at <= len + 1
  BY CohortsOf
<1>5. n = [gross |-> n.gross, confirmed |-> n.confirmed,
           treatment |-> n.treatment, control |-> n.control]
      /\ n.gross \in Nat /\ n.confirmed \in Nat
      /\ n.treatment \in Nat /\ n.control \in Nat
  BY DEF Tally
<1>. HIDE DEF p, t, c, len, a, b
<1>6. n.gross \in 0..len /\ n.confirmed \in 0..len
  BY <1>1, <1>2, <1>3, <1>4, <1>5
<1>7. n.treatment \in 0..a /\ n.control \in 0..b
  BY <1>1, <1>2, <1>3, <1>4, <1>5
<1>. QED  BY <1>5, <1>6, <1>7 DEF Counts, len, a, b

\* The cases of the cohorts that are in a set are as many as their positions.
LEMMA CohortCounts ==
    ASSUME NEW r \in Requests, NEW set
    PROVE  /\ In(Cohorts(r), set) = Cardinality(Positions(r, set))
           /\ In(r.treatment, set) = Cardinality(Treated(r, set))
           /\ In(r.control, set) = Cardinality(Controlled(r, set))
<1>. DEFINE c == Cohorts(r)
            k == Len(r.treatment)
            l == Len(r.control)
<1>1. /\ c \in Seq(Cases) /\ IsInjective(c)
      /\ DOMAIN c = 1..Len(c) /\ Len(c) \in Nat /\ Len(c) = k + l
      /\ k \in Nat /\ l \in Nat
      /\ DOMAIN r.treatment = 1..k /\ DOMAIN r.control = 1..l
      /\ \A i \in 1..k : c[i] = r.treatment[i]
      /\ \A i \in 1..l : c[k + i] = r.control[i]
  BY CohortsOf, LenProperties
<1>2. /\ Positions(r, set) = {i \in DOMAIN c : c[i] \in set}
      /\ Treated(r, set) = {i \in DOMAIN c : c[i] \in set /\ i <= k}
      /\ Controlled(r, set) = {i \in DOMAIN c : c[i] \in set /\ i > k}
  BY <1>1 DEF Positions, Treated, Controlled
<1>. HIDE DEF c, k, l
<1>3. In(c, set) = Cardinality(Positions(r, set))
  <2>. DEFINE S == Positions(r, set)
              T == ToSet(c) \cap set
  <2>1. /\ S \subseteq DOMAIN c /\ \A i \in S : c[i] \in T
        /\ \A x \in T : \E i \in S : c[i] = x
    BY <1>2 DEF ToSet
  <2>. HIDE DEF S, T
  <2>2. Cardinality(T) = Cardinality(S)
    BY <1>1, <2>1, AsManyPositions
  <2>. QED  BY <2>2 DEF In, S, T
<1>4. In(r.treatment, set) = Cardinality(Treated(r, set))
  <2>. DEFINE S == Treated(r, set)
              T == ToSet(r.treatment) \cap set
  <2>1. \A i \in S : i \in DOMAIN c /\ c[i] \in set /\ i \in 1..k
    BY <1>1, <1>2
  <2>2. \A i \in 1..k : i \in DOMAIN c /\ i <= k
    BY <1>1
  <2>3. \A i \in S : c[i] \in T
    BY <1>1, <2>1 DEF ToSet
  <2>4. \A x \in T : \E i \in S : c[i] = x
    BY <1>1, <1>2, <2>2 DEF ToSet
  <2>. HIDE DEF S, T
  <2>5. Cardinality(T) = Cardinality(S)
    BY <1>1, <2>1, <2>3, <2>4, AsManyPositions
  <2>. QED  BY <2>5 DEF In, S, T
<1>5. In(r.control, set) = Cardinality(Controlled(r, set))
  <2>. DEFINE S == Controlled(r, set)
              T == ToSet(r.control) \cap set
  <2>1. \A i \in S : i \in DOMAIN c /\ c[i] \in set /\ i > k
    BY <1>2
  <2>2. ASSUME NEW j \in 1..l
        PROVE  k + j \in DOMAIN c /\ k + j > k /\ c[k + j] = r.control[j]
    BY <1>1
  <2>3. ASSUME NEW i \in S PROVE c[i] \in T
    <3>. DEFINE j == i - k
    <3>1. j \in 1..l /\ k + j = i
      BY <1>1, <2>1
    <3>. HIDE DEF j
    <3>2. c[i] = r.control[j]
      BY <2>2, <3>1
    <3>. QED  BY <1>1, <2>1, <3>1, <3>2 DEF ToSet
  <2>4. ASSUME NEW x \in T PROVE \E i \in S : c[i] = x
    <3>1. PICK j \in 1..l : r.control[j] = x
      BY <1>1 DEF ToSet
    <3>2. x \in set
      OBVIOUS
    <3>3. k + j \in S /\ c[k + j] = x
      BY <1>2, <2>2, <3>1, <3>2
    <3>. QED  BY <3>3
  <2>. HIDE DEF S, T
  <2>5. Cardinality(T) = Cardinality(S)
    BY <1>1, <2>1, <2>3, <2>4, AsManyPositions
  <2>. QED  BY <2>5 DEF In, S, T
<1>. QED  BY <1>3, <1>4, <1>5 DEF c

\* When all cases are read, the positions before the next are all.
LEMMA AllSeen ==
    ASSUME NEW r \in Requests, NEW set, NEW at, at = Len(Cohorts(r)) + 1
    PROVE  /\ Before(Positions(r, set), at) = Positions(r, set)
           /\ Before(Treated(r, set), at) = Treated(r, set)
           /\ Before(Controlled(r, set), at) = Controlled(r, set)
<1>1. Len(Cohorts(r)) \in Nat
  BY CohortsOf
<1>2. \A i \in Positions(r, set) : i < at
  BY <1>1 DEF Positions
<1>. QED  BY <1>2 DEF Before, Treated, Controlled

-----------------------------------------------------------------------------
(* The theorems.                                                           *)

\* Whatever is recorded while evaluations read, no evaluation counts more
\* cases than its cohorts have, so that no recovery rate is over one.
THEOREM TypeCorrect == Spec => []TypeOK
<1>1. IndInv => TypeOK
  <2>. SUFFICES ASSUME IndInv PROVE TypeOK
    OBVIOUS
  <2>1. ASSUME NEW e \in Evaluators, evaluation[e] # None
        PROVE  /\ evaluation[e].at <= Len(Cohorts(evaluation[e].request)) + 1
               /\ evaluation[e].counted \in Counts(evaluation[e].request)
    <3>1. /\ evaluation[e].request \in Requests
          /\ evaluation[e].counted \in Tally
          /\ evaluation[e].at \in Nat
      BY <2>1, EvaluationOf DEF IndInv
    <3>2. /\ evaluation[e].at <= Len(Cohorts(evaluation[e].request)) + 1
          /\ Bounded(evaluation[e].request, evaluation[e].counted,
                     evaluation[e].at, met[e], AllRecovered)
      BY <2>1 DEF IndInv, ClaimInv, CountInv
    <3>. QED  BY <3>1, <3>2, CountsBounded
  <2>. QED  BY <2>1 DEF TypeOK, IndInv, Typed
<1>. QED  BY <1>1, Inductive, PTL

\* However payments, settlements and losses fall between the reads of an
\* evaluation, its claim has no more confirmed revenue than cases of its
\* cohorts were confirmed meanwhile and no less than were confirmed all the
\* time, and its recoveries lie between those before it began and all of them.
THEOREM ClaimsBounded == Spec => []ClaimWithinWindow
<1>1. IndInv => ClaimWithinWindow
  <2>. SUFFICES ASSUME IndInv, NEW e \in Evaluators, Step(e) = "log"
                PROVE  LET r == evaluation[e].request
                           n == evaluation[e].claim.counted
                       IN  /\ n.confirmed <= In(Cohorts(r), met[e].confirmed)
                           /\ n.confirmed >= In(Cohorts(r), met[e].kept)
                           /\ n.treatment >= In(r.treatment, met[e].before)
                           /\ n.control >= In(r.control, met[e].before)
                           /\ n.treatment <= In(r.treatment, AllRecovered)
                           /\ n.control <= In(r.control, AllRecovered)
    BY DEF ClaimWithinWindow
  <2>. DEFINE r == evaluation[e].request
              at == evaluation[e].at
              n == evaluation[e].claim.counted
  <2>1. /\ r \in Requests /\ evaluation[e] # None
        /\ at = Len(Cohorts(r)) + 1
        /\ evaluation[e].claim = Claim(r, evaluation[e].counted)
    BY EvaluationOf DEF IndInv, ClaimInv
  <2>2. n = evaluation[e].counted
    BY <2>1 DEF Claim
  <2>3. Bounded(r, n, at, met[e], AllRecovered)
    BY <2>1, <2>2 DEF IndInv, CountInv
  <2>4. n.confirmed \in Nat /\ n.treatment \in Nat /\ n.control \in Nat
    BY <2>2, EvaluationOf DEF IndInv, Tally
  <2>. HIDE DEF r, at, n
  <2>5. /\ n.confirmed <= In(Cohorts(r), met[e].confirmed)
        /\ In(Cohorts(r), met[e].kept) <= n.confirmed
        /\ In(r.treatment, met[e].before) <= n.treatment
        /\ n.treatment <= In(r.treatment, AllRecovered)
        /\ In(r.control, met[e].before) <= n.control
        /\ n.control <= In(r.control, AllRecovered)
    BY <2>1, <2>3, AllSeen, CohortCounts DEF Bounded
  <2>6. /\ In(Cohorts(r), met[e].kept) \in Nat
        /\ In(r.treatment, met[e].before) \in Nat
        /\ In(r.control, met[e].before) \in Nat
    <3>1. at \in Nat
      BY <2>1, CohortsOf
    <3>2. /\ Cardinality(Before(Positions(r, met[e].kept), at)) \in Nat
          /\ Cardinality(Before(Treated(r, met[e].before), at)) \in Nat
          /\ Cardinality(Before(Controlled(r, met[e].before), at)) \in Nat
      BY <2>1, <3>1, SeenType
    <3>. QED  BY <2>1, <3>2, AllSeen, CohortCounts
  <2>7. /\ n.confirmed >= In(Cohorts(r), met[e].kept)
        /\ n.treatment >= In(r.treatment, met[e].before)
        /\ n.control >= In(r.control, met[e].before)
    BY <2>4, <2>5, <2>6
  <2>. QED  BY <2>5, <2>7 DEF r, n
<1>. QED  BY <1>1, Inductive, PTL

\* A claim that says that anything was recovered is never approved on payments
\* alone: some case of its cohorts was confirmed as settled while the claim was
\* made.
THEOREM GrossNotApproved == Spec => []GrossAloneNotApproved
<1>1. IndInv => GrossAloneNotApproved
  <2>. SUFFICES ASSUME IndInv, NEW e \in Evaluators, Step(e) = "log",
                       evaluation[e].claim.verdict[1] = "APPROVED"
                PROVE  LET claim == evaluation[e].claim
                           n == claim.counted
                       IN  \/ n.treatment = 0 /\ n.control = 0
                           \/ met[e].confirmed
                                 \cap ToSet(Cohorts(claim.request)) # {}
    BY DEF GrossAloneNotApproved
  <2>. DEFINE r == evaluation[e].request
              at == evaluation[e].at
              n == evaluation[e].counted
  <2>1. /\ r \in Requests /\ evaluation[e] # None /\ at \in Nat
        /\ n \in Tally /\ evaluation[e].claim = Claim(r, n)
        /\ Bounded(r, n, at, met[e], AllRecovered)
    BY EvaluationOf DEF IndInv, ClaimInv, CountInv
  <2>2. /\ evaluation[e].claim.counted = n
        /\ evaluation[e].claim.request = r
        /\ Verdict(r, n)[1] = "APPROVED"
    BY <2>1 DEF Claim
  <2>. HIDE DEF r, at, n
  <2>3. ~Unsettled(n)
    BY <2>2 DEF Verdict
  <2>. DEFINE g == n.gross
              c == n.confirmed
              t == n.treatment
              u == n.control
              S == Before(Positions(r, met[e].confirmed), at)
  <2>4. /\ g \in Nat /\ c \in Nat /\ t \in Nat /\ u \in Nat
        /\ t + u <= g /\ c <= Cardinality(S)
        /\ Cardinality(S) \in Nat
    BY <2>1, SeenType DEF Bounded, Tally
  <2>5. ~(g > 0 /\ c = 0)
    BY <2>3 DEF Unsettled
  <2>. HIDE DEF g, c, t, u, S
  <2>6. (t = 0 /\ u = 0) \/ Cardinality(S) # 0
    BY <2>4, <2>5
  <2>7. CASE Cardinality(S) # 0
    <3>1. S # {}
      BY <2>7, FS_EmptySet
    <3>2. PICK i \in 1..Len(Cohorts(r)) :
                  Cohorts(r)[i] \in met[e].confirmed
      BY <3>1 DEF S, Before, Positions
    <3>3. Cohorts(r)[i] \in ToSet(Cohorts(r))
      BY <2>1, CohortsOf DEF ToSet
    <3>. QED  BY <2>2, <3>2, <3>3
  <2>8. CASE t = 0 /\ u = 0
    BY <2>2, <2>8 DEF t, u
  <2>. QED  BY <2>6, <2>7, <2>8
<1>. QED  BY <1>1, Inductive, PTL

\* A claim is in the audit log as often as it was made, or about to be, one
\* whose place in the registry another has taken included.
THEOREM ClaimsLogged == Spec => []EveryClaimLogged
<1>1. IndInv => EveryClaimLogged
  <2>. SUFFICES ASSUME IndInv, NEW i \in DOMAIN made
                PROVE  Times(made[i], made) = Times(made[i], log)
                          + Cardinality(Waiting(made[i]))
    BY DEF EveryClaimLogged, Waiting
  <2>1. made \in Seq(EvidenceMetricEntry) /\ i \in 1..Len(made)
    BY LenProperties DEF IndInv, Typed
  <2>2. made[i] \in EvidenceMetricEntry
    BY <2>1, ElementOfSeq
  <2>. QED  BY <2>2 DEF IndInv, LogInv
<1>. QED  BY <1>1, Inductive, PTL

=============================================================================
