------------------------ MODULE CircuitBreakerProofs ------------------------
(***************************************************************************)
(* What a CircuitBreaker keeps for any number of callers, thresholds and   *)
(* probes: its counters fit its state, no window has more calls than       *)
(* probes, and it stays OPEN for its timeout.                              *)
(*                                                                         *)
(* The limit on probes is not inductive: that a window's calls are at most *)
(* MaxProbes and the strays follows from their being at most the probes    *)
(* counted and the strays, which every step keeps.  That the breaker stays *)
(* OPEN needs that a caller's time is never ahead of the clock and that an *)
(* OPEN breaker remembers the time of its last trip.                       *)
(***************************************************************************)
EXTENDS CircuitBreaker, SafetyOpsProofs, FiniteSetTheorems

\* BreakerConsistent, of any breaker.
Consistent(b) ==
    /\ b.state = "CLOSED" =>
          /\ b.failures < FailureThreshold
          /\ b.tripped = NotTripped
          /\ b.probes = 0 /\ b.successes = 0
    /\ b.state = "OPEN" => b.tripped >= 0 /\ b.probes = 0
    /\ b.state = "HALF_OPEN" =>
          /\ b.tripped >= 0
          /\ b.successes < SuccessThreshold
          /\ b.probes <= MaxProbes

LEMMA NewBreakerConsistent == Consistent(NewBreaker)
BY BreakerAssumption DEF Consistent, NewBreaker, NotTripped

LEMMA EvaluateConsistent ==
    ASSUME NEW b \in Breaker, NEW n \in Nat, Consistent(b)
    PROVE  Consistent(Evaluate(b, n))
BY BreakerAssumption DEF Consistent, Evaluate, Breaker, BreakerStates

LEMMA AdmitConsistent ==
    ASSUME NEW b \in Breaker, NEW n \in Nat, Consistent(b)
    PROVE  Consistent(Admit(b, n))
<1>1. ASSUME NEW e \in Breaker, Consistent(e),
             e.state = "HALF_OPEN", e.probes < MaxProbes
      PROVE  Consistent([e EXCEPT !.probes = @ + 1])
  BY <1>1, BreakerAssumption DEF Consistent, Breaker, BreakerStates
<1>. QED  BY <1>1, EvaluateType, EvaluateConsistent DEF Admit

LEMMA TripConsistent ==
    ASSUME NEW b \in Breaker, NEW n \in Nat
    PROVE  Consistent(Trip(b, n))
BY DEF Consistent, Trip, Breaker, BreakerStates

LEMMA ReleaseProbeConsistent ==
    ASSUME NEW b \in Breaker, Consistent(b)
    PROVE  Consistent(ReleaseProbe(b))
BY BreakerAssumption DEF Consistent, ReleaseProbe, Breaker, BreakerStates

\* A success moves a HALF_OPEN breaker on only while it is short of the
\* threshold; at the threshold it closes and starts afresh.
LEMMA RecordSuccessConsistent ==
    ASSUME NEW b \in Breaker, NEW n \in Nat, Consistent(b)
    PROVE  Consistent(RecordSuccess(b, n))
<1>. DEFINE e == Evaluate(b, n)
            counted == [e EXCEPT !.successes = @ + 1,
                                 !.probes = IF @ > 0 THEN @ - 1 ELSE @]
<1>1. e \in Breaker /\ Consistent(e)
  BY EvaluateType, EvaluateConsistent
<1>2. ASSUME NEW d \in Breaker, Consistent(d), d.state = "CLOSED"
      PROVE  Consistent([d EXCEPT !.failures = 0])
  BY <1>2, BreakerAssumption DEF Consistent, Breaker, BreakerStates
<1>3. ASSUME NEW d \in Breaker, Consistent(d), d.state = "HALF_OPEN",
             NEW s \in Nat, NEW p \in Nat,
             s < SuccessThreshold, p <= d.probes
      PROVE  Consistent([d EXCEPT !.successes = s, !.probes = p])
  BY <1>3, BreakerAssumption DEF Consistent, Breaker, BreakerStates
<1>4. CASE e.state = "HALF_OPEN" /\ counted.successes >= SuccessThreshold
  <2>1. RecordSuccess(b, n) = NewBreaker
    BY <1>4, Zenon DEF RecordSuccess, Close
  <2>. QED  BY <2>1, NewBreakerConsistent
<1>5. CASE e.state = "HALF_OPEN" /\ ~(counted.successes >= SuccessThreshold)
  <2>. DEFINE s == e.successes + 1
              p == IF e.probes > 0 THEN e.probes - 1 ELSE e.probes
  <2>1. RecordSuccess(b, n) = [e EXCEPT !.successes = s, !.probes = p]
    BY <1>5, Zenon DEF RecordSuccess
  <2>2. s \in Nat /\ p \in Nat /\ p <= e.probes
    BY <1>1 DEF Breaker
  <2>3. counted.successes = s
    BY <1>1 DEF Breaker
  <2>4. s < SuccessThreshold
    BY <1>5, <2>2, <2>3, BreakerAssumption
  <2>5. e.state = "HALF_OPEN"
    BY <1>5
  <2>. HIDE DEF s, p
  <2>6. Consistent([e EXCEPT !.successes = s, !.probes = p])
    BY <1>1, <1>3, <2>2, <2>4, <2>5
  <2>. QED  BY <2>1, <2>6, Zenon
<1>6. CASE e.state = "CLOSED"
  <2>1. RecordSuccess(b, n) = [e EXCEPT !.failures = 0]
    BY <1>6, Zenon DEF RecordSuccess
  <2>. QED  BY <1>1, <1>2, <1>6, <2>1
<1>7. CASE e.state = "OPEN"
  <2>1. RecordSuccess(b, n) = e
    BY <1>7, Zenon DEF RecordSuccess
  <2>. QED  BY <1>1, <2>1
<1>8. e.state \in {"CLOSED", "OPEN", "HALF_OPEN"}
  BY <1>1 DEF Breaker, BreakerStates
<1>. QED  BY <1>4, <1>5, <1>6, <1>7, <1>8

LEMMA RecordFailureConsistent ==
    ASSUME NEW b \in Breaker, NEW n \in Nat, Consistent(b)
    PROVE  /\ Consistent(RecordFailure(b, n))
           /\ RecordFailure(b, n).state # "HALF_OPEN"
<1>. DEFINE e == Evaluate(b, n)
            counted == [e EXCEPT !.failures = @ + 1]
            tripped == [counted EXCEPT !.state = "OPEN", !.tripped = n,
                                       !.probes = 0]
<1>1. e \in Breaker /\ Consistent(e)
  BY EvaluateType, EvaluateConsistent
<1>2. ASSUME NEW d \in Breaker
      PROVE  LET o == [d EXCEPT !.state = "OPEN", !.tripped = n, !.probes = 0]
             IN  Consistent(o) /\ o.state = "OPEN"
  BY DEF Consistent, Breaker, BreakerStates
<1>3. ASSUME NEW d \in Breaker, Consistent(d), d.state = "CLOSED",
             d.failures + 1 < FailureThreshold
      PROVE  LET o == [d EXCEPT !.failures = @ + 1]
             IN  Consistent(o) /\ o.state = "CLOSED"
  BY <1>3, BreakerAssumption DEF Consistent, Breaker, BreakerStates
<1>4. CASE e.state = "HALF_OPEN"
  <2>1. RecordFailure(b, n) = Trip(e, n)
    BY <1>4, Zenon DEF RecordFailure
  <2>2. Trip(e, n).state = "OPEN"
    BY <1>1 DEF Trip, Breaker
  <2>. QED  BY <1>1, <2>1, <2>2, TripConsistent
<1>5. CASE e.state = "CLOSED" /\ counted.failures >= FailureThreshold
  <2>1. RecordFailure(b, n) = tripped
    BY <1>5, Zenon DEF RecordFailure
  <2>2. counted \in Breaker
    BY <1>1, CountedType
  <2>. QED  BY <1>2, <2>1, <2>2
<1>6. CASE e.state = "CLOSED" /\ ~(counted.failures >= FailureThreshold)
  <2>1. RecordFailure(b, n) = counted
    BY <1>6, Zenon DEF RecordFailure
  <2>2. e.failures + 1 < FailureThreshold
    BY <1>1, <1>6, BreakerAssumption DEF Breaker
  <2>. QED  BY <1>1, <1>3, <1>6, <2>1, <2>2
<1>7. CASE e.state = "OPEN"
  <2>1. RecordFailure(b, n) = e
    BY <1>7, Zenon DEF RecordFailure
  <2>. QED  BY <1>1, <1>7, <2>1
<1>8. e.state \in {"CLOSED", "OPEN", "HALF_OPEN"}
  BY <1>1 DEF Breaker, BreakerStates
<1>. QED  BY <1>4, <1>5, <1>6, <1>7, <1>8

-----------------------------------------------------------------------------
(* What the operators do to the window and to the time of the trip.        *)

\* At time n the breaker b is OPEN and stays so.
Shut(b, n) == b.state = "OPEN" /\ Evaluate(b, n) = b

\* The evaluation opens a window with no probe, or does nothing.
LEMMA EvaluateEffect ==
    ASSUME NEW b \in Breaker, NEW n \in Nat
    PROVE  LET e == Evaluate(b, n)
           IN  /\ \/ e = b
                  \/ /\ b.state = "OPEN" /\ e.state = "HALF_OPEN"
                     /\ e.probes = 0
                     /\ n >= b.tripped + RecoveryTimeout
               /\ e.state = "OPEN" => Shut(b, n)
BY BreakerAssumption DEF Evaluate, Shut, Breaker, BreakerStates, NotTripped

\* An admission to a HALF_OPEN breaker counts a probe, and no admission trips.
LEMMA AdmitEffect ==
    ASSUME NEW b \in Breaker, NEW n \in Nat
    PROVE  LET e == Evaluate(b, n)
           IN  /\ Admit(b, n).state = e.state
               /\ Admit(b, n).state = "OPEN" =>
                     Admit(b, n) = b /\ Shut(b, n)
               /\ Admit(b, n).probes =
                     IF e.state = "HALF_OPEN" /\ Admits(b, n)
                     THEN e.probes + 1
                     ELSE e.probes
<1>. DEFINE e == Evaluate(b, n)
<1>1. e \in Breaker
  BY EvaluateType
<1>2. ASSUME NEW d \in Breaker
      PROVE  LET o == [d EXCEPT !.probes = @ + 1]
             IN  o.state = d.state /\ o.probes = d.probes + 1
  BY DEF Breaker
<1>3. e.state = "OPEN" => e = b /\ Shut(b, n)
  BY EvaluateEffect DEF Shut
<1>4. Admit(b, n) = IF e.state = "HALF_OPEN" /\ e.probes < MaxProbes
                    THEN [e EXCEPT !.probes = @ + 1]
                    ELSE e
  BY Zenon DEF Admit
<1>5. Admits(b, n) <=> \/ e.state = "CLOSED"
                       \/ e.state = "HALF_OPEN" /\ e.probes < MaxProbes
  BY Zenon DEF Admits
<1>6. CASE e.state = "HALF_OPEN" /\ e.probes < MaxProbes
  <2>1. Admit(b, n) = [e EXCEPT !.probes = @ + 1]
    BY <1>4, <1>6, Zenon
  <2>. HIDE DEF e
  <2>2. Admit(b, n).state = e.state /\ Admit(b, n).probes = e.probes + 1
    BY <1>1, <1>2, <2>1
  <2>. QED  BY <1>5, <1>6, <2>2 DEF e
<1>7. CASE ~(e.state = "HALF_OPEN" /\ e.probes < MaxProbes)
  <2>1. Admit(b, n) = e
    BY <1>4, <1>7, Zenon
  <2>. HIDE DEF e
  <2>2. ~(e.state = "HALF_OPEN" /\ Admits(b, n))
    BY <1>5, <1>7
  <2>. QED  BY <1>3, <2>1, <2>2 DEF e
<1>. QED  BY <1>6, <1>7

\* A success frees a probe if one is out, and does not trip.
LEMMA RecordSuccessEffect ==
    ASSUME NEW b \in Breaker, NEW n \in Nat
    PROVE  LET e == Evaluate(b, n)
               o == RecordSuccess(b, n)
           IN  /\ o.state = "OPEN" => o = b /\ Shut(b, n)
               /\ o.state = "HALF_OPEN" =>
                     /\ e.state = "HALF_OPEN"
                     /\ o.probes = IF e.probes > 0 THEN e.probes - 1
                                                   ELSE e.probes
<1>. DEFINE e == Evaluate(b, n)
            o == RecordSuccess(b, n)
            s == e.successes + 1
            p == IF e.probes > 0 THEN e.probes - 1 ELSE e.probes
            counted == [e EXCEPT !.successes = s, !.probes = p]
            cleared == [e EXCEPT !.failures = 0]
<1>1. e \in Breaker
  BY EvaluateType
<1>2. e.state = "OPEN" => e = b /\ Shut(b, n)
  BY EvaluateEffect DEF Shut
<1>3. NewBreaker.state = "CLOSED"
  BY DEF NewBreaker
<1>4. ASSUME NEW d \in Breaker, NEW i, NEW j
      PROVE  /\ [d EXCEPT !.successes = i, !.probes = j].state = d.state
             /\ [d EXCEPT !.successes = i, !.probes = j].probes = j
             /\ [d EXCEPT !.failures = 0].state = d.state
  BY DEF Breaker
<1>5. \/ e.state = "HALF_OPEN" /\ (o = NewBreaker \/ o = counted)
      \/ e.state = "CLOSED" /\ o = cleared
      \/ e.state = "OPEN" /\ o = e
  <2>1. CASE e.state = "HALF_OPEN"
    BY <2>1, Zenon DEF RecordSuccess, Close
  <2>2. CASE e.state = "CLOSED"
    BY <2>2, Zenon DEF RecordSuccess
  <2>3. CASE e.state = "OPEN"
    BY <2>3, Zenon DEF RecordSuccess
  <2>. QED  BY <1>1, <2>1, <2>2, <2>3 DEF Breaker, BreakerStates
<1>6. counted.state = e.state /\ counted.probes = p /\ cleared.state = e.state
  <2>. HIDE DEF e, s, p
  <2>. QED  BY <1>1, <1>4
<1>. HIDE DEF e, o, counted, cleared
<1>. QED  BY <1>2, <1>3, <1>5, <1>6 DEF e, o

\* A failure that trips the breaker remembers the time it is given.
LEMMA RecordFailureEffect ==
    ASSUME NEW b \in Breaker, NEW n \in Nat
    PROVE  LET o == RecordFailure(b, n)
           IN  /\ Shut(b, n) => o = b
               /\ o.state = "OPEN" /\ ~Shut(b, n) => o.tripped = n
               /\ b.state = "OPEN" => o.state = "OPEN"
<1>. DEFINE e == Evaluate(b, n)
            o == RecordFailure(b, n)
            counted == [e EXCEPT !.failures = @ + 1]
            tripped == [counted EXCEPT !.state = "OPEN", !.tripped = n,
                                       !.probes = 0]
<1>1. e \in Breaker /\ counted \in Breaker
  BY EvaluateType, CountedType
<1>2. /\ e.state = "OPEN" => e = b /\ Shut(b, n)
      /\ Shut(b, n) => e.state = "OPEN"
      /\ b.state = "OPEN" => e.state \in {"OPEN", "HALF_OPEN"}
  BY EvaluateEffect DEF Shut
<1>3. ASSUME NEW d \in Breaker
      PROVE  /\ [d EXCEPT !.state = "OPEN", !.tripped = n,
                          !.probes = 0].state = "OPEN"
             /\ [d EXCEPT !.state = "OPEN", !.tripped = n,
                          !.probes = 0].tripped = n
             /\ Trip(d, n).state = "OPEN"
             /\ Trip(d, n).tripped = n
             /\ [d EXCEPT !.failures = @ + 1].state = d.state
  BY DEF Breaker, Trip
<1>4. \/ e.state = "HALF_OPEN" /\ o = Trip(e, n)
      \/ e.state = "CLOSED" /\ (o = tripped \/ o = counted)
      \/ e.state = "OPEN" /\ o = e
  <2>1. CASE e.state = "HALF_OPEN"
    BY <2>1, Zenon DEF RecordFailure
  <2>2. CASE e.state = "CLOSED"
    BY <2>2, Zenon DEF RecordFailure
  <2>3. CASE e.state = "OPEN"
    BY <2>3, Zenon DEF RecordFailure
  <2>. QED  BY <1>1, <2>1, <2>2, <2>3 DEF Breaker, BreakerStates
<1>5. /\ tripped.state = "OPEN" /\ tripped.tripped = n
      /\ Trip(e, n).state = "OPEN" /\ Trip(e, n).tripped = n
      /\ counted.state = e.state
  BY <1>1, <1>3, Zenon
<1>. HIDE DEF e, o, counted, tripped
<1>. QED  BY <1>2, <1>4, <1>5 DEF o

-----------------------------------------------------------------------------
(* The inductive invariant.                                                *)

\* Nobody passes a time that has not come.
TimeInv == \A c \in Callers : now[c] <= clock

\* An OPEN breaker counts its timeout from the last trip.
QuietInv ==
    breaker.state = "OPEN" => quietUntil = breaker.tripped + RecoveryTimeout

\* The calls of a window that have not ended each hold a probe, but for those
\* whose probe a stray report freed.
WindowInv ==
    /\ IsFiniteSet(probing)
    /\ breaker.state = "HALF_OPEN" =>
          Cardinality(probing) <= breaker.probes + strays

IndInv == TypeOK /\ BreakerConsistent /\ TimeInv /\ QuietInv /\ WindowInv

\* BreakerConsistent is Consistent of the breaker of the state.
LEMMA ConsistentBreaker ==
    /\ BreakerConsistent <=> Consistent(breaker)
    /\ BreakerConsistent' <=> Consistent(breaker')
BY DEF BreakerConsistent, Consistent

LEMMA InitIndInv == Init => IndInv
<1>. SUFFICES ASSUME Init PROVE IndInv
  OBVIOUS
<1>. USE DEF Init
<1>1. TypeOK
  BY NewBreakerType DEF TypeOK
<1>2. BreakerConsistent
  BY NewBreakerConsistent, ConsistentBreaker
<1>3. TimeInv /\ QuietInv /\ WindowInv
  BY FS_EmptySet DEF TimeInv, QuietInv, WindowInv, NewBreaker
<1>. QED  BY <1>1, <1>2, <1>3 DEF IndInv

\* A step in which the breaker becomes b at time n keeps what is said of the
\* breaker alone and of the time it stays OPEN.
LEMMA BecomesStep ==
    ASSUME IndInv, NEW b \in Breaker, NEW n \in Nat, Becomes(b, n),
           Consistent(b),
           Shut(breaker, n) => b = breaker \/ b.state # "OPEN",
           b.state = "OPEN" /\ ~Shut(breaker, n) => b.tripped = n
    PROVE  /\ breaker' \in Breaker
           /\ quietUntil' \in Nat
           /\ BreakerConsistent'
           /\ QuietInv'
<1>1. breaker' = b
  BY DEF Becomes
<1>2. WindowOpens(n) <=> breaker.state = "OPEN" /\ ~Shut(breaker, n)
  BY DEF WindowOpens, Shut
<1>3. quietUntil' = IF b.state = "OPEN" /\ ~Shut(breaker, n)
                    THEN n + RecoveryTimeout
                    ELSE quietUntil
  BY <1>2 DEF Becomes, Shut
<1>4. quietUntil' \in Nat
  BY <1>3, BreakerAssumption DEF IndInv, TypeOK
<1>5. QuietInv'
  BY <1>1, <1>3 DEF IndInv, QuietInv
<1>. QED  BY <1>1, <1>4, <1>5, ConsistentBreaker

\* One caller fewer, or one more, in a window.
LEMMA OneCallerMore ==
    ASSUME NEW P, IsFiniteSet(P), NEW c
    PROVE  /\ IsFiniteSet(P \cup {c})
           /\ Cardinality(P \cup {c}) \in Nat
           /\ Cardinality(P) \in Nat
           /\ Cardinality(P \cup {c}) <= Cardinality(P) + 1
<1>1. IsFiniteSet(P \cup {c})
  BY FS_AddElement
<1>2. Cardinality(P) \in Nat /\ Cardinality(P \cup {c}) \in Nat
  BY <1>1, FS_CardinalityType
<1>3. Cardinality(P \cup {c}) = IF c \in P THEN Cardinality(P)
                                          ELSE Cardinality(P) + 1
  BY FS_AddElement
<1>. QED  BY <1>1, <1>2, <1>3

LEMMA OneCallerFewer ==
    ASSUME NEW P, IsFiniteSet(P), NEW c
    PROVE  /\ IsFiniteSet(P \ {c})
           /\ Cardinality(P \ {c}) \in Nat
           /\ Cardinality(P) \in Nat
           /\ Cardinality(P \ {c}) = IF c \in P THEN Cardinality(P) - 1
                                               ELSE Cardinality(P)
<1>1. IsFiniteSet(P \ {c})
  BY FS_RemoveElement
<1>2. Cardinality(P) \in Nat /\ Cardinality(P \ {c}) \in Nat
  BY <1>1, FS_CardinalityType
<1>3. Cardinality(P \ {c}) = IF c \in P THEN Cardinality(P) - 1
                                       ELSE Cardinality(P)
  BY FS_RemoveElement
<1>. QED  BY <1>1, <1>2, <1>3

\* The calls and the strays of the window that is in force at time n, against
\* the probes that the evaluated breaker counts.
LEMMA WindowAt ==
    ASSUME IndInv, NEW n \in Nat
    PROVE  LET e == Evaluate(breaker, n)
           IN  /\ IsFiniteSet(Probing(n))
               /\ Strays(n) \in Nat /\ e.probes \in Nat
               /\ e.state = "HALF_OPEN" =>
                     Cardinality(Probing(n)) <= e.probes + Strays(n)
               /\ WindowOpens(n) => e.probes = 0
<1>. DEFINE e == Evaluate(breaker, n)
<1>1. breaker \in Breaker /\ IsFiniteSet(probing) /\ strays \in Nat
  BY DEF IndInv, TypeOK, WindowInv
<1>2. e.probes \in Nat
  BY <1>1, EvaluateType DEF Breaker
<1>3. CASE WindowOpens(n)
  <2>1. e.probes = 0
    BY <1>1, <1>3, EvaluateEffect DEF WindowOpens
  <2>2. Probing(n) = {} /\ Strays(n) = 0
    BY <1>3 DEF Probing, Strays
  <2>3. IsFiniteSet(Probing(n)) /\ Cardinality(Probing(n)) = 0
    BY <2>2, FS_EmptySet
  <2>. QED  BY <2>1, <2>2, <2>3
<1>4. CASE ~WindowOpens(n)
  <2>1. e = breaker
    BY <1>1, <1>4, EvaluateEffect DEF WindowOpens
  <2>2. Probing(n) = probing /\ Strays(n) = strays
    BY <1>4 DEF Probing, Strays
  <2>. QED  BY <1>1, <1>2, <1>4, <2>1, <2>2 DEF IndInv, WindowInv
<1>. QED  BY <1>3, <1>4

LEMMA CheckStep ==
    ASSUME IndInv, NEW c \in Callers, CheckExecutionAllowed(c)
    PROVE  IndInv'
<1>. DEFINE n == now[c]
            e == Evaluate(breaker, n)
            a == Admit(breaker, n)
<1>1. n \in Nat /\ n <= clock /\ breaker \in Breaker
  BY DEF IndInv, TypeOK, TimeInv
<1>2. a \in Breaker /\ Consistent(a)
  BY <1>1, AdmitType, AdmitConsistent, ConsistentBreaker DEF IndInv
<1>3. a.state = "OPEN" => a = breaker /\ Shut(breaker, n)
  BY <1>1, AdmitEffect
<1>4. /\ breaker' = a /\ breaker' \in Breaker
      /\ quietUntil' \in Nat /\ BreakerConsistent' /\ QuietInv'
  BY <1>1, <1>2, <1>3, BecomesStep DEF CheckExecutionAllowed, Becomes
<1>5. TypeOK' /\ TimeInv'
  BY <1>1, <1>4 DEF CheckExecutionAllowed, IndInv, TypeOK, TimeInv, Probing,
                    Strays
<1>6. WindowInv'
  <2>1. /\ probing' = IF e.state = "HALF_OPEN" /\ Admits(breaker, n)
                      THEN Probing(n) \cup {c}
                      ELSE Probing(n)
        /\ strays' = Strays(n)
    BY DEF CheckExecutionAllowed
  <2>2. /\ a.state = e.state
        /\ a.probes = IF e.state = "HALF_OPEN" /\ Admits(breaker, n)
                      THEN e.probes + 1
                      ELSE e.probes
    BY <1>1, AdmitEffect
  <2>3. /\ IsFiniteSet(Probing(n))
        /\ Strays(n) \in Nat /\ e.probes \in Nat
        /\ e.state = "HALF_OPEN" =>
              Cardinality(Probing(n)) <= e.probes + Strays(n)
    BY <1>1, WindowAt
  <2>. HIDE DEF n, e, a
  <2>4. CASE e.state = "HALF_OPEN" /\ Admits(breaker, n)
    <3>1. probing' = Probing(n) \cup {c} /\ a.probes = e.probes + 1
      BY <2>1, <2>2, <2>4
    <3>2. /\ IsFiniteSet(probing') /\ Cardinality(probing') \in Nat
          /\ Cardinality(Probing(n)) \in Nat
          /\ Cardinality(probing') <= Cardinality(Probing(n)) + 1
      BY <2>3, <3>1, OneCallerMore
    <3>. QED  BY <1>4, <2>1, <2>3, <2>4, <3>1, <3>2 DEF WindowInv
  <2>5. CASE ~(e.state = "HALF_OPEN" /\ Admits(breaker, n))
    BY <1>4, <2>1, <2>2, <2>3, <2>5 DEF WindowInv
  <2>. QED  BY <2>4, <2>5
<1>. QED  BY <1>4, <1>5, <1>6 DEF IndInv

LEMMA SuccessStep ==
    ASSUME IndInv, NEW c \in Callers, ReportSuccess(c)
    PROVE  IndInv'
<1>. DEFINE n == now[c]
            e == Evaluate(breaker, n)
            r == RecordSuccess(breaker, n)
<1>1. n \in Nat /\ n <= clock /\ breaker \in Breaker
  BY DEF IndInv, TypeOK, TimeInv
<1>2. r \in Breaker /\ Consistent(r)
  BY <1>1, RecordSuccessType, RecordSuccessConsistent, ConsistentBreaker
     DEF IndInv
<1>3. /\ r.state = "OPEN" => r = breaker /\ Shut(breaker, n)
      /\ r.state = "HALF_OPEN" =>
            /\ e.state = "HALF_OPEN"
            /\ r.probes = IF e.probes > 0 THEN e.probes - 1 ELSE e.probes
  BY <1>1, RecordSuccessEffect
<1>4. /\ breaker' = r /\ breaker' \in Breaker
      /\ quietUntil' \in Nat /\ BreakerConsistent' /\ QuietInv'
  BY <1>1, <1>2, <1>3, BecomesStep DEF ReportSuccess, Becomes
<1>5. /\ IsFiniteSet(Probing(n))
      /\ Strays(n) \in Nat /\ e.probes \in Nat
      /\ e.state = "HALF_OPEN" =>
            Cardinality(Probing(n)) <= e.probes + Strays(n)
      /\ WindowOpens(n) => e.probes = 0
  BY <1>1, WindowAt
<1>6. /\ probing' = Probing(n) \ {c}
      /\ strays' = IF r.state = "HALF_OPEN" /\ e.probes > 0 /\ c \notin probing
                   THEN strays + 1
                   ELSE Strays(n)
  BY <1>4 DEF ReportSuccess
<1>7. strays \in Nat
  BY DEF IndInv, TypeOK
<1>8. TypeOK' /\ TimeInv'
  BY <1>1, <1>4, <1>5, <1>6, <1>7
     DEF ReportSuccess, IndInv, TypeOK, TimeInv, Probing
\* The probe that the success frees was the caller's, or the caller strays.
<1>9. WindowInv'
  <2>1. /\ IsFiniteSet(probing') /\ Cardinality(probing') \in Nat
        /\ Cardinality(Probing(n)) \in Nat
        /\ Cardinality(probing') = IF c \in Probing(n)
                                   THEN Cardinality(Probing(n)) - 1
                                   ELSE Cardinality(Probing(n))
    BY <1>5, <1>6, OneCallerFewer
  <2>2. CASE r.state = "HALF_OPEN" /\ e.probes > 0
    <3>1. ~WindowOpens(n)
      BY <1>5, <2>2
    <3>2. Probing(n) = probing /\ Strays(n) = strays
      BY <3>1 DEF Probing, Strays
    <3>. HIDE DEF n, e, r
    <3>. QED  BY <1>3, <1>4, <1>5, <1>6, <1>7, <2>1, <2>2, <3>2 DEF WindowInv
  <2>3. CASE ~(r.state = "HALF_OPEN" /\ e.probes > 0)
    <3>. HIDE DEF n, e, r
    <3>. QED  BY <1>3, <1>4, <1>5, <1>6, <1>7, <2>1, <2>3 DEF WindowInv
  <2>. QED  BY <2>2, <2>3
<1>. QED  BY <1>4, <1>8, <1>9 DEF IndInv

LEMMA FailureStep ==
    ASSUME IndInv, NEW c \in Callers, ReportFailure(c)
    PROVE  IndInv'
<1>. DEFINE n == now[c]
            r == RecordFailure(breaker, n)
<1>1. n \in Nat /\ n <= clock /\ breaker \in Breaker
  BY DEF IndInv, TypeOK, TimeInv
<1>2. r \in Breaker /\ Consistent(r) /\ r.state # "HALF_OPEN"
  BY <1>1, RecordFailureType, RecordFailureConsistent, ConsistentBreaker
     DEF IndInv
<1>3. /\ Shut(breaker, n) => r = breaker
      /\ r.state = "OPEN" /\ ~Shut(breaker, n) => r.tripped = n
  BY <1>1, RecordFailureEffect
<1>4. /\ breaker' = r /\ breaker' \in Breaker
      /\ quietUntil' \in Nat /\ BreakerConsistent' /\ QuietInv'
  BY <1>1, <1>2, <1>3, BecomesStep DEF ReportFailure, Becomes
<1>5. /\ IsFiniteSet(Probing(n)) /\ Strays(n) \in Nat
  BY <1>1, WindowAt
<1>6. TypeOK' /\ TimeInv'
  BY <1>1, <1>4, <1>5 DEF ReportFailure, IndInv, TypeOK, TimeInv, Probing
<1>7. WindowInv'
  BY <1>2, <1>4, <1>5, OneCallerFewer DEF ReportFailure, WindowInv
<1>. QED  BY <1>4, <1>6, <1>7 DEF IndInv

LEMMA CancelStep ==
    ASSUME IndInv, NEW c \in Callers, Cancel(c)
    PROVE  IndInv'
<1>. DEFINE r == ReleaseProbe(breaker)
<1>1. breaker \in Breaker /\ strays \in Nat /\ IsFiniteSet(probing)
  BY DEF IndInv, TypeOK, WindowInv
<1>2. r \in Breaker /\ Consistent(r)
  BY <1>1, ReleaseProbeType, ReleaseProbeConsistent, ConsistentBreaker
     DEF IndInv
<1>3. /\ r.state = breaker.state /\ r.tripped = breaker.tripped
      /\ r.probes = IF breaker.state = "HALF_OPEN" /\ breaker.probes > 0
                    THEN breaker.probes - 1
                    ELSE breaker.probes
  BY <1>1 DEF ReleaseProbe, Breaker
<1>4. breaker' = r /\ BreakerConsistent'
  BY <1>2, ConsistentBreaker DEF Cancel
<1>5. QuietInv'
  BY <1>3, <1>4 DEF Cancel, IndInv, QuietInv
<1>6. TypeOK' /\ TimeInv'
  BY <1>1, <1>2 DEF Cancel, IndInv, TypeOK, TimeInv
<1>7. /\ IsFiniteSet(probing') /\ Cardinality(probing') \in Nat
      /\ Cardinality(probing) \in Nat
      /\ Cardinality(probing') = IF c \in probing
                                 THEN Cardinality(probing) - 1
                                 ELSE Cardinality(probing)
  BY <1>1, OneCallerFewer DEF Cancel
<1>8. breaker.probes \in Nat
  BY <1>1 DEF Breaker
<1>9. WindowInv'
  <2>. HIDE DEF r
  <2>. QED
    BY <1>1, <1>3, <1>4, <1>7, <1>8 DEF Cancel, IndInv, WindowInv
<1>. QED  BY <1>4, <1>5, <1>6, <1>9 DEF IndInv

LEMMA VanishStep ==
    ASSUME IndInv, NEW c \in Callers, Vanish(c)
    PROVE  IndInv'
<1>1. TypeOK' /\ BreakerConsistent' /\ TimeInv' /\ QuietInv'
  BY DEF Vanish, IndInv, TypeOK, BreakerConsistent, TimeInv, QuietInv
<1>2. /\ IsFiniteSet(probing') /\ Cardinality(probing') \in Nat
      /\ Cardinality(probing) \in Nat
      /\ Cardinality(probing') <= Cardinality(probing)
  <2>1. IsFiniteSet(probing) /\ probing' = probing \ {c}
    BY DEF Vanish, IndInv, WindowInv
  <2>2. /\ IsFiniteSet(probing') /\ Cardinality(probing) \in Nat
        /\ Cardinality(probing') = IF c \in probing
                                   THEN Cardinality(probing) - 1
                                   ELSE Cardinality(probing)
    BY <2>1, OneCallerFewer
  <2>3. Cardinality(probing') \in Nat
    BY <2>2, FS_CardinalityType
  <2>. QED  BY <2>2, <2>3
<1>3. breaker.probes \in Nat /\ strays \in Nat
  BY DEF IndInv, TypeOK, Breaker
<1>4. WindowInv'
  BY <1>2, <1>3 DEF Vanish, IndInv, WindowInv
<1>. QED  BY <1>1, <1>4 DEF IndInv

LEMMA ObserveStep == ASSUME IndInv, Observe PROVE IndInv'
<1>. DEFINE e == Evaluate(breaker, clock)
<1>1. clock \in Nat /\ breaker \in Breaker
  BY DEF IndInv, TypeOK
<1>2. e \in Breaker /\ Consistent(e)
  BY <1>1, EvaluateType, EvaluateConsistent, ConsistentBreaker DEF IndInv
<1>3. e.state = "OPEN" => e = breaker /\ Shut(breaker, clock)
  BY <1>1, EvaluateEffect DEF Shut
<1>4. /\ breaker' = e /\ breaker' \in Breaker
      /\ quietUntil' \in Nat /\ BreakerConsistent' /\ QuietInv'
  BY <1>1, <1>2, <1>3, BecomesStep DEF Observe, Becomes
<1>5. TypeOK' /\ TimeInv'
  BY <1>4 DEF Observe, IndInv, TypeOK, TimeInv
<1>6. probing' = {} /\ strays' = 0 /\ breaker'.probes \in Nat
  BY <1>4 DEF Observe, Breaker
<1>7. WindowInv'
  BY <1>6, FS_EmptySet DEF WindowInv
<1>. QED  BY <1>4, <1>5, <1>7 DEF IndInv

\* The steps that do not go through a caller's admission.
LEMMA OtherStep ==
    ASSUME IndInv,
           \/ \E c \in Callers : Begin(c)
           \/ TripManually \/ ResetBreaker \/ Tick \/ UNCHANGED vars
    PROVE  IndInv'
<1>1. ASSUME NEW c \in Callers, Begin(c) PROVE IndInv'
  BY <1>1 DEF Begin, IndInv, TypeOK, BreakerConsistent, TimeInv, QuietInv,
              WindowInv
<1>2. ASSUME TripManually PROVE IndInv'
  <2>1. clock \in Nat /\ breaker \in Breaker
    BY DEF IndInv, TypeOK
  <2>2. /\ Trip(breaker, clock) \in Breaker
        /\ Consistent(Trip(breaker, clock))
        /\ Trip(breaker, clock).state = "OPEN"
        /\ Trip(breaker, clock).tripped = clock
    BY <2>1, TripType, TripConsistent DEF Trip, Breaker
  <2>3. BreakerConsistent'
    BY <1>2, <2>2, ConsistentBreaker DEF TripManually
  <2>. QED
    BY <1>2, <2>1, <2>2, <2>3, BreakerAssumption
       DEF TripManually, IndInv, TypeOK, TimeInv, QuietInv, WindowInv
<1>3. ASSUME ResetBreaker PROVE IndInv'
  <2>1. BreakerConsistent' /\ breaker' \in Breaker /\ breaker'.state = "CLOSED"
    BY <1>3, NewBreakerType, NewBreakerConsistent, ConsistentBreaker
       DEF ResetBreaker, Reset, NewBreaker
  <2>. QED
    BY <1>3, <2>1
       DEF ResetBreaker, IndInv, TypeOK, TimeInv, QuietInv, WindowInv
<1>4. ASSUME Tick PROVE IndInv'
  BY <1>4 DEF Tick, IndInv, TypeOK, BreakerConsistent, TimeInv, QuietInv,
              WindowInv
<1>5. ASSUME UNCHANGED vars PROVE IndInv'
  BY <1>5 DEF vars, IndInv, TypeOK, BreakerConsistent, TimeInv, QuietInv,
              WindowInv
<1>. QED  BY <1>1, <1>2, <1>3, <1>4, <1>5

LEMMA Inductive == Spec => []IndInv
<1>1. IndInv /\ [Next]_vars => IndInv'
  BY CheckStep, SuccessStep, FailureStep, CancelStep, VanishStep,
     ObserveStep, OtherStep DEF Next
<1>. QED  BY <1>1, InitIndInv, PTL DEF Spec

-----------------------------------------------------------------------------
(* The theorems.                                                           *)

\* Every variable keeps its type: no counter goes below zero.
THEOREM TypeCorrect == Spec => []TypeOK
BY Inductive, PTL DEF IndInv

\* The counters of a breaker fit its state in whatever order calls report.
THEOREM CountersFitState == Spec => []BreakerConsistent
BY Inductive, PTL DEF IndInv

\* The calls of a HALF_OPEN window are at most the probes it allows and the
\* probes that calls from before the window freed.
THEOREM ProbesLimited == Spec => []ProbeLimit
<1>1. IndInv => ProbeLimit
  <2>. SUFFICES ASSUME IndInv, breaker.state = "HALF_OPEN"
                PROVE  Cardinality(probing) <= MaxProbes + strays
    BY DEF ProbeLimit
  <2>1. /\ breaker.probes \in Nat /\ strays \in Nat
        /\ Cardinality(probing) \in Nat
    BY FS_CardinalityType DEF IndInv, TypeOK, Breaker, WindowInv
  <2>2. /\ breaker.probes <= MaxProbes
        /\ Cardinality(probing) <= breaker.probes + strays
    BY DEF IndInv, BreakerConsistent, WindowInv
  <2>. QED  BY <2>1, <2>2, BreakerAssumption
<1>. QED  BY <1>1, Inductive, PTL

\* A breaker that is not reset stays OPEN until the timeout of its last trip
\* has passed in real time, whatever times callers pass.
THEOREM StaysOpen == Spec => OpenHoldsForTimeout
<1>1. ASSUME IndInv, [Next]_vars
      PROVE  [breaker.state = "OPEN" /\ breaker'.state # "OPEN" =>
                  ResetBreaker \/ clock >= quietUntil]_vars
  <2>. SUFFICES ASSUME breaker.state = "OPEN", breaker'.state # "OPEN",
                       ~ResetBreaker
                PROVE  clock >= quietUntil
    OBVIOUS
  <2>1. /\ breaker \in Breaker /\ clock \in Nat
        /\ quietUntil = breaker.tripped + RecoveryTimeout
        /\ \A c \in Callers : now[c] \in Nat /\ now[c] <= clock
    BY <1>1 DEF IndInv, TypeOK, QuietInv, TimeInv
  \* Only an evaluation takes the breaker out of OPEN.
  <2>2. ASSUME NEW n \in Nat, n <= clock, ~Shut(breaker, n)
        PROVE  clock >= quietUntil
    <3>1. n >= breaker.tripped + RecoveryTimeout
      BY <2>1, <2>2, EvaluateEffect DEF Shut
    <3>2. quietUntil \in Nat
      BY <1>1 DEF IndInv, TypeOK
    <3>. QED  BY <2>1, <2>2, <3>1, <3>2
  <2>3. ASSUME NEW c \in Callers, CheckExecutionAllowed(c)
        PROVE  clock >= quietUntil
    <3>1. Shut(breaker, now[c]) => Admit(breaker, now[c]).state = "OPEN"
      BY <2>1, AdmitEffect DEF Shut
    <3>2. ~Shut(breaker, now[c])
      BY <2>3, <3>1 DEF CheckExecutionAllowed, Becomes
    <3>. QED  BY <2>1, <2>2, <3>2
  <2>4. ASSUME NEW c \in Callers, ReportSuccess(c)
        PROVE  clock >= quietUntil
    <3>1. Shut(breaker, now[c]) =>
              RecordSuccess(breaker, now[c]) = breaker
      BY Zenon DEF Shut, RecordSuccess
    <3>2. ~Shut(breaker, now[c])
      BY <2>4, <3>1 DEF ReportSuccess, Becomes
    <3>. QED  BY <2>1, <2>2, <3>2
  <2>5. ASSUME NEW c \in Callers, ReportFailure(c) PROVE FALSE
    <3>1. RecordFailure(breaker, now[c]).state = "OPEN"
      BY <2>1, RecordFailureEffect
    <3>. QED  BY <2>5, <3>1 DEF ReportFailure, Becomes
  <2>6. ASSUME NEW c \in Callers, Cancel(c) PROVE FALSE
    BY <2>6 DEF Cancel, ReleaseProbe
  <2>7. ASSUME Observe PROVE clock >= quietUntil
    <3>1. ~Shut(breaker, clock)
      BY <2>7 DEF Observe, WindowOpens, Shut
    <3>. QED  BY <2>1, <2>2, <3>1
  <2>8. ASSUME TripManually PROVE FALSE
    BY <2>1, <2>8 DEF TripManually, Trip, Breaker
  <2>9. CASE \/ \E c \in Callers : Begin(c) \/ Vanish(c)
             \/ Tick
             \/ UNCHANGED vars
    BY <2>9 DEF Begin, Vanish, Tick, vars
  <2>. QED
    BY <1>1, <2>3, <2>4, <2>5, <2>6, <2>7, <2>8, <2>9 DEF Next
<1>. QED  BY <1>1, Inductive, PTL DEF Spec, OpenHoldsForTimeout

-----------------------------------------------------------------------------
(* The gate.                                                               *)

Entered == {c \in Callers : pc[c] = "admitted"}

\* A call finds the breaker in a state that the gate expects: its time is not
\* ahead of the clock.
LEMMA CallFinds ==
    ASSUME IndInv, NEW n \in Nat, n <= clock
    PROVE  /\ Evaluate(breaker, n).state \in Gate!Found
           /\ ~Shut(breaker, n) => Gate!Found # {"OPEN"}
           /\ breaker.state \in Gate!Found
<1>1. /\ breaker \in Breaker /\ clock \in Nat /\ quietUntil \in Nat
      /\ breaker.state = "OPEN" =>
            quietUntil = breaker.tripped + RecoveryTimeout
  BY DEF IndInv, TypeOK, QuietInv
<1>2. CASE Evaluate(breaker, n) = breaker
  <2>1. ~Shut(breaker, n) => breaker.state # "OPEN"
    BY <1>2 DEF Shut
  <2>. QED  BY <1>2, <2>1 DEF Gate!Found
<1>3. CASE Evaluate(breaker, n) # breaker
  <2>1. /\ breaker.state = "OPEN"
        /\ Evaluate(breaker, n).state = "HALF_OPEN"
        /\ n >= breaker.tripped + RecoveryTimeout
    BY <1>1, <1>3, EvaluateEffect
  <2>2. clock >= quietUntil
    BY <1>1, <2>1
  <2>. QED  BY <2>1, <2>2 DEF Gate!Found
<1>. QED  BY <1>2, <1>3

\* What a report makes of the breaker it finds.
LEMMA SuccessFinds ==
    ASSUME NEW b \in Breaker, NEW n \in Nat
    PROVE  \/ RecordSuccess(b, n).state = Evaluate(b, n).state
           \/ /\ Evaluate(b, n).state = "HALF_OPEN"
              /\ RecordSuccess(b, n).state = "CLOSED"
<1>. DEFINE e == Evaluate(b, n)
            o == RecordSuccess(b, n)
<1>1. e \in Breaker /\ o \in Breaker
  BY EvaluateType, RecordSuccessType
<1>2. CASE e.state = "OPEN"
  BY <1>2, Zenon DEF RecordSuccess
<1>3. CASE e.state = "CLOSED"
  <2>1. o = [e EXCEPT !.failures = 0]
    BY <1>3, Zenon DEF RecordSuccess
  <2>. QED  BY <1>1, <2>1 DEF Breaker
<1>4. CASE e.state = "HALF_OPEN"
  <2>1. o.state = "OPEN" => o = b /\ Shut(b, n)
    BY RecordSuccessEffect
  <2>2. Shut(b, n) => e.state = "OPEN"
    BY DEF Shut
  <2>3. o.state \in {"CLOSED", "OPEN", "HALF_OPEN"}
    BY <1>1 DEF Breaker, BreakerStates
  <2>. QED  BY <1>4, <2>1, <2>2, <2>3
<1>5. e.state \in {"CLOSED", "OPEN", "HALF_OPEN"}
  BY <1>1 DEF Breaker, BreakerStates
<1>. QED  BY <1>2, <1>3, <1>4, <1>5

LEMMA FailureFinds ==
    ASSUME NEW b \in Breaker, NEW n \in Nat
    PROVE  \/ RecordFailure(b, n).state = Evaluate(b, n).state
           \/ RecordFailure(b, n).state = "OPEN"
<1>. DEFINE e == Evaluate(b, n)
            o == RecordFailure(b, n)
            counted == [e EXCEPT !.failures = @ + 1]
<1>1. e \in Breaker /\ counted \in Breaker
  BY EvaluateType, CountedType
<1>2. CASE e.state = "OPEN"
  BY <1>2, Zenon DEF RecordFailure
<1>3. CASE e.state = "CLOSED"
  <2>1. \/ o = counted
        \/ o = [counted EXCEPT !.state = "OPEN", !.tripped = n, !.probes = 0]
    BY <1>3, Zenon DEF RecordFailure
  <2>2. counted.state = e.state
    BY <1>1 DEF Breaker
  <2>3. [counted EXCEPT !.state = "OPEN", !.tripped = n,
                        !.probes = 0].state = "OPEN"
    BY <1>1 DEF Breaker
  <2>. QED  BY <2>1, <2>2, <2>3
<1>4. CASE e.state = "HALF_OPEN"
  <2>1. o = Trip(e, n)
    BY <1>4, Zenon DEF RecordFailure
  <2>2. Trip(e, n).state = "OPEN"
    BY <1>1 DEF Trip, Breaker
  <2>. QED  BY <2>1, <2>2
<1>5. e.state \in {"CLOSED", "OPEN", "HALF_OPEN"}
  BY <1>1 DEF Breaker, BreakerStates
<1>. QED  BY <1>2, <1>3, <1>4, <1>5

\* A step of the breaker is a step of the gate, or none.
LEMMA StepImplements == IndInv /\ [Next]_vars => [Gate!Next]_(Gate!vars)
<1>. SUFFICES ASSUME IndInv, [Next]_vars
              PROVE  [Gate!Next]_(Gate!vars)
  OBVIOUS
<1>0. /\ breaker \in Breaker /\ clock \in Nat
      /\ pc \in [Callers -> {"idle", "begun", "admitted"}]
      /\ \A c \in Callers : now[c] \in Nat /\ now[c] <= clock
  BY DEF IndInv, TypeOK, TimeInv
<1>1. ASSUME NEW c \in Callers, Begin(c) PROVE UNCHANGED Gate!vars
  <2>1. Entered' = Entered
    BY <1>0, <1>1 DEF Begin, Entered
  <2>. QED  BY <1>1, <2>1 DEF Begin, Gate!vars, Entered
<1>2. ASSUME NEW c \in Callers, CheckExecutionAllowed(c) PROVE Gate!Next
  <2>. DEFINE n == now[c]
              e == Evaluate(breaker, n)
  <2>1. /\ n \in Nat /\ e.state \in Gate!Found
        /\ breaker' = Admit(breaker, n)
        /\ Admit(breaker, n).state = e.state
        /\ Admit(breaker, n).state = "OPEN" =>
              Admit(breaker, n) = breaker /\ Shut(breaker, n)
    BY <1>0, <1>2, CallFinds, AdmitEffect DEF CheckExecutionAllowed, Becomes
  <2>2. breaker'.state \in Gate!Found
    BY <2>1
  <2>3. UNCHANGED <<clock, quietUntil>>
    BY <1>2, <2>1 DEF CheckExecutionAllowed, Becomes, WindowOpens, Shut
  <2>4. CASE Admits(breaker, n)
    <3>1. e.state # "OPEN"
      BY <2>4, Zenon DEF Admits
    <3>2. Entered' = Entered \cup {c} /\ c \notin Entered
      BY <1>0, <1>2, <2>4 DEF CheckExecutionAllowed, Entered
    <3>3. Gate!Enter(c)
      BY <2>1, <2>2, <2>3, <3>1, <3>2 DEF Gate!Enter, Entered
    <3>. QED  BY <3>3 DEF Gate!Next
  <2>5. CASE ~Admits(breaker, n)
    <3>1. Entered' = Entered
      BY <1>0, <1>2, <2>5 DEF CheckExecutionAllowed, Entered
    <3>2. Gate!Look
      BY <2>2, <2>3, <3>1 DEF Gate!Look, Entered
    <3>. QED  BY <3>2 DEF Gate!Next
  <2>. QED  BY <2>4, <2>5
\* A call that ends has been inside.
<1>3. ASSUME NEW c \in Callers, pc[c] = "admitted",
             pc' = [pc EXCEPT ![c] = "idle"]
      PROVE  c \in Entered /\ Entered' = Entered \ {c}
  BY <1>0, <1>3 DEF Entered
<1>4. ASSUME NEW c \in Callers, ReportSuccess(c) PROVE Gate!Next
  <2>. DEFINE n == now[c]
              e == Evaluate(breaker, n)
              o == RecordSuccess(breaker, n)
  <2>1. /\ n \in Nat /\ e.state \in Gate!Found
        /\ \/ o.state = e.state
           \/ e.state = "HALF_OPEN" /\ o.state = "CLOSED"
        /\ o.state = "OPEN" => o = breaker /\ Shut(breaker, n)
    <3>1. n \in Nat /\ n <= clock
      BY <1>0
    <3>2. e.state \in Gate!Found
      BY <3>1, CallFinds
    <3>3. \/ o.state = e.state
          \/ e.state = "HALF_OPEN" /\ o.state = "CLOSED"
      BY <1>0, <3>1, SuccessFinds
    <3>4. o.state = "OPEN" => o = breaker /\ Shut(breaker, n)
      BY <1>0, <3>1, RecordSuccessEffect
    <3>. QED  BY <3>1, <3>2, <3>3, <3>4
  <2>0. breaker' = o
    BY <1>4 DEF ReportSuccess, Becomes
  <2>2. UNCHANGED <<clock, quietUntil>>
    BY <1>4, <2>0, <2>1 DEF ReportSuccess, Becomes, WindowOpens, Shut
  <2>3. c \in Entered /\ Entered' = Entered \ {c}
    BY <1>3, <1>4 DEF ReportSuccess
  <2>. HIDE DEF e, o
  <2>4. Gate!Leave(c)
    BY <2>0, <2>1, <2>2, <2>3 DEF Gate!Leave, Entered
  <2>. QED  BY <2>4 DEF Gate!Next
<1>5. ASSUME NEW c \in Callers, ReportFailure(c) PROVE Gate!Next
  <2>. DEFINE n == now[c]
              e == Evaluate(breaker, n)
              o == RecordFailure(breaker, n)
  <2>1. /\ n \in Nat /\ n \in 0..clock /\ e.state \in Gate!Found
        /\ breaker.state \in Gate!Found
        /\ ~Shut(breaker, n) => Gate!Found # {"OPEN"}
        /\ breaker' = o
        /\ o.state = e.state \/ o.state = "OPEN"
        /\ Shut(breaker, n) => o = breaker
    BY <1>0, <1>5, CallFinds, FailureFinds, RecordFailureEffect
       DEF ReportFailure, Becomes
  <2>2. /\ clock' = clock
        /\ quietUntil' = IF o.state = "OPEN" /\ ~Shut(breaker, n)
                         THEN n + RecoveryTimeout
                         ELSE quietUntil
    <3>1. WindowOpens(n) <=> breaker.state = "OPEN" /\ ~Shut(breaker, n)
      BY DEF WindowOpens, Shut
    <3>2. breaker.state # "OPEN" => ~Shut(breaker, n)
      BY DEF Shut
    <3>. QED  BY <1>5, <3>1, <3>2 DEF ReportFailure, Becomes
  <2>3. c \in Entered /\ Entered' = Entered \ {c}
    BY <1>3, <1>5 DEF ReportFailure
  <2>. HIDE DEF e, o
  <2>4. CASE o.state = "OPEN" /\ ~Shut(breaker, n)
    BY <2>1, <2>2, <2>3, <2>4 DEF Gate!Leave, Gate!Next, Entered
  <2>5. CASE ~(o.state = "OPEN" /\ ~Shut(breaker, n))
    <3>1. breaker'.state \in Gate!Found /\ quietUntil' = quietUntil
      BY <2>1, <2>2, <2>5
    <3>2. Gate!Leave(c)
      BY <2>2, <2>3, <3>1 DEF Gate!Leave, Entered
    <3>. QED  BY <3>2 DEF Gate!Next
  <2>. QED  BY <2>4, <2>5
<1>6. ASSUME NEW c \in Callers, Cancel(c) \/ Vanish(c) PROVE Gate!Next
  <2>1. /\ breaker'.state = breaker.state
        /\ UNCHANGED <<clock, quietUntil>>
    BY <1>0, <1>6 DEF Cancel, Vanish, ReleaseProbe, Breaker
  <2>2. c \in Entered /\ Entered' = Entered \ {c}
    BY <1>3, <1>6 DEF Cancel, Vanish
  <2>3. breaker.state \in Gate!Found
    BY DEF Gate!Found
  <2>4. Gate!Leave(c)
    BY <2>1, <2>2, <2>3 DEF Gate!Leave, Entered
  <2>. QED  BY <2>4 DEF Gate!Next
<1>7. ASSUME Observe PROVE Gate!Next
  <2>1. breaker'.state \in Gate!Found /\ breaker'.state = "HALF_OPEN"
    BY <1>0, <1>7, CallFinds, EvaluateEffect DEF Observe, Becomes, WindowOpens
  <2>2. UNCHANGED <<clock, quietUntil, pc>>
    BY <1>7, <2>1 DEF Observe, Becomes
  <2>3. Gate!Look
    BY <2>1, <2>2 DEF Gate!Look
  <2>. QED  BY <2>3 DEF Gate!Next
<1>8. ASSUME TripManually PROVE Gate!Next
  <2>1. breaker'.state = "OPEN"
    BY <1>0, <1>8 DEF TripManually, Trip, Breaker
  <2>2. Gate!TripManually
    BY <1>8, <2>1 DEF TripManually, Gate!TripManually
  <2>. QED  BY <2>2 DEF Gate!Next
<1>9. ASSUME ResetBreaker PROVE Gate!Next
  <2>1. Gate!ResetBreaker
    BY <1>9 DEF ResetBreaker, Reset, NewBreaker, Gate!ResetBreaker
  <2>. QED  BY <2>1 DEF Gate!Next
<1>10. ASSUME Tick PROVE Gate!Next
  <2>1. Gate!Tick
    BY <1>10 DEF Tick, Gate!Tick
  <2>. QED  BY <2>1 DEF Gate!Next
<1>11. CASE UNCHANGED vars
  BY <1>11 DEF vars, Gate!vars
<1>. QED
  BY <1>1, <1>2, <1>4, <1>5, <1>6, <1>7, <1>8, <1>9, <1>10, <1>11 DEF Next

\* The breaker implements the gate: no report that comes late or never, and no
\* old time that a caller passes, lets a call in before the timeout.
THEOREM Refinement == Spec => ImplementsGate
<1>1. Init => Gate!Init
  BY DEF Init, Gate!Init, NewBreaker
<1>. QED
  BY <1>1, StepImplements, Inductive, PTL DEF Spec, ImplementsGate, Gate!Spec

=============================================================================
