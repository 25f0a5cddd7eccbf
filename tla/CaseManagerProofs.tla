------------------------- MODULE CaseManagerProofs --------------------------
(***************************************************************************)
(* What the registry of cases keeps for any threads, cases and limits.     *)
(*                                                                         *)
(* The audit trail follows a case because the thread whose transition is   *)
(* not logged yet is the holder of the case's lock (LockInv), so that the  *)
(* next transition starts from where the trail leads.  A freeze is not     *)
(* bypassed because the states a case has been in since are, whatever      *)
(* state it is in now, those that lead there (VisitInv).                   *)
(***************************************************************************)
EXTENDS CaseManager, TLAPS, FiniteSetTheorems

\* t is about to log the creation, or a transition, of the case.
Creating(t, c) == t \in Writing(c, "CASE_CREATED")

Moving(t, c) == t \in Writing(c, "CASE_TRANSITIONED")

\* An entry is only ever about a case that is registered, and a transition is
\* logged by the holder of the lock.
LockInv ==
    /\ \A t \in Threads : pending[t] # None => cases[pending[t].case] # None
    /\ \A c \in CaseIds, t \in Threads : locks[c] = t <=> Moving(t, c)

\* The creation of a case is logged, or one thread is about to.
Born(c) ==
    \/ trail[c].created = 1 /\ \A t \in Threads : ~Creating(t, c)
    \/ /\ trail[c].created = 0
       /\ \E t \in Threads : \A u \in Threads : Creating(u, c) <=> u = t

\* The trail leads to the case, or to where the entry about to be logged
\* starts.
Followed(c) ==
    /\ trail[c].chained
    /\ (\A t \in Threads : ~Moving(t, c)) =>
          /\ trail[c].state = cases[c].state
          /\ trail[c].at <= cases[c].updated
    /\ \A t \in Threads : Moving(t, c) =>
          /\ pending[t].from = trail[c].state
          /\ pending[t].to = cases[c].state
          /\ pending[t].at = cases[c].updated
          /\ trail[c].at <= pending[t].at

TrailInv ==
    \A c \in CaseIds :
        IF cases[c] = None
        THEN trail[c] = [created |-> 0, state |-> "OPEN", at |-> 0,
                         chained |-> TRUE]
        ELSE Born(c) /\ Followed(c)

\* The states on the way to a state.
Way(s) ==
    CASE s = "DIAGNOSED"  -> {"DIAGNOSED"}
      [] s = "EVALUATING" -> {"DIAGNOSED", "EVALUATING"}
      [] s \in {"SCHEDULED", "EXECUTING", "RECONCILING"} ->
            {"DIAGNOSED", "EVALUATING", "SCHEDULED"}
      [] OTHER -> {}

VisitInv ==
    \A c \in CaseIds : cases[c] # None => Way(cases[c].state) \subseteq visited[c]

IndInv == TypeOK /\ LockInv /\ TrailInv /\ VisitInv

-----------------------------------------------------------------------------
(* The steps.                                                              *)

\* A step creates a case, moves one, appends an entry, or touches neither.
LEMMA StepKinds ==
    ASSUME TypeOK, [Next]_vars
    PROVE  \/ \E t \in Threads, c \in CaseIds, n \in Nat : CreateCase(t, c, n)
           \/ /\ \E t \in Threads, c \in CaseIds, target \in States,
                    increment \in BOOLEAN, n \in Nat :
                       Transition(t, c, target, increment, n)
              /\ checked' \in [Threads -> Unfreezing \cup {None}]
           \/ \E t \in Threads : AppendAudit(t)
           \/ /\ UNCHANGED <<cases, locks, pending, trail, visited>>
              /\ clock' \in Nat
              /\ checked' \in [Threads -> Unfreezing \cup {None}]
<1>. DEFINE Kinds ==
           \/ \E t \in Threads, c \in CaseIds, n \in Nat : CreateCase(t, c, n)
           \/ /\ \E t \in Threads, c \in CaseIds, target \in States,
                    increment \in BOOLEAN, n \in Nat :
                       Transition(t, c, target, increment, n)
              /\ checked' \in [Threads -> Unfreezing \cup {None}]
           \/ \E t \in Threads : AppendAudit(t)
           \/ /\ UNCHANGED <<cases, locks, pending, trail, visited>>
              /\ clock' \in Nat
              /\ checked' \in [Threads -> Unfreezing \cup {None}]
<1>0. /\ clock \in Nat
      /\ checked \in [Threads -> Unfreezing \cup {None}]
  BY DEF TypeOK
<1>1. ASSUME NEW t \in Threads, NEW c \in CaseIds, NEW n \in 0..clock,
             CreateCase(t, c, n)
      PROVE  Kinds
  <2>1. n \in Nat
    BY <1>0
  <2>. QED  BY <1>1, <2>1
<1>2. ASSUME NEW t \in Threads, NEW c \in CaseIds, NEW n \in 0..clock,
             NEW target \in States, NEW increment \in BOOLEAN,
             TransitionCase(t, c, target, increment, n)
      PROVE  Kinds
  <2>1. n \in Nat
    BY <1>0
  <2>. QED  BY <1>0, <1>2, <2>1 DEF TransitionCase
<1>3. ASSUME NEW t \in Threads, NEW c \in CaseIds, NEW target \in States,
             CheckFrozen(t, c, target)
      PROVE  Kinds
  BY <1>0, <1>3 DEF CheckFrozen, Unfreezing
<1>4. ASSUME NEW t \in Threads, NEW n \in 0..clock, UnfreezeCase(t, n)
      PROVE  Kinds
  <2>1. n \in Nat
    BY <1>0
  <2>2. checked[t] \in Unfreezing
    BY <1>0, <1>4 DEF UnfreezeCase
  <2>3. checked[t].case \in CaseIds /\ checked[t].target \in States
    BY <2>2 DEF Unfreezing, States
  <2>4. checked' \in [Threads -> Unfreezing \cup {None}]
    BY <1>0, <1>4 DEF UnfreezeCase
  <2>5. Transition(t, checked[t].case, checked[t].target, FALSE, n)
    BY <1>4 DEF UnfreezeCase
  <2>. QED  BY <2>1, <2>3, <2>4, <2>5
<1>5. ASSUME NEW t \in Threads, UnfreezeRefused(t) PROVE Kinds
  BY <1>0, <1>5 DEF UnfreezeRefused
<1>6. CASE Tick
  BY <1>0, <1>6 DEF Tick
<1>7. CASE UNCHANGED vars
  BY <1>0, <1>7 DEF vars
<1>8. CASE \E t \in Threads, c \in CaseIds, n \in 0..clock :
             \/ CreateCase(t, c, n)
             \/ \E target \in States, increment \in BOOLEAN :
                   TransitionCase(t, c, target, increment, n)
  BY <1>1, <1>2, <1>8
<1>9. CASE \E t \in Threads, c \in CaseIds, target \in States :
             CheckFrozen(t, c, target)
  BY <1>3, <1>9
<1>10. CASE \E t \in Threads :
              \/ \E n \in 0..clock : UnfreezeCase(t, n)
              \/ UnfreezeRefused(t)
  BY <1>4, <1>5, <1>10
<1>. QED  BY <1>6, <1>7, <1>8, <1>9, <1>10 DEF Next

\* What a transition makes of a case, and the entry it is about to log.
LEMMA Moved ==
    ASSUME TypeOK, NEW t \in Threads, NEW c \in CaseIds, NEW target \in States,
           NEW increment \in BOOLEAN, NEW n \in Nat,
           Transition(t, c, target, increment, n)
    PROVE  /\ cases[c] \in Case /\ cases[c] # None
           /\ cases'[c] \in Case /\ cases'[c] # None
           /\ cases'[c].state = target
           /\ target \in Allowed(cases[c].state)
           /\ cases[c].state \notin Terminal
           /\ cases'[c].attempts >= cases[c].attempts
           /\ cases'[c].updated >= cases[c].updated
           /\ cases' = [cases EXCEPT ![c] = cases'[c]]
           /\ pending'[t] \in TransitionEntry
           /\ pending'[t].type = "CASE_TRANSITIONED"
           /\ pending'[t].case = c
           /\ pending'[t].from = cases[c].state
           /\ pending'[t].to = target
           /\ pending'[t].at = cases'[c].updated
           /\ pending' = [pending EXCEPT ![t] = pending'[t]]
           /\ pending[t] = None /\ locks[c] = None
           /\ locks' = [locks EXCEPT ![c] = t]
           /\ UNCHANGED <<clock, trail>>
<1>. DEFINE at == Stamp(cases[c], n)
            moved == [state |-> target,
                      attempts |-> IF increment THEN cases[c].attempts + 1
                                                ELSE cases[c].attempts,
                      updated |-> at]
            entry == [type |-> "CASE_TRANSITIONED", case |-> c,
                      from |-> cases[c].state, to |-> target, at |-> at]
<1>1. cases[c] \in Case /\ cases[c] # None
  BY DEF Transition, TypeOK
<1>2. at \in Nat /\ at >= cases[c].updated
  BY <1>1 DEF Stamp, Case
<1>3. moved \in Case /\ moved.attempts >= cases[c].attempts
  BY <1>1, <1>2, CaseAssumption DEF Transition, CountsAttempt, Case
<1>4. entry \in TransitionEntry
  BY <1>1, <1>2 DEF TransitionEntry, Case
<1>5. cases' = [cases EXCEPT ![c] = moved] /\ cases'[c] = moved
  BY DEF Transition, TypeOK
<1>6. pending' = [pending EXCEPT ![t] = entry] /\ pending'[t] = entry
  BY DEF Transition, TypeOK
<1>7. /\ target \in Allowed(cases[c].state)
      /\ cases[c].state \notin Terminal
      /\ pending[t] = None /\ locks[c] = None
      /\ locks' = [locks EXCEPT ![c] = t]
      /\ UNCHANGED <<clock, trail>>
  BY DEF Transition, LockFor
<1>8. moved # None
  BY <1>3, CaseAssumption
<1>9. moved.state = target /\ moved.updated = at
  OBVIOUS
<1>10. /\ entry.type = "CASE_TRANSITIONED" /\ entry.case = c
       /\ entry.from = cases[c].state /\ entry.to = target /\ entry.at = at
  OBVIOUS
<1>. HIDE DEF at, moved, entry
<1>. QED
  BY <1>1, <1>2, <1>3, <1>4, <1>5, <1>6, <1>7, <1>8, <1>9, <1>10

\* The entry of an AppendAudit, and what becomes of it.
LEMMA Appended ==
    ASSUME TypeOK, LockInv, NEW t \in Threads, AppendAudit(t)
    PROVE  LET e == pending[t]
           IN  /\ e # None /\ e.case \in CaseIds
               /\ \/ e = Creation(e.case)
                  \/ e \in TransitionEntry
               /\ trail' = [trail EXCEPT ![e.case] = Extend(trail[e.case], e)]
               /\ pending' = [pending EXCEPT ![t] = None]
               /\ locks' = IF locks[e.case] = t
                           THEN [locks EXCEPT ![e.case] = None] ELSE locks
               /\ UNCHANGED <<clock, cases, checked, visited>>
<1>1. pending[t] # None
  BY DEF AppendAudit
<1>2. pending[t] \in {Creation(c) : c \in CaseIds} \cup TransitionEntry
  BY <1>1 DEF TypeOK
<1>3. /\ pending[t].case \in CaseIds
      /\ pending[t] = Creation(pending[t].case) \/ pending[t] \in TransitionEntry
  BY <1>2 DEF Creation, TransitionEntry
<1>. QED  BY <1>1, <1>3 DEF AppendAudit

-----------------------------------------------------------------------------
(* The invariant.                                                          *)

LEMMA TypeStep ==
    ASSUME TypeOK, LockInv, [Next]_vars
    PROVE  TypeOK'
<1>1. ASSUME NEW t \in Threads, NEW c \in CaseIds, NEW n \in Nat,
             CreateCase(t, c, n)
      PROVE  TypeOK'
  <2>1. [state |-> "OPEN", attempts |-> 0, updated |-> n] \in Case
    BY CaseAssumption DEF Case, States
  <2>2. "OPEN" \in States
    BY DEF States
  <2>. QED  BY <1>1, <2>1, <2>2 DEF CreateCase, TypeOK
<1>2. ASSUME NEW t \in Threads, NEW c \in CaseIds, NEW target \in States,
             NEW increment \in BOOLEAN, NEW n \in Nat,
             Transition(t, c, target, increment, n),
             checked' \in [Threads -> Unfreezing \cup {None}]
      PROVE  TypeOK'
  <2>1. visited' \in [CaseIds -> SUBSET States]
    BY <1>2 DEF Transition, TypeOK
  <2>2. cases' \in [CaseIds -> Case \cup {None}]
    BY <1>2, Moved DEF TypeOK
  <2>3. locks' \in [CaseIds -> Threads \cup {None}]
    BY <1>2, Moved DEF TypeOK
  <2>4. pending' \in [Threads -> {Creation(d) : d \in CaseIds}
                                 \cup TransitionEntry \cup {None}]
    BY <1>2, Moved DEF TypeOK
  <2>5. clock' = clock /\ trail' = trail
    BY <1>2, Moved
  <2>. QED  BY <1>2, <2>1, <2>2, <2>3, <2>4, <2>5 DEF TypeOK
<1>3. ASSUME NEW t \in Threads, AppendAudit(t) PROVE TypeOK'
  <2>. DEFINE e == pending[t]
  <2>1. Extend(trail[e.case], e) \in Trail
    <3>1. trail[e.case] \in Trail
      BY <1>3, Appended DEF TypeOK
    <3>2. CASE e = Creation(e.case)
      BY <3>1, <3>2 DEF Extend, Creation, Trail
    <3>3. CASE e \in TransitionEntry
      BY <3>1, <3>3 DEF Extend, TransitionEntry, Trail
    <3>. QED  BY <1>3, <3>2, <3>3, Appended
  <2>. HIDE DEF e
  <2>2. trail' \in [CaseIds -> Trail]
    BY <1>3, <2>1, Appended DEF TypeOK, e
  <2>3. locks' \in [CaseIds -> Threads \cup {None}]
    BY <1>3, Appended DEF TypeOK
  <2>4. pending' \in [Threads -> {Creation(d) : d \in CaseIds}
                                 \cup TransitionEntry \cup {None}]
    BY <1>3, Appended DEF TypeOK
  <2>5. UNCHANGED <<clock, cases, checked, visited>>
    BY <1>3, Appended
  <2>. QED  BY <2>2, <2>3, <2>4, <2>5 DEF TypeOK
<1>4. ASSUME UNCHANGED <<cases, locks, pending, trail, visited>>,
             clock' \in Nat,
             checked' \in [Threads -> Unfreezing \cup {None}]
      PROVE  TypeOK'
  BY <1>4 DEF TypeOK
<1>. QED  BY <1>1, <1>2, <1>3, <1>4, StepKinds

\* Who is about to log what.
LEMMA WritingMeans ==
    ASSUME NEW t \in Threads, NEW c
    PROVE  /\ Creating(t, c) <=> /\ pending[t] # None
                                 /\ pending[t].case = c
                                 /\ pending[t].type = "CASE_CREATED"
           /\ Moving(t, c) <=> /\ pending[t] # None
                               /\ pending[t].case = c
                               /\ pending[t].type = "CASE_TRANSITIONED"
BY DEF Creating, Moving, Writing

LEMMA WritingMeansNext ==
    ASSUME NEW t \in Threads, NEW c
    PROVE  /\ Creating(t, c)' <=> /\ pending'[t] # None
                                  /\ pending'[t].case = c
                                  /\ pending'[t].type = "CASE_CREATED"
           /\ Moving(t, c)' <=> /\ pending'[t] # None
                                /\ pending'[t].case = c
                                /\ pending'[t].type = "CASE_TRANSITIONED"
BY DEF Creating, Moving, Writing

\* How a creation changes who is about to log what.
LEMMA WritersCreate ==
    ASSUME TypeOK, NEW t \in Threads, NEW c \in CaseIds, NEW n \in Nat,
           CreateCase(t, c, n), NEW u \in Threads, NEW d \in CaseIds
    PROVE  /\ Creating(u, d)' <=> Creating(u, d) \/ (u = t /\ d = c)
           /\ Moving(u, d)' <=> Moving(u, d)
           /\ ~Creating(t, d) /\ ~Moving(t, d)
<1>1. /\ pending[t] = None
      /\ pending' = [pending EXCEPT ![t] = Creation(c)]
  BY DEF CreateCase, Idle
<1>2. Creation(c) # None
  BY CaseAssumption
<1>3. Creation(c).type = "CASE_CREATED" /\ Creation(c).case = c
  BY DEF Creation
<1>4. CASE u = t
  <2>1. pending'[u] = Creation(c)
    BY <1>1, <1>4 DEF TypeOK
  <2>. QED
    BY <1>1, <1>2, <1>3, <1>4, <2>1, WritingMeans, WritingMeansNext
<1>5. CASE u # t
  <2>1. pending'[u] = pending[u]
    BY <1>1, <1>5 DEF TypeOK
  <2>. QED  BY <1>1, <1>5, <2>1, WritingMeans, WritingMeansNext
<1>. QED  BY <1>4, <1>5

\* How a transition does.
LEMMA WritersMove ==
    ASSUME TypeOK, NEW t \in Threads, NEW c \in CaseIds, NEW target \in States,
           NEW increment \in BOOLEAN, NEW n \in Nat,
           Transition(t, c, target, increment, n),
           NEW u \in Threads, NEW d \in CaseIds
    PROVE  /\ Creating(u, d)' <=> Creating(u, d)
           /\ Moving(u, d)' <=> Moving(u, d) \/ (u = t /\ d = c)
           /\ ~Creating(t, d) /\ ~Moving(t, d)
           /\ u # t => pending'[u] = pending[u]
<1>1. pending[t] = None /\ pending' = [pending EXCEPT ![t] = pending'[t]]
  BY Moved
<1>2. /\ pending'[t] # None
      /\ pending'[t].type = "CASE_TRANSITIONED" /\ pending'[t].case = c
  BY Moved, CaseAssumption
<1>3. u # t => pending'[u] = pending[u]
  BY <1>1 DEF TypeOK
<1>4. CASE u = t
  BY <1>1, <1>2, <1>4, WritingMeans, WritingMeansNext
<1>5. CASE u # t
  BY <1>1, <1>3, <1>5, WritingMeans, WritingMeansNext
<1>. QED  BY <1>3, <1>4, <1>5

\* How an entry that is appended does.
LEMMA WritersAppend ==
    ASSUME TypeOK, LockInv, NEW t \in Threads, AppendAudit(t),
           NEW u \in Threads, NEW d
    PROVE  /\ Creating(u, d)' <=> Creating(u, d) /\ u # t
           /\ Moving(u, d)' <=> Moving(u, d) /\ u # t
           /\ u # t => pending'[u] = pending[u]
<1>1. pending' = [pending EXCEPT ![t] = None]
  BY Appended
<1>2. /\ u # t => pending'[u] = pending[u]
      /\ u = t => pending'[u] = None
  BY <1>1 DEF TypeOK
<1>3. CASE u = t
  BY <1>2, <1>3, WritingMeans, WritingMeansNext
<1>4. CASE u # t
  BY <1>2, <1>4, WritingMeans, WritingMeansNext
<1>. QED  BY <1>2, <1>3, <1>4

LEMMA LockStep ==
    ASSUME TypeOK, LockInv, [Next]_vars
    PROVE  LockInv'
<1>. DEFINE Registered == \A t \in Threads : pending'[t] # None =>
                             cases'[pending'[t].case] # None
            Held == \A c \in CaseIds, t \in Threads :
                       locks'[c] = t <=> Moving(t, c)'
<1>1. ASSUME NEW t \in Threads, NEW c \in CaseIds, NEW n \in Nat,
             CreateCase(t, c, n)
      PROVE  LockInv'
  <2>1. Registered
    <3>1. [state |-> "OPEN", attempts |-> 0, updated |-> n] # None
      BY CaseAssumption DEF Case, States
    <3>2. Creation(c).case = c
      BY DEF Creation
    <3>. QED  BY <1>1, <3>1, <3>2 DEF CreateCase, TypeOK, LockInv
  <2>2. Held
    <3>1. locks' = locks
      BY <1>1 DEF CreateCase
    <3>. QED  BY <1>1, <3>1, WritersCreate DEF LockInv
  <2>. QED  BY <2>1, <2>2 DEF LockInv
<1>2. ASSUME NEW t \in Threads, NEW c \in CaseIds, NEW target \in States,
             NEW increment \in BOOLEAN, NEW n \in Nat,
             Transition(t, c, target, increment, n)
      PROVE  LockInv'
  <2>1. Registered
    <3>1. /\ cases' = [cases EXCEPT ![c] = cases'[c]] /\ cases'[c] # None
          /\ pending' = [pending EXCEPT ![t] = pending'[t]]
          /\ pending'[t].case = c
      BY <1>2, Moved
    <3>2. ASSUME NEW u \in Threads, pending'[u] # None
          PROVE  cases'[pending'[u].case] # None
      <4>1. CASE u = t
        BY <3>1, <4>1
      <4>2. CASE u # t
        <5>1. pending'[u] = pending[u] /\ cases[pending[u].case] # None
          BY <3>1, <3>2, <4>2 DEF TypeOK, LockInv
        <5>2. CASE pending[u].case = c
          BY <3>1, <5>1, <5>2
        <5>3. CASE pending[u].case # c
          <6>1. pending[u].case \in CaseIds
            BY <3>2, <5>1 DEF TypeOK, Creation, TransitionEntry
          <6>. QED  BY <3>1, <5>1, <5>3, <6>1 DEF TypeOK
        <5>. QED  BY <5>2, <5>3
      <4>. QED  BY <4>1, <4>2
    <3>. QED  BY <3>2
  <2>2. Held
    <3>. SUFFICES ASSUME NEW d \in CaseIds, NEW u \in Threads
                  PROVE  locks'[d] = u <=> Moving(u, d)'
      OBVIOUS
    <3>1. locks[c] = None /\ locks' = [locks EXCEPT ![c] = t]
      BY <1>2, Moved
    <3>2. Moving(u, d)' <=> Moving(u, d) \/ (u = t /\ d = c)
      BY <1>2, WritersMove
    <3>3. ~Moving(u, c)
      BY <3>1, CaseAssumption DEF LockInv
    <3>. QED  BY <3>1, <3>2, <3>3 DEF LockInv, TypeOK
  <2>. QED  BY <2>1, <2>2 DEF LockInv
<1>3. ASSUME NEW t \in Threads, AppendAudit(t) PROVE LockInv'
  <2>. DEFINE c == pending[t].case
  <2>1. /\ pending[t] # None /\ c \in CaseIds
        /\ pending' = [pending EXCEPT ![t] = None]
        /\ locks' = IF locks[c] = t THEN [locks EXCEPT ![c] = None] ELSE locks
        /\ cases' = cases
    BY <1>3, Appended
  <2>2. Registered
    BY <2>1 DEF TypeOK, LockInv
  <2>3. Held
    <3>. SUFFICES ASSUME NEW d \in CaseIds, NEW u \in Threads
                  PROVE  locks'[d] = u <=> Moving(u, d)'
      OBVIOUS
    <3>1. Moving(u, d)' <=> Moving(u, d) /\ u # t
      BY <1>3, WritersAppend
    <3>2. locks[d] = t => d = c
      BY WritingMeans DEF LockInv
    <3>3. u # None
      BY CaseAssumption
    <3>. QED  BY <2>1, <3>1, <3>2, <3>3 DEF LockInv, TypeOK
  <2>. QED  BY <2>2, <2>3 DEF LockInv
<1>4. CASE UNCHANGED <<cases, locks, pending, trail, visited>>
  BY <1>4 DEF LockInv, Moving, Writing
<1>. QED  BY <1>1, <1>2, <1>3, <1>4, StepKinds

LEMMA TrailStep ==
    ASSUME TypeOK, LockInv, TrailInv, [Next]_vars
    PROVE  TrailInv'
<1>. DEFINE Goal(d) ==
              IF cases'[d] = None
              THEN trail'[d] = [created |-> 0, state |-> "OPEN", at |-> 0,
                                chained |-> TRUE]
              ELSE Born(d)' /\ Followed(d)'
\* What is the same about a case is kept.
<1>0. ASSUME NEW d \in CaseIds, cases'[d] = cases[d], trail'[d] = trail[d],
             \A u \in Threads : Creating(u, d)' <=> Creating(u, d),
             \A u \in Threads : Moving(u, d)' <=> Moving(u, d),
             \A u \in Threads : Moving(u, d) => pending'[u] = pending[u]
      PROVE  Goal(d)
  BY <1>0 DEF TrailInv, Born, Followed
<1>1. ASSUME NEW t \in Threads, NEW c \in CaseIds, NEW n \in Nat,
             CreateCase(t, c, n), NEW d \in CaseIds
      PROVE  Goal(d)
  <2>1. /\ cases[c] = None /\ pending[t] = None /\ trail' = trail
        /\ pending' = [pending EXCEPT ![t] = Creation(c)]
        /\ cases' = [cases EXCEPT ![c] = [state |-> "OPEN", attempts |-> 0,
                                          updated |-> n]]
    BY <1>1 DEF CreateCase, Idle
  <2>2. CASE d # c
    <3>1. cases'[d] = cases[d]
      BY <2>1, <2>2 DEF TypeOK
    <3>2. \A u \in Threads : Moving(u, d) => pending'[u] = pending[u]
      BY <2>1, WritingMeans DEF TypeOK
    <3>. QED  BY <1>0, <1>1, <2>1, <2>2, <3>1, <3>2, WritersCreate
  <2>3. CASE d = c
    <3>1. \A u \in Threads : ~Creating(u, c) /\ ~Moving(u, c)
      BY <2>1, WritingMeans DEF LockInv
    <3>2. \A u \in Threads : (Creating(u, c)' <=> u = t) /\ ~Moving(u, c)'
      BY <1>1, <3>1, WritersCreate
    <3>3. trail'[c] = [created |-> 0, state |-> "OPEN", at |-> 0,
                       chained |-> TRUE]
      BY <2>1 DEF TrailInv
    <3>4. cases'[c].state = "OPEN" /\ cases'[c].updated = n
      BY <2>1 DEF TypeOK
    <3>5. Born(c)'
      BY <3>2, <3>3 DEF Born
    <3>6. Followed(c)'
      BY <3>2, <3>3, <3>4 DEF Followed
    <3>7. cases'[c] # None
      BY <2>1, CaseAssumption DEF TypeOK, Case, States
    <3>. QED  BY <2>3, <3>5, <3>6, <3>7
  <2>. QED  BY <2>2, <2>3
<1>2. ASSUME NEW t \in Threads, NEW c \in CaseIds, NEW target \in States,
             NEW increment \in BOOLEAN, NEW n \in Nat,
             Transition(t, c, target, increment, n), NEW d \in CaseIds
      PROVE  Goal(d)
  <2>1. /\ cases[c] \in Case /\ cases[c] # None /\ cases'[c] # None
        /\ cases' = [cases EXCEPT ![c] = cases'[c]]
        /\ cases'[c].state = target
        /\ cases'[c].updated >= cases[c].updated
        /\ cases'[c] \in Case
        /\ locks[c] = None /\ trail' = trail
        /\ pending'[t].from = cases[c].state
        /\ pending'[t].to = target
        /\ pending'[t].at = cases'[c].updated
    BY <1>2, Moved
  <2>2. CASE d # c
    <3>1. cases'[d] = cases[d] /\ trail'[d] = trail[d]
      BY <2>1, <2>2 DEF TypeOK
    <3>2. \A u \in Threads : /\ Creating(u, d)' <=> Creating(u, d)
                             /\ Moving(u, d)' <=> Moving(u, d)
                             /\ Moving(u, d) => pending'[u] = pending[u]
      BY <1>2, <2>2, WritersMove
    <3>. QED  BY <1>0, <3>1, <3>2
  <2>3. CASE d = c
    <3>1. \A u \in Threads : ~Moving(u, c)
      BY <2>1, CaseAssumption DEF LockInv
    <3>2. \A u \in Threads : /\ Creating(u, c)' <=> Creating(u, c)
                             /\ Moving(u, c)' <=> u = t
      BY <1>2, <3>1, WritersMove
    <3>3. Born(c) /\ Followed(c)
      BY <2>1 DEF TrailInv
    <3>4. /\ trail[c].chained /\ trail[c].state = cases[c].state
          /\ trail[c].at <= cases[c].updated
      BY <3>1, <3>3 DEF Followed
    <3>5. trail[c].at \in Nat /\ cases[c].updated \in Nat
          /\ cases'[c].updated \in Nat
      BY <2>1 DEF TypeOK, Trail, Case
    <3>6. Born(c)'
      BY <2>1, <3>2, <3>3 DEF Born
    <3>7. Followed(c)'
      BY <2>1, <3>2, <3>4, <3>5 DEF Followed
    <3>. QED  BY <2>1, <2>3, <3>6, <3>7
  <2>. QED  BY <2>2, <2>3
<1>3. ASSUME NEW t \in Threads, AppendAudit(t), NEW d \in CaseIds
      PROVE  Goal(d)
  <2>. DEFINE e == pending[t]
  <2>1. /\ e # None /\ e.case \in CaseIds
        /\ e = Creation(e.case) \/ e \in TransitionEntry
        /\ trail' = [trail EXCEPT ![e.case] = Extend(trail[e.case], e)]
        /\ cases' = cases
    BY <1>3, Appended
  <2>2. \A u \in Threads : /\ Creating(u, d)' <=> Creating(u, d) /\ u # t
                           /\ Moving(u, d)' <=> Moving(u, d) /\ u # t
                           /\ u # t => pending'[u] = pending[u]
    BY <1>3, WritersAppend
  <2>3. CASE d # e.case
    <3>1. ~Creating(t, d) /\ ~Moving(t, d)
      BY <2>3, WritingMeans
    <3>2. cases'[d] = cases[d] /\ trail'[d] = trail[d]
      BY <2>1, <2>3 DEF TypeOK
    <3>. QED  BY <1>0, <2>2, <3>1, <3>2
  <2>4. CASE d = e.case
    <3>1. cases[d] # None /\ cases'[d] = cases[d]
      BY <2>1, <2>4 DEF LockInv
    <3>2. Born(d) /\ Followed(d)
      BY <3>1 DEF TrailInv
    <3>3. trail'[d] = Extend(trail[d], e) /\ trail[d] \in Trail
      BY <2>1, <2>4 DEF TypeOK
    <3>4. CASE e = Creation(d)
      <4>1. e.type = "CASE_CREATED" /\ Creating(t, d) /\ ~Moving(t, d)
        <5>1. e.type = "CASE_CREATED" /\ e.case = d
          BY <3>4 DEF Creation
        <5>. QED  BY <2>1, <5>1, WritingMeans
      <4>2. trail'[d] = [trail[d] EXCEPT !.created = @ + 1]
        BY <3>3, <4>1 DEF Extend
      <4>3. trail[d].created = 0 /\ \A u \in Threads : Creating(u, d) => u = t
        BY <3>2, <4>1 DEF Born
      <4>4. /\ trail'[d].created = 1 /\ trail'[d].state = trail[d].state
            /\ trail'[d].at = trail[d].at
            /\ trail'[d].chained = trail[d].chained
        BY <3>3, <4>2, <4>3 DEF Trail
      <4>5. Born(d)'
        BY <2>2, <4>3, <4>4 DEF Born
      <4>6. \A u \in Threads : /\ Moving(u, d)' <=> Moving(u, d)
                               /\ Moving(u, d) => pending'[u] = pending[u]
        BY <2>2, <4>1
      <4>7. Followed(d)'
        BY <3>1, <3>2, <4>4, <4>6 DEF Followed
      <4>. QED  BY <3>1, <4>5, <4>7
    <3>5. CASE e \in TransitionEntry
      <4>1. /\ e.type = "CASE_TRANSITIONED" /\ Moving(t, d) /\ ~Creating(t, d)
        BY <2>1, <2>4, <3>5, WritingMeans DEF TransitionEntry
      <4>2. locks[d] = t /\ \A u \in Threads : Moving(u, d) => u = t
        BY <4>1 DEF LockInv
      <4>3. /\ trail[d].chained
            /\ e.from = trail[d].state /\ e.to = cases[d].state
            /\ e.at = cases[d].updated /\ trail[d].at <= e.at
        BY <3>2, <4>1 DEF Followed
      <4>4. trail'[d] = [trail[d] EXCEPT
                           !.state = e.to, !.at = e.at,
                           !.chained = @ /\ e.from = trail[d].state
                                         /\ e.at >= trail[d].at]
        BY <3>3, <4>1 DEF Extend
      <4>5. e.at \in Nat /\ trail[d].at \in Nat
        BY <3>3, <3>5 DEF TransitionEntry, Trail
      <4>6. /\ trail'[d].created = trail[d].created
            /\ trail'[d].state = e.to /\ trail'[d].at = e.at
            /\ trail'[d].chained
        BY <3>3, <4>3, <4>4, <4>5 DEF Trail
      <4>7. Born(d)'
        BY <2>2, <3>2, <4>1, <4>6 DEF Born
      <4>8. \A u \in Threads : ~Moving(u, d)'
        BY <2>2, <4>2
      <4>9. Followed(d)'
        BY <3>1, <4>3, <4>5, <4>6, <4>8 DEF Followed
      <4>. QED  BY <3>1, <4>7, <4>9
    <3>. QED  BY <2>1, <2>4, <3>4, <3>5
  <2>. QED  BY <2>3, <2>4
<1>4. ASSUME UNCHANGED <<cases, locks, pending, trail, visited>>,
             NEW d \in CaseIds
      PROVE  Goal(d)
  BY <1>0, <1>4 DEF Creating, Moving, Writing
<1>5. \A d \in CaseIds : Goal(d)
  BY <1>1, <1>2, <1>3, <1>4, StepKinds
<1>. QED  BY <1>5 DEF TrailInv

LEMMA VisitStep ==
    ASSUME TypeOK, LockInv, VisitInv, [Next]_vars
    PROVE  VisitInv'
<1>1. ASSUME NEW t \in Threads, NEW c \in CaseIds, NEW n \in Nat,
             CreateCase(t, c, n)
      PROVE  VisitInv'
  <2>1. cases'[c].state = "OPEN"
    BY <1>1 DEF CreateCase, TypeOK
  <2>2. Way("OPEN") = {}
    BY DEF Way
  <2>. QED  BY <1>1, <2>1, <2>2 DEF CreateCase, TypeOK, VisitInv
<1>2. ASSUME NEW t \in Threads, NEW c \in CaseIds, NEW target \in States,
             NEW increment \in BOOLEAN, NEW n \in Nat,
             Transition(t, c, target, increment, n)
      PROVE  VisitInv'
  <2>1. /\ cases[c] # None /\ cases[c].state \in States
        /\ cases' = [cases EXCEPT ![c] = cases'[c]]
        /\ cases'[c].state = target
        /\ target \in Allowed(cases[c].state)
    BY <1>2, Moved DEF Case
  <2>2. visited' = [visited EXCEPT ![c] = IF target = "FROZEN" THEN {}
                                          ELSE visited[c] \cup {target}]
    BY <1>2 DEF Transition
  <2>3. Way(target) \subseteq Way(cases[c].state) \cup {target}
    BY <2>1 DEF Allowed, Way, States, Unfrozen, Terminal
  <2>4. Way("FROZEN") = {}
    BY DEF Way
  <2>5. Way(cases[c].state) \subseteq visited[c]
    BY <2>1 DEF VisitInv
  <2>6. Way(target) \subseteq visited'[c]
    BY <2>2, <2>3, <2>4, <2>5 DEF TypeOK
  <2>. QED  BY <2>1, <2>2, <2>6 DEF TypeOK, VisitInv
<1>3. ASSUME NEW t \in Threads, AppendAudit(t) PROVE VisitInv'
  <2>1. cases' = cases /\ visited' = visited
    BY <1>3, Appended
  <2>. QED  BY <2>1 DEF VisitInv
<1>4. CASE UNCHANGED <<cases, locks, pending, trail, visited>>
  BY <1>4 DEF VisitInv
<1>. QED  BY <1>1, <1>2, <1>3, <1>4, StepKinds

LEMMA Inductive == Spec => []IndInv
<1>1. Init => IndInv
  <2>. SUFFICES ASSUME Init PROVE IndInv
    OBVIOUS
  <2>1. TypeOK
    BY DEF Init, TypeOK, Trail, States
  <2>2. LockInv
    BY CaseAssumption, WritingMeans DEF Init, LockInv
  <2>3. TrailInv /\ VisitInv
    BY DEF Init, TrailInv, VisitInv
  <2>. QED  BY <2>1, <2>2, <2>3 DEF IndInv
<1>2. IndInv /\ [Next]_vars => IndInv'
  BY TypeStep, LockStep, TrailStep, VisitStep DEF IndInv
<1>. QED  BY <1>1, <1>2, PTL DEF Spec

-----------------------------------------------------------------------------
(* The theorems.                                                           *)

\* The type invariant: no case has more attempts than max_attempts, though each
\* attempt is counted in a copy of the case.
THEOREM TypeCorrect == Spec => []TypeOK
<1>1. IndInv => TypeOK
  BY DEF IndInv
<1>. QED  BY <1>1, Inductive, PTL

\* The audit trail of every case is complete and in order, however many threads
\* call create_case, transition_case and unfreeze_case.
THEOREM TrailFollows == Spec => []TrailFollowsCase
<1>1. IndInv => TrailFollowsCase
  <2>. SUFFICES ASSUME IndInv, NEW c \in CaseIds, cases[c] # None
                PROVE  /\ trail[c].chained
                       /\ trail[c].created
                            + Cardinality(Writing(c, "CASE_CREATED")) = 1
                       /\ IF Writing(c, "CASE_TRANSITIONED") = {}
                          THEN trail[c].state = cases[c].state
                          ELSE \A t \in Writing(c, "CASE_TRANSITIONED") :
                                  /\ pending[t].from = trail[c].state
                                  /\ pending[t].to = cases[c].state
    BY DEF TrailFollowsCase
  <2>1. Born(c) /\ Followed(c)
    BY DEF IndInv, TrailInv
  <2>2. trail[c].created + Cardinality(Writing(c, "CASE_CREATED")) = 1
    <3>. DEFINE W == Writing(c, "CASE_CREATED")
    <3>0. W \subseteq Threads
      BY DEF Writing
    <3>1. CASE trail[c].created = 1 /\ \A t \in Threads : ~Creating(t, c)
      <4>1. W = {}
        BY <3>0, <3>1 DEF Creating
      <4>. QED  BY <3>1, <4>1, FS_EmptySet
    <3>2. CASE /\ trail[c].created = 0
               /\ \E t \in Threads : \A u \in Threads : Creating(u, c) <=> u = t
      <4>1. PICK t \in Threads : \A u \in Threads : Creating(u, c) <=> u = t
        BY <3>2
      <4>2. \A u \in Threads : u \in W <=> u = t
        BY <4>1 DEF Creating
      <4>3. W = {t}
        BY <3>0, <4>2
      <4>4. Cardinality({t}) = 1
        BY FS_Singleton
      <4>5. Cardinality(W) = 1
        BY <4>3, <4>4
      <4>. QED  BY <3>2, <4>5
    <3>. QED  BY <2>1, <3>1, <3>2 DEF Born
  <2>3. Writing(c, "CASE_TRANSITIONED") \subseteq Threads
    BY DEF Writing
  <2>. QED  BY <2>1, <2>2, <2>3 DEF Followed, Moving
<1>. QED  BY <1>1, Inductive, PTL

\* A freeze is not bypassed: unfreeze_case and the retries lead a case through
\* diagnosis and evaluation again before it executes.
THEOREM GovernanceKept == Spec => []NoBypassOfGovernance
<1>1. IndInv => NoBypassOfGovernance
  BY DEF IndInv, VisitInv, Way, NoBypassOfGovernance
<1>. QED  BY <1>1, Inductive, PTL

\* No step takes back an attempt, a time or a terminal state.
THEOREM OnlyAdvances == Spec => CaseOnlyAdvances
<1>. DEFINE Advances ==
              \A c \in CaseIds : cases[c] # None =>
                 /\ cases'[c] # None
                 /\ cases'[c].attempts >= cases[c].attempts
                 /\ cases'[c].attempts <= MaxAttempts
                 /\ cases'[c].updated >= cases[c].updated
                 /\ cases[c].state \in Terminal => cases'[c] = cases[c]
<1>1. ASSUME IndInv, [Next]_vars PROVE [Advances]_vars
  <2>0. TypeOK /\ LockInv
    BY <1>1 DEF IndInv
  <2>1. ASSUME NEW d \in CaseIds, cases[d] # None, cases'[d] = cases[d]
        PROVE  /\ cases'[d] # None
               /\ cases'[d].attempts >= cases[d].attempts
               /\ cases'[d].attempts <= MaxAttempts
               /\ cases'[d].updated >= cases[d].updated
    BY <2>0, <2>1, CaseAssumption DEF TypeOK, Case
  <2>2. ASSUME NEW t \in Threads, NEW c \in CaseIds, NEW n \in Nat,
               CreateCase(t, c, n)
        PROVE  Advances
    <3>1. cases[c] = None /\ \A d \in CaseIds \ {c} : cases'[d] = cases[d]
      BY <2>0, <2>2 DEF CreateCase, TypeOK
    <3>. QED  BY <2>1, <3>1
  <2>3. ASSUME NEW t \in Threads, NEW c \in CaseIds, NEW target \in States,
               NEW increment \in BOOLEAN, NEW n \in Nat,
               Transition(t, c, target, increment, n)
        PROVE  Advances
    <3>1. /\ cases'[c] \in Case /\ cases'[c] # None
          /\ cases[c].state \notin Terminal
          /\ cases'[c].attempts >= cases[c].attempts
          /\ cases'[c].updated >= cases[c].updated
          /\ cases' = [cases EXCEPT ![c] = cases'[c]]
      BY <2>0, <2>3, Moved
    <3>2. \A d \in CaseIds \ {c} : cases'[d] = cases[d]
      BY <2>0, <3>1 DEF TypeOK
    <3>3. cases'[c].attempts <= MaxAttempts
      BY <3>1, CaseAssumption DEF Case
    <3>. QED  BY <2>1, <3>1, <3>2, <3>3
  <2>4. ASSUME NEW t \in Threads, AppendAudit(t) PROVE Advances
    <3>1. cases' = cases
      BY <2>4 DEF AppendAudit
    <3>. QED  BY <2>1, <3>1
  <2>5. CASE UNCHANGED <<cases, locks, pending, trail, visited>>
    BY <2>1, <2>5
  <2>. QED  BY <1>1, <2>0, <2>2, <2>3, <2>4, <2>5, StepKinds
<1>. QED  BY <1>1, Inductive, PTL DEF Spec, CaseOnlyAdvances

\* The abstract registry has the same state machine.
LEMMA SameMachine ==
    /\ Audited!States = States
    /\ \A s : Audited!Allowed(s) = Allowed(s)
<1>1. Audited!Terminal = Terminal /\ Audited!Unfrozen = Unfrozen
  BY DEF Audited!Terminal, Terminal, Audited!Unfrozen, Unfrozen
<1>2. Audited!States = States
  BY DEF Audited!States, States
<1>3. ASSUME NEW s PROVE Audited!Allowed(s) = Allowed(s)
  BY <1>1 DEF Audited!Allowed, Allowed
<1>. QED  BY <1>2, <1>3

\* A step of the registry is a step of the abstract one, or none.
LEMMA StepImplements == IndInv /\ [Next]_vars => [Audited!Next]_(Audited!vars)
<1>. SUFFICES ASSUME IndInv, [Next]_vars
              PROVE  [Audited!Next]_(Audited!vars)
  OBVIOUS
<1>. DEFINE S == [c \in CaseIds |-> IF cases[c] = None THEN "unregistered"
                                   ELSE cases[c].state]
            A == [c \in CaseIds |-> IF cases[c] = None THEN 0
                                   ELSE cases[c].attempts]
            N == [c \in CaseIds |-> trail[c].created]
            L == [c \in CaseIds |-> trail[c].state]
<1>0. /\ TypeOK /\ LockInv /\ TrailInv
      /\ "unregistered" \notin States
  BY DEF IndInv, States
<1>1. ASSUME NEW t \in Threads, NEW c \in CaseIds, NEW n \in Nat,
             CreateCase(t, c, n)
      PROVE  Audited!Create(c)
  <2>1. /\ cases[c] = None
        /\ cases' = [cases EXCEPT ![c] = [state |-> "OPEN", attempts |-> 0,
                                          updated |-> n]]
        /\ UNCHANGED trail
    BY <1>1 DEF CreateCase
  <2>2. [state |-> "OPEN", attempts |-> 0, updated |-> n] \in Case
    BY CaseAssumption DEF Case, States
  <2>3. cases'[c].state = "OPEN" /\ cases'[c].attempts = 0 /\ cases'[c] # None
    BY <1>0, <2>1, <2>2, CaseAssumption DEF TypeOK
  <2>4. \A d \in CaseIds \ {c} : cases'[d] = cases[d]
    BY <1>0, <2>1 DEF TypeOK
  <2>5. S' = [S EXCEPT ![c] = "OPEN"]
    BY <2>3, <2>4
  <2>6. A' = A
    BY <2>1, <2>3, <2>4
  <2>7. S[c] = "unregistered" /\ N' = N /\ L' = L
    BY <2>1
  <2>. QED  BY <2>5, <2>6, <2>7 DEF Audited!Create
<1>2. ASSUME NEW t \in Threads, NEW c \in CaseIds, NEW target \in States,
             NEW increment \in BOOLEAN, NEW n \in Nat,
             Transition(t, c, target, increment, n)
      PROVE  Audited!Next
  <2>1. /\ cases[c] \in Case /\ cases[c] # None
        /\ cases'[c] \in Case /\ cases'[c] # None
        /\ cases'[c].state = target
        /\ target \in Allowed(cases[c].state)
        /\ cases' = [cases EXCEPT ![c] = cases'[c]]
        /\ locks[c] = None
        /\ UNCHANGED trail
    BY <1>0, <1>2, Moved
  <2>2. PICK m : /\ m = cases'[c].attempts
                 /\ m \in {cases[c].attempts, cases[c].attempts + 1}
    BY <1>0, <1>2, <2>1 DEF Transition, TypeOK
  <2>3. m <= MaxAttempts
    BY <2>1, <2>2, CaseAssumption DEF Case
  <2>4. \A u \in Threads : ~Moving(u, c)
    BY <1>0, <2>1, CaseAssumption DEF LockInv
  <2>5. trail[c].state = cases[c].state
    BY <1>0, <2>1, <2>4 DEF TrailInv, Followed
  <2>6. \A d \in CaseIds \ {c} : cases'[d] = cases[d]
    BY <1>0, <2>1 DEF TypeOK
  <2>7. S' = [S EXCEPT ![c] = target]
    BY <2>1, <2>6
  <2>8. A' = [A EXCEPT ![c] = m]
    BY <2>1, <2>2, <2>6
  <2>9. S[c] = L[c] /\ m \in {A[c], A[c] + 1}
    BY <2>1, <2>2, <2>5
  <2>10. /\ target \in Audited!States
         /\ target \in Audited!Allowed(S[c])
    BY <2>1, SameMachine
  <2>11. N' = N /\ L' = L
    BY <2>1
  <2>12. Audited!Move(c, target, m)
    BY <2>3, <2>7, <2>8, <2>9, <2>10, <2>11 DEF Audited!Move
  <2>. QED  BY <2>9, <2>10, <2>12 DEF Audited!Next
<1>3. ASSUME NEW t \in Threads, AppendAudit(t)
      PROVE  [Audited!Next]_(Audited!vars)
  <2>. DEFINE e == pending[t]
  <2>1. PICK c \in CaseIds : c = e.case
    BY <1>0, <1>3, Appended
  <2>2. /\ e # None
        /\ e = Creation(c) \/ e \in TransitionEntry
        /\ trail' = [trail EXCEPT ![c] = Extend(trail[c], e)]
        /\ cases' = cases
    BY <1>0, <1>3, <2>1, Appended
  <2>3. cases[c] # None /\ cases[c].state \in States
    BY <1>0, <2>1, <2>2 DEF LockInv, TypeOK, Case
  <2>4. Born(c) /\ Followed(c)
    BY <1>0, <2>3 DEF TrailInv
  <2>5. trail[c] \in Trail /\ trail'[c] = Extend(trail[c], e)
    BY <1>0, <2>2 DEF TypeOK
  <2>6. \A d \in CaseIds \ {c} : trail'[d] = trail[d]
    BY <1>0, <2>2 DEF TypeOK
  <2>7. S' = S /\ A' = A /\ S[c] = cases[c].state
    BY <2>2, <2>3
  <2>8. CASE e = Creation(c)
    <3>1. e.type = "CASE_CREATED" /\ Creating(t, c)
      <4>1. e.type = "CASE_CREATED" /\ e.case = c
        BY <2>8 DEF Creation
      <4>. QED  BY <2>2, <4>1, WritingMeans
    <3>2. trail[c].created = 0
      BY <2>4, <3>1 DEF Born
    <3>3. trail'[c].created = 1 /\ trail'[c].state = trail[c].state
      BY <2>5, <3>1, <3>2 DEF Extend, Trail
    <3>4. N' = [N EXCEPT ![c] = 1] /\ L' = L /\ N[c] = 0
      BY <2>6, <3>2, <3>3
    <3>5. Audited!Announce(c)
      BY <1>0, <2>3, <2>7, <3>4 DEF Audited!Announce
    <3>. QED  BY <3>5 DEF Audited!Next
  <2>9. CASE e \in TransitionEntry
    <3>1. e.type = "CASE_TRANSITIONED" /\ Moving(t, c)
      BY <2>1, <2>2, <2>9, WritingMeans DEF TransitionEntry
    <3>2. e.to = cases[c].state
      BY <2>4, <3>1 DEF Followed
    <3>3. /\ trail'[c].state = cases[c].state
          /\ trail'[c].created = trail[c].created
      BY <2>5, <3>1, <3>2 DEF Extend, Trail
    <3>4. N' = N /\ L' = [L EXCEPT ![c] = S[c]]
      BY <2>6, <2>7, <3>3
    <3>5. CASE L[c] = S[c]
      <4>1. L' = L
        BY <3>4, <3>5
      <4>. QED  BY <2>7, <3>4, <4>1 DEF Audited!vars
    <3>6. CASE L[c] # S[c]
      <4>1. Audited!Log(c)
        BY <1>0, <2>3, <2>7, <3>4, <3>6 DEF Audited!Log
      <4>. QED  BY <4>1 DEF Audited!Next
    <3>. QED  BY <3>5, <3>6
  <2>. QED  BY <2>2, <2>8, <2>9
<1>4. CASE UNCHANGED <<cases, locks, pending, trail, visited>>
  <2>1. S' = S /\ A' = A /\ N' = N /\ L' = L
    BY <1>4
  <2>. QED  BY <2>1 DEF Audited!vars
<1>5. ASSUME NEW c \in CaseIds, Audited!Create(c) PROVE Audited!Next
  BY <1>5 DEF Audited!Next
<1>. QED  BY <1>0, <1>1, <1>2, <1>3, <1>4, <1>5, StepKinds

\* The registry implements the abstract one: threads that race on a case do not
\* show, for the lock is kept until a transition is in the audit log.
THEOREM Refinement == Spec => ImplementsAudited
<1>1. Init => Audited!Init
  BY DEF Init, Audited!Init
<1>. QED
  BY <1>1, StepImplements, Inductive, PTL
     DEF Spec, ImplementsAudited, Audited!Spec

=============================================================================
