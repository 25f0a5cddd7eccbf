---------------------------- MODULE CaseManager -----------------------------
(***************************************************************************)
(* CaseManager (recovery_engine/case_manager.py): the registry of recovery *)
(* cases, used by several threads.  A transition holds the lock of its     *)
(* case while it writes the registry and then the audit log; create_case   *)
(* writes both under no lock of the case, and unfreeze_case looks at the   *)
(* case before it takes the lock.                                          *)
(*                                                                         *)
(* Of a case's audit entries the model keeps where they lead: how often    *)
(* the creation was logged, the state and the time of the last transition  *)
(* logged, and whether every entry continued the one before it.            *)
(***************************************************************************)
EXTENDS Integers, FiniteSets, CaseOps

CONSTANTS Threads,
          CaseIds,      \* the ids create_case may draw
          MaxAttempts,  \* max_attempts
          MaxTime,      \* bound on the clock
          None

VARIABLES clock,    \* real time
          cases,    \* cases[c]: the RecoveryCase registered, or None
          locks,    \* locks[c]: the thread in transition_case for c, or None
          checked,  \* checked[t]: the unfreeze_case of t that has found its
                    \* case FROZEN and is about to call transition_case
          pending,  \* pending[t]: the audit entry t is about to append
          trail,    \* trail[c]: where the audit entries of c lead
          visited   \* history: the states of c since it was last FROZEN

vars == <<clock, cases, locks, checked, pending, trail, visited>>

Case == [state : States, attempts : 0..MaxAttempts, updated : Nat]

Creation(c) == [type |-> "CASE_CREATED", case |-> c]

TransitionEntry == [type : {"CASE_TRANSITIONED"}, case : CaseIds,
                    from : States, to : States, at : Nat]

Trail == [created : Nat, state : States, at : Nat, chained : BOOLEAN]

\* What a thread is about to do when it has found a case FROZEN.
Unfreezing == [case : CaseIds, target : {"DIAGNOSED", "ABANDONED"}]

ASSUME CaseAssumption ==
    /\ MaxAttempts \in Nat \ {0}
    /\ MaxTime \in Nat
    /\ None \notin Threads \cup Case \cup TransitionEntry \cup Unfreezing
    /\ \A c \in CaseIds : Creation(c) # None

Init ==
    /\ clock = 0
    /\ cases = [c \in CaseIds |-> None]
    /\ locks = [c \in CaseIds |-> None]
    /\ checked = [t \in Threads |-> None]
    /\ pending = [t \in Threads |-> None]
    /\ trail = [c \in CaseIds |->
                  [created |-> 0, state |-> "OPEN", at |-> 0,
                   chained |-> TRUE]]
    /\ visited = [c \in CaseIds |-> {}]

Idle(t) == checked[t] = None /\ pending[t] = None

-----------------------------------------------------------------------------

\* create_case registers the case.  The id is a fresh UUID, the time one the
\* caller passes: now or earlier.
CreateCase(t, c, n) ==
    /\ Idle(t)
    /\ cases[c] = None
    /\ cases' = [cases EXCEPT ![c] = [state |-> "OPEN", attempts |-> 0,
                                      updated |-> n]]
    /\ visited' = [visited EXCEPT ![c] = {"OPEN"}]
    /\ pending' = [pending EXCEPT ![t] = Creation(c)]
    /\ UNCHANGED <<clock, locks, checked, trail>>

\* Mutant: the limit is tested by guard 4 alone, which is not strict.
CountsOneMore(case, increment) ==
    increment => case.attempts + 1 <= MaxAttempts + 1

\* Guard 3.  Guard 4, on targets SCHEDULED and EXECUTING, asks for a count
\* within MaxAttempts, which guard 3 has ensured.
CountsAttempt(case, increment) ==
    increment => case.attempts < MaxAttempts

\* Mutant: the caller's time is taken as it is.
StampGiven(case, n) == n

\* Time never goes back in a case.
Stamp(case, n) == IF n < case.updated THEN case.updated ELSE n

\* Mutant: the lock is given back before the entry is written.
LockAfter(t) == None

\* The thread keeps the case's lock until it has written the audit entry.
LockFor(t) == t

\* transition_case once it has the lock: the guards and the registry.
Transition(t, c, target, increment, n) ==
    LET case == cases[c]
        at == Stamp(case, n)
    IN  /\ pending[t] = None
        /\ locks[c] = None
        /\ case # None
        /\ case.state \notin Terminal
        /\ target \in Allowed(case.state)
        /\ CountsAttempt(case, increment)
        /\ cases' = [cases EXCEPT
                       ![c] = [state |-> target,
                               attempts |-> IF increment
                                            THEN case.attempts + 1
                                            ELSE case.attempts,
                               updated |-> at]]
        /\ locks' = [locks EXCEPT ![c] = LockFor(t)]
        /\ visited' = [visited EXCEPT ![c] = IF target = "FROZEN" THEN {}
                                             ELSE @ \cup {target}]
        /\ pending' = [pending EXCEPT
                         ![t] = [type |-> "CASE_TRANSITIONED", case |-> c,
                                 from |-> case.state, to |-> target,
                                 at |-> at]]
        /\ UNCHANGED <<clock, trail>>

\* transition_case, freeze_case.  A call that fails a guard changes nothing.
TransitionCase(t, c, target, increment, n) ==
    /\ checked[t] = None
    /\ Transition(t, c, target, increment, n)
    /\ UNCHANGED checked

\* unfreeze_case looks at the case, without its lock ...
CheckFrozen(t, c, target) ==
    /\ Idle(t)
    /\ cases[c] # None
    /\ cases[c].state = "FROZEN"
    /\ target \in {"DIAGNOSED", "ABANDONED"}  \* the INV-09 guard
    /\ checked' = [checked EXCEPT ![t] = [case |-> c, target |-> target]]
    /\ UNCHANGED <<clock, cases, locks, pending, trail, visited>>

\* ... and calls transition_case, which does not ask for FROZEN any more.
UnfreezeCase(t, n) ==
    /\ checked[t] # None
    /\ Transition(t, checked[t].case, checked[t].target, FALSE, n)
    /\ checked' = [checked EXCEPT ![t] = None]

\* By then the transition may not be possible any more: it raises.
UnfreezeRefused(t) ==
    /\ checked[t] # None
    /\ locks[checked[t].case] = None
    /\ checked[t].target \notin Allowed(cases[checked[t].case].state)
    /\ checked' = [checked EXCEPT ![t] = None]
    /\ UNCHANGED <<clock, cases, locks, pending, trail, visited>>

\* The log after the entry e, and whether e continues the entries before it.
Extend(log, e) ==
    IF e.type = "CASE_CREATED"
    THEN [log EXCEPT !.created = @ + 1]
    ELSE [log EXCEPT !.state = e.to, !.at = e.at,
                     !.chained = @ /\ e.from = log.state /\ e.at >= log.at]

\* The thread appends its audit entry, and a transition ends.
AppendAudit(t) ==
    LET e == pending[t]
    IN  /\ e # None
        /\ trail' = [trail EXCEPT ![e.case] = Extend(@, e)]
        /\ pending' = [pending EXCEPT ![t] = None]
        /\ locks' = IF locks[e.case] = t
                    THEN [locks EXCEPT ![e.case] = None]
                    ELSE locks
        /\ UNCHANGED <<clock, cases, checked, visited>>

Tick ==
    /\ clock < MaxTime
    /\ clock' = clock + 1
    /\ UNCHANGED <<cases, locks, checked, pending, trail, visited>>

Next ==
    \/ \E t \in Threads, c \in CaseIds, n \in 0..clock :
          \/ CreateCase(t, c, n)
          \/ \E target \in States, increment \in BOOLEAN :
                TransitionCase(t, c, target, increment, n)
    \/ \E t \in Threads, c \in CaseIds, target \in States :
          CheckFrozen(t, c, target)
    \/ \E t \in Threads :
          \/ \E n \in 0..clock : UnfreezeCase(t, n)
          \/ UnfreezeRefused(t)
          \/ AppendAudit(t)
    \/ Tick

Spec == Init /\ [][Next]_vars

-----------------------------------------------------------------------------

\* The type invariant: in particular attempts never exceed max_attempts.
TypeOK ==
    /\ clock \in Nat
    /\ cases \in [CaseIds -> Case \cup {None}]
    /\ locks \in [CaseIds -> Threads \cup {None}]
    /\ checked \in [Threads -> Unfreezing \cup {None}]
    /\ pending \in [Threads -> {Creation(c) : c \in CaseIds}
                               \cup TransitionEntry \cup {None}]
    /\ trail \in [CaseIds -> Trail]
    /\ visited \in [CaseIds -> SUBSET States]

\* The threads about to append an entry of the type for the case.
Writing(c, type) == {t \in Threads : /\ pending[t] # None
                                     /\ pending[t].case = c
                                     /\ pending[t].type = type}

\* The audit trail of a case is complete and in order although threads race:
\* its transition entries start from OPEN, each continues the last with no
\* earlier time, and together they lead to the registered state, but for the
\* entry of the thread that holds the case's lock.  The creation is logged
\* once, or is about to be.
TrailFollowsCase ==
    \A c \in CaseIds : cases[c] # None =>
        /\ trail[c].chained
        /\ trail[c].created + Cardinality(Writing(c, "CASE_CREATED")) = 1
        /\ IF Writing(c, "CASE_TRANSITIONED") = {}
           THEN trail[c].state = cases[c].state
           ELSE \A t \in Writing(c, "CASE_TRANSITIONED") :
                   /\ pending[t].from = trail[c].state
                   /\ pending[t].to = cases[c].state

\* Safety freezes cannot be bypassed: a case that executes has been
\* diagnosed, evaluated and scheduled since it was last frozen, whatever
\* unfreezes and retries were called and however they raced.
NoBypassOfGovernance ==
    \A c \in CaseIds :
        cases[c] # None /\ cases[c].state = "EXECUTING" =>
            {"DIAGNOSED", "EVALUATING", "SCHEDULED"} \subseteq visited[c]

\* A case never forgets attempts, goes back in time or leaves a terminal
\* state, not even by being frozen and unfrozen.
CaseOnlyAdvances ==
    [][\A c \in CaseIds : cases[c] # None =>
          /\ cases'[c] # None
          /\ cases'[c].attempts >= cases[c].attempts
          /\ cases'[c].attempts <= MaxAttempts
          /\ cases'[c].updated >= cases[c].updated
          /\ cases[c].state \in Terminal => cases'[c] = cases[c]]_vars

\* The registry implements the abstract one, in which threads do not race: a
\* case makes only legal transitions, and the next one only when the audit log
\* has the last.
Audited ==
    INSTANCE AuditedCases
    WITH state <- [c \in CaseIds |-> IF cases[c] = None THEN "unregistered"
                                    ELSE cases[c].state],
         attempts <- [c \in CaseIds |-> IF cases[c] = None THEN 0
                                       ELSE cases[c].attempts],
         announced <- [c \in CaseIds |-> trail[c].created],
         logged <- [c \in CaseIds |-> trail[c].state]

ImplementsAudited == Audited!Spec

=============================================================================
