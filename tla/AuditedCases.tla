---------------------------- MODULE AuditedCases ----------------------------
(***************************************************************************)
(* What CaseManager promises of recovery cases, threads, locks and time    *)
(* aside: a case is created once and then makes one legal transition at a  *)
(* time, counting at most MaxAttempts attempts, and none before the audit  *)
(* log has the one before.  The creation is logged once, if need be after  *)
(* some of the transitions.                                                *)
(***************************************************************************)
EXTENDS Integers, CaseOps

CONSTANTS CaseIds,
          MaxAttempts

VARIABLES state,      \* state[c]: the state of case c, or "unregistered"
          attempts,   \* attempts[c]: its recovery attempts
          announced,  \* announced[c]: how often the log has its creation
          logged      \* logged[c]: the state its logged transitions lead to

vars == <<state, attempts, announced, logged>>

Init ==
    /\ state = [c \in CaseIds |-> "unregistered"]
    /\ attempts = [c \in CaseIds |-> 0]
    /\ announced = [c \in CaseIds |-> 0]
    /\ logged = [c \in CaseIds |-> "OPEN"]

Create(c) ==
    /\ state[c] = "unregistered"
    /\ state' = [state EXCEPT ![c] = "OPEN"]
    /\ UNCHANGED <<attempts, announced, logged>>

Announce(c) ==
    /\ state[c] # "unregistered"
    /\ announced[c] = 0
    /\ announced' = [announced EXCEPT ![c] = 1]
    /\ UNCHANGED <<state, attempts, logged>>

Move(c, target, n) ==
    /\ state[c] = logged[c]
    /\ target \in Allowed(state[c])
    /\ n <= MaxAttempts
    /\ state' = [state EXCEPT ![c] = target]
    /\ attempts' = [attempts EXCEPT ![c] = n]
    /\ UNCHANGED <<announced, logged>>

Log(c) ==
    /\ state[c] \notin {"unregistered", logged[c]}
    /\ logged' = [logged EXCEPT ![c] = state[c]]
    /\ UNCHANGED <<state, attempts, announced>>

Next ==
    \E c \in CaseIds :
        \/ Create(c)
        \/ Announce(c)
        \/ \E target \in States, n \in {attempts[c], attempts[c] + 1} :
              Move(c, target, n)
        \/ Log(c)

Spec == Init /\ [][Next]_vars

=============================================================================
