----------------------------- MODULE TimedGate ------------------------------
(***************************************************************************)
(* What a CircuitBreaker promises those it protects, counters aside: once  *)
(* OPEN it lets nobody in before its timeout has passed in real time; it   *)
(* is HALF_OPEN only after that, and CLOSED again only from there or by a  *)
(* reset.                                                                  *)
(***************************************************************************)
EXTENDS Integers

CONSTANTS Callers,
          RecoveryTimeout

VARIABLES clock,
          state,   \* of the breaker
          until,   \* the time the last trip asks calls to wait for
          inside   \* the callers that were let in and have not ended

vars == <<clock, state, until, inside>>

Init ==
    /\ clock = 0
    /\ state = "CLOSED"
    /\ until = 0
    /\ inside = {}

\* The states a call may find.  The time it passes may be an old one, for which
\* the timeout has not passed yet.
Found == IF state = "OPEN" /\ clock >= until THEN {"OPEN", "HALF_OPEN"}
                                             ELSE {state}

Enter(c) ==
    /\ c \notin inside
    /\ inside' = inside \cup {c}
    /\ state' \in Found \ {"OPEN"}
    /\ UNCHANGED <<clock, until>>

\* The call of c has ended, well or not.
Leave(c) ==
    /\ c \in inside
    /\ inside' = inside \ {c}
    /\ \/ state' \in Found /\ UNCHANGED until
       \/ "HALF_OPEN" \in Found /\ state' = "CLOSED" /\ UNCHANGED until
       \/ /\ Found # {"OPEN"}
          /\ state' = "OPEN"
          /\ \E n \in 0..clock : until' = n + RecoveryTimeout
    /\ UNCHANGED clock

\* Somebody looks at the breaker, or is not let in.
Look ==
    /\ state' \in Found
    /\ UNCHANGED <<clock, until, inside>>

TripManually ==
    /\ state' = "OPEN"
    /\ until' = clock + RecoveryTimeout
    /\ UNCHANGED <<clock, inside>>

ResetBreaker ==
    /\ state' = "CLOSED"
    /\ UNCHANGED <<clock, until, inside>>

Tick ==
    /\ clock' = clock + 1
    /\ UNCHANGED <<state, until, inside>>

Next ==
    \/ \E c \in Callers : Enter(c) \/ Leave(c)
    \/ Look
    \/ TripManually
    \/ ResetBreaker
    \/ Tick

Spec == Init /\ [][Next]_vars

=============================================================================
