----------------------------- MODULE BreakerOps -----------------------------
(***************************************************************************)
(* The methods of CircuitBreaker (safety/circuit_breaker.py) as operators  *)
(* on a breaker record.  Every method runs under the breaker's own lock,   *)
(* so each is one atomic step of whatever thread calls it: the modules     *)
(* that keep breakers in their state apply these operators to them.        *)
(*                                                                         *)
(* Time is a whole number of units.  NotTripped stands for _tripped_at =   *)
(* None, which only a breaker that is CLOSED has.                          *)
(***************************************************************************)
EXTENDS Integers

CONSTANTS FailureThreshold,  \* failure_threshold
          RecoveryTimeout,   \* recovery_timeout_seconds
          SuccessThreshold,  \* half_open_success_threshold
          MaxProbes          \* half_open_max_probes

ASSUME BreakerAssumption ==
    /\ FailureThreshold \in Nat \ {0}
    /\ RecoveryTimeout \in Nat \ {0}
    /\ SuccessThreshold \in Nat \ {0}
    /\ MaxProbes \in Nat \ {0}

BreakerStates == {"CLOSED", "OPEN", "HALF_OPEN"}

NotTripped == -1

Breaker == [state : BreakerStates, failures : Nat, successes : Nat,
            probes : Nat, tripped : Nat \cup {NotTripped}]

NewBreaker == [state |-> "CLOSED", failures |-> 0, successes |-> 0,
               probes |-> 0, tripped |-> NotTripped]

-----------------------------------------------------------------------------

\* OPEN becomes HALF_OPEN once the timeout has elapsed at the caller's time.
Evaluate(b, now) ==
    IF b.state = "OPEN" /\ now - b.tripped >= RecoveryTimeout
    THEN [b EXCEPT !.state = "HALF_OPEN", !.successes = 0, !.probes = 0]
    ELSE b

\* Mutant: the admission looks at the probes alone.
AdmitsByProbes(b, now) == Evaluate(b, now).probes < MaxProbes

\* Whether check_execution_allowed returns rather than raises at time now.
Admits(b, now) ==
    LET e == Evaluate(b, now)
    IN  \/ e.state = "CLOSED"
        \/ e.state = "HALF_OPEN" /\ e.probes < MaxProbes

\* Mutant: the admission forgets to count the probe.
AdmitUncounted(b, now) == Evaluate(b, now)

\* The breaker check_execution_allowed leaves: a HALF_OPEN one that admits
\* the call has given it a probe, a refusal keeps only the evaluation.
Admit(b, now) ==
    LET e == Evaluate(b, now)
    IN  IF e.state = "HALF_OPEN" /\ e.probes < MaxProbes
        THEN [e EXCEPT !.probes = @ + 1]
        ELSE e

Reset == NewBreaker

\* Mutant: the trip keeps the time of the trip before it.
TripKeepsTime(b, now) ==
    [b EXCEPT !.state = "OPEN", !.successes = 0, !.probes = 0,
              !.tripped = IF @ = NotTripped THEN now ELSE @]

\* trip_manually, and the trip of a probe that fails.
Trip(b, now) ==
    [b EXCEPT !.state = "OPEN", !.tripped = now,
              !.successes = 0, !.probes = 0]

\* Mutant: closing keeps the failures counted before the trip.
CloseKeepsFailures(b) == [NewBreaker EXCEPT !.failures = b.failures]

\* What a HALF_OPEN breaker becomes at its last required success.
Close(b) == NewBreaker

RecordSuccess(b, now) ==
    LET e == Evaluate(b, now)
        counted == [e EXCEPT !.successes = @ + 1,
                             !.probes = IF @ > 0 THEN @ - 1 ELSE @]
    IN  CASE e.state = "HALF_OPEN" ->
               IF counted.successes >= SuccessThreshold
               THEN Close(counted)
               ELSE counted
          [] e.state = "CLOSED" -> [e EXCEPT !.failures = 0]
          [] OTHER -> e

RecordFailure(b, now) ==
    LET e == Evaluate(b, now)
        counted == [e EXCEPT !.failures = @ + 1]
    IN  CASE e.state = "HALF_OPEN" -> Trip(e, now)
          [] e.state = "CLOSED" ->
               IF counted.failures >= FailureThreshold
               THEN [counted EXCEPT !.state = "OPEN", !.tripped = now,
                                    !.probes = 0]
               ELSE counted
          [] OTHER -> e

\* Mutant: the release does not look whether a probe is out.
ReleaseUnguarded(b) ==
    IF b.state = "HALF_OPEN" THEN [b EXCEPT !.probes = @ - 1] ELSE b

\* release_probe: a call that was admitted is cancelled.
ReleaseProbe(b) ==
    IF b.state = "HALF_OPEN" /\ b.probes > 0
    THEN [b EXCEPT !.probes = @ - 1]
    ELSE b

=============================================================================
