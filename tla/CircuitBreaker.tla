--------------------------- MODULE CircuitBreaker ---------------------------
(***************************************************************************)
(* One CircuitBreaker shared by concurrent callers.  A caller captures the *)
(* time once, when its call begins, and passes that time to the admission  *)
(* and to the report of the outcome, as execute_action does: by then other *)
(* callers may have tripped, half-opened or closed the breaker, and the    *)
(* time it passes may be old.  A caller that was admitted may also never   *)
(* report, which is what execute_action does when a later gate raises.     *)
(***************************************************************************)
EXTENDS BreakerOps, FiniteSets

CONSTANTS Callers,  \* the threads that call through the breaker
          MaxTime   \* bound on the clock

VARIABLES breaker,    \* the CircuitBreaker
          clock,      \* real time
          pc,         \* pc[c]: where caller c is
          now,        \* now[c]: the time c captured
          probing,    \* history: calls admitted in the current HALF_OPEN
                      \* window that have not ended
          strays,     \* history: probes freed in this window by calls that
                      \* were not admitted in it
          quietUntil  \* history: the time the last trip asks calls to wait
                      \* for, from the time given to the call that tripped

vars == <<breaker, clock, pc, now, probing, strays, quietUntil>>

Init ==
    /\ breaker = NewBreaker
    /\ clock = 0
    /\ pc = [c \in Callers |-> "idle"]
    /\ now = [c \in Callers |-> 0]
    /\ probing = {}
    /\ strays = 0
    /\ quietUntil = 0

-----------------------------------------------------------------------------

\* A HALF_OPEN window opens in a step that evaluates the breaker at time n.
WindowOpens(n) == breaker.state = "OPEN" /\ Evaluate(breaker, n) # breaker

\* The calls of the window in force, and its strays, at time n.
Probing(n) == IF WindowOpens(n) THEN {} ELSE probing
Strays(n)  == IF WindowOpens(n) THEN 0 ELSE strays

\* A call that passes time n takes the breaker to b.
Becomes(b, n) ==
    /\ breaker' = b
    /\ quietUntil' =
         IF b.state = "OPEN" /\ (breaker.state # "OPEN" \/ WindowOpens(n))
         THEN n + RecoveryTimeout
         ELSE quietUntil

Begin(c) ==
    /\ pc[c] = "idle"
    /\ pc' = [pc EXCEPT ![c] = "begun"]
    /\ now' = [now EXCEPT ![c] = clock]
    /\ UNCHANGED <<breaker, clock, probing, strays, quietUntil>>

\* check_execution_allowed, alias acquire_execution_permission.
CheckExecutionAllowed(c) ==
    /\ pc[c] = "begun"
    /\ Becomes(Admit(breaker, now[c]), now[c])
    /\ probing' = IF /\ Evaluate(breaker, now[c]).state = "HALF_OPEN"
                     /\ Admits(breaker, now[c])
                  THEN Probing(now[c]) \cup {c}
                  ELSE Probing(now[c])
    /\ strays' = Strays(now[c])
    /\ pc' = [pc EXCEPT
                ![c] = IF Admits(breaker, now[c]) THEN "admitted" ELSE "idle"]
    /\ UNCHANGED <<clock, now>>

ReportSuccess(c) ==
    /\ pc[c] = "admitted"
    /\ Becomes(RecordSuccess(breaker, now[c]), now[c])
    /\ probing' = Probing(now[c]) \ {c}
    /\ strays' = IF /\ breaker'.state = "HALF_OPEN"
                    /\ Evaluate(breaker, now[c]).probes > 0
                    /\ c \notin probing
                 THEN strays + 1
                 ELSE Strays(now[c])
    /\ pc' = [pc EXCEPT ![c] = "idle"]
    /\ UNCHANGED <<clock, now>>

ReportFailure(c) ==
    /\ pc[c] = "admitted"
    /\ Becomes(RecordFailure(breaker, now[c]), now[c])
    /\ probing' = Probing(now[c]) \ {c}
    /\ strays' = Strays(now[c])
    /\ pc' = [pc EXCEPT ![c] = "idle"]
    /\ UNCHANGED <<clock, now>>

\* An admitted call is cancelled and says so: release_probe.
Cancel(c) ==
    /\ pc[c] = "admitted"
    /\ breaker' = ReleaseProbe(breaker)
    /\ probing' = probing \ {c}
    /\ strays' = IF /\ breaker.state = "HALF_OPEN"
                    /\ breaker.probes > 0
                    /\ c \notin probing
                 THEN strays + 1
                 ELSE strays
    /\ pc' = [pc EXCEPT ![c] = "idle"]
    /\ UNCHANGED <<clock, now, quietUntil>>

\* An admitted call raises before it reports anything.
Vanish(c) ==
    /\ pc[c] = "admitted"
    /\ pc' = [pc EXCEPT ![c] = "idle"]
    /\ probing' = probing \ {c}
    /\ UNCHANGED <<breaker, clock, now, strays, quietUntil>>

\* get_state and can_attempt_probe: queries that still evaluate the timeout.
Observe ==
    /\ WindowOpens(clock)
    /\ Becomes(Evaluate(breaker, clock), clock)
    /\ probing' = {}
    /\ strays' = 0
    /\ UNCHANGED <<clock, pc, now>>

TripManually ==
    /\ breaker' = Trip(breaker, clock)
    /\ quietUntil' = clock + RecoveryTimeout
    /\ UNCHANGED <<clock, pc, now, probing, strays>>

ResetBreaker ==
    /\ breaker' = Reset
    /\ UNCHANGED <<clock, pc, now, probing, strays, quietUntil>>

Tick ==
    /\ clock < MaxTime
    /\ clock' = clock + 1
    /\ UNCHANGED <<breaker, pc, now, probing, strays, quietUntil>>

Next ==
    \/ \E c \in Callers :
          \/ Begin(c)
          \/ CheckExecutionAllowed(c)
          \/ ReportSuccess(c)
          \/ ReportFailure(c)
          \/ Cancel(c)
          \/ Vanish(c)
    \/ Observe
    \/ TripManually
    \/ ResetBreaker
    \/ Tick

Spec == Init /\ [][Next]_vars

-----------------------------------------------------------------------------

\* The type invariant.
TypeOK ==
    /\ breaker \in Breaker
    /\ clock \in Nat
    /\ pc \in [Callers -> {"idle", "begun", "admitted"}]
    /\ now \in [Callers -> Nat]
    /\ probing \subseteq Callers
    /\ strays \in Nat
    /\ quietUntil \in Nat

\* Whatever order calls report in, the counters of a breaker fit its state:
\* a CLOSED breaker is always short of its failure threshold (one that was
\* closed with a full count would trip at the first failure), an OPEN one
\* holds no probe and a HALF_OPEN one has not met its success threshold.
BreakerConsistent ==
    /\ breaker.state = "CLOSED" =>
          /\ breaker.failures < FailureThreshold
          /\ breaker.tripped = NotTripped
          /\ breaker.probes = 0 /\ breaker.successes = 0
    /\ breaker.state = "OPEN" =>
          breaker.tripped >= 0 /\ breaker.probes = 0
    /\ breaker.state = "HALF_OPEN" =>
          /\ breaker.tripped >= 0
          /\ breaker.successes < SuccessThreshold
          /\ breaker.probes <= MaxProbes

\* The calls in flight that a HALF_OPEN window admitted never exceed
\* half_open_max_probes, except by the number of probes that late reports
\* and cancellations of calls from before the window freed: the breaker
\* does not know whose probe a report ends.
ProbeLimit ==
    breaker.state = "HALF_OPEN" =>
        Cardinality(probing) <= MaxProbes + strays

\* A tripped breaker stops being OPEN only through an explicit reset or once
\* the timeout after the time of the tripping call has passed in real time,
\* however old the times are that callers pass in.
OpenHoldsForTimeout ==
    [][breaker.state = "OPEN" /\ breaker'.state # "OPEN" =>
          ResetBreaker \/ clock >= quietUntil]_vars

\* Whatever the calls report, late or never, and whatever times they pass, the
\* breaker implements the gate that lets nobody in before its timeout.
Gate ==
    INSTANCE TimedGate
    WITH clock <- clock, state <- breaker.state, until <- quietUntil,
         inside <- {c \in Callers : pc[c] = "admitted"}

ImplementsGate == Gate!Spec

=============================================================================
