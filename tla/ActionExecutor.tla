--------------------------- MODULE ActionExecutor ---------------------------
(***************************************************************************)
(* ActionExecutor.execute_action (executor/executor.py), called by several *)
(* threads, with the services it consults: the authorizer, the idempotency *)
(* store, the kill switch, one circuit breaker per channel, the capacity   *)
(* governor, the sandbox and the audit log.                                *)
(*                                                                         *)
(* The arbitrator asks the breakers and the governor too, which it shares, *)
(* with times of its own; both change by being asked.                      *)
(*                                                                         *)
(* The gates are steps of their own.  A thread holds _execution_lock from  *)
(* gate 2 on, but the kill switch and the breakers have other locks and    *)
(* other users, and time passes between the gates: a call's own time was   *)
(* captured before it waited for the lock.  A gate that raises leaves the  *)
(* with-block, which frees the lock, and writes no audit entry.            *)
(***************************************************************************)
EXTENDS BreakerOps, CapacityOps, KillSwitchOps, AuthorizerOps

CONSTANTS Threads,   \* the threads that call execute_action
          Requests,  \* the ExecutionRequests they may pass
          Tokens,    \* the tokens that were minted
          SafeUrls,  \* the destinations the sandbox guard allows by name
          Switches,  \* the kill switches an operator may flip
          MaxTime,   \* bound on the clock
          None       \* no thread, no request, no result

Keys     == {r.key : r \in Requests}
Channels == {r.channel : r \in Requests}
Outcomes == {"SUCCESS", "FAILED"}

\* What an ExecutionResult keeps of the request and of its execution.
Result == [request : Requests, outcome : Outcomes, at : Nat]

\* The payload of an ACTION_EXECUTED entry, as far as it is compared.
Entry == [key : Keys, outcome : Outcomes, at : Nat]

ASSUME ExecutorAssumption ==
    /\ \A r \in Requests : r.amount \in Nat
    /\ MaxTime \in Nat
    /\ None \notin Threads
    /\ None \notin Requests
    /\ None \notin Result

VARIABLES clock,      \* real time
          lock,       \* the thread that holds _execution_lock, or None
          pc,         \* pc[t]: the gate thread t is at
          request,    \* request[t]: its ExecutionRequest
          now,        \* now[t]: the time it captured on entry
          status,     \* status[t]: the outcome of its dispatch
          store,      \* store[k]: the ExecutionResult recorded for key k
          breakers,   \* breakers[c]: the breaker of channel c
          history,    \* the capacity governor's reservations
          switches,   \* the kill switches that are active
          audit,      \* the ACTION_EXECUTED entries of the audit log
          performed,  \* history: performed[k], the dispatches made for key k
                      \* but those whose result was refused
          answered,   \* history: the results returned to callers
          slipped,    \* history: dispatches of halted requests since a kill
                      \* switch was last activated
          reserved,   \* history: every reservation the governor ever made
          timely,     \* history: which of them were made at a time no earlier
                      \* than any the governor had been given
          latest      \* history: the latest time the governor was given

callVars    == <<pc, request, now, status>>
safetyVars  == <<breakers, history, switches>>
serviceVars == <<performed, answered>>
windowVars  == <<reserved, timely, latest>>
ghostVars   == <<serviceVars, slipped, windowVars>>
vars == <<clock, lock, callVars, store, safetyVars, audit, ghostVars>>

Init ==
    /\ clock = 0
    /\ lock = None
    /\ pc = [t \in Threads |-> "idle"]
    /\ request = [t \in Threads |-> None]
    /\ now = [t \in Threads |-> 0]
    /\ status = [t \in Threads |-> None]
    /\ store = [k \in Keys |-> None]
    /\ breakers = [c \in Channels |-> NewBreaker]
    /\ history = <<>>
    /\ switches = {}
    /\ audit = <<>>
    /\ performed = [k \in Keys |-> <<>>]
    /\ answered = {}
    /\ slipped = 0
    /\ reserved = <<>>
    /\ timely = {}
    /\ latest = 0

-----------------------------------------------------------------------------
(* The steps of a call.                                                    *)

\* The call moves on to the gate g.
Goto(t, g) == pc' = [pc EXCEPT ![t] = g]

\* The call is over: it returned or raised.
Finish(t) ==
    /\ Goto(t, "idle")
    /\ request' = [request EXCEPT ![t] = None]
    /\ now' = [now EXCEPT ![t] = 0]
    /\ status' = [status EXCEPT ![t] = None]

\* It was inside the with-block, which frees the lock.
Leave(t) == Finish(t) /\ lock' = None

\* Gate 1, before the lock: a call that fails it raises and leaves no trace.
Call(t, r, k) ==
    /\ pc[t] = "idle"
    /\ Verifies(k, r, clock)
    /\ Goto(t, "waiting")
    /\ request' = [request EXCEPT ![t] = r]
    /\ now' = [now EXCEPT ![t] = clock]
    /\ UNCHANGED <<clock, lock, status, store, safetyVars, audit, ghostVars>>

\* Mutant: the key alone decides what a replay is.
MatchesKey(result, r) == result.request.key = r.key

\* ExecutionResult.matches_request: every field but the payload.
Matches(result, r) == result.request = r

\* Mutant: the threads do not exclude each other.
LockFreeAlways(t) == TRUE

LockFree(t) == lock = None

\* Gate 2 finds nothing under the key, and the call keeps the lock.
Enter(t) ==
    /\ pc[t] = "waiting"
    /\ LockFree(t)
    /\ store[request[t].key] = None
    /\ lock' = t
    /\ Goto(t, "switch")
    /\ UNCHANGED <<clock, request, now, status, store, safetyVars, audit,
                   ghostVars>>

\* Gate 2 finds the result of the same request and returns it.
Replay(t) ==
    /\ pc[t] = "waiting"
    /\ LockFree(t)
    /\ LET result == store[request[t].key]
       IN  /\ result # None
           /\ Matches(result, request[t])
           /\ answered' = answered \cup {[request |-> request[t],
                                          outcome |-> result.outcome]}
    /\ Finish(t)
    /\ UNCHANGED <<clock, lock, store, safetyVars, audit,
                   performed, slipped, windowVars>>

\* Gate 2 finds the result of another request: IdempotencyConflictError.
Conflict(t) ==
    /\ pc[t] = "waiting"
    /\ LockFree(t)
    /\ store[request[t].key] # None
    /\ ~Matches(store[request[t].key], request[t])
    /\ Finish(t)
    /\ UNCHANGED <<clock, lock, store, safetyVars, audit, ghostVars>>

\* Mutant: the gate looks at the switches of the request's own scopes only.
StoppedByScope(t) == Halted(switches \ {Global}, request[t])

\* KillSwitchManager.check_execution_allowed raises.
Stopped(t) == Halted(switches, request[t])

\* Gate 3.
SwitchGate(t) ==
    /\ pc[t] = "switch"
    /\ IF Stopped(t)
       THEN Leave(t)
       ELSE /\ Goto(t, "breaker")
            /\ UNCHANGED <<lock, request, now, status>>
    /\ UNCHANGED <<clock, store, safetyVars, audit, ghostVars>>

\* Gate 4: admission takes a half-open probe, refusal keeps the evaluation.
BreakerGate(t) ==
    LET c == request[t].channel
    IN  /\ pc[t] = "breaker"
        /\ breakers' = [breakers EXCEPT ![c] = Admit(@, now[t])]
        /\ IF Admits(breakers[c], now[t])
           THEN /\ Goto(t, "egress")
                /\ UNCHANGED <<lock, request, now, status>>
           ELSE Leave(t)
        /\ UNCHANGED <<clock, store, history, switches, audit, ghostVars>>

\* Gate 5: the destination is allowed by name and resolves, this time, to
\* loopback addresses only.  Raising here abandons the probe gate 4 took.
EgressGate(t, resolves) ==
    /\ pc[t] = "egress"
    /\ IF request[t].url \in SafeUrls /\ resolves
       THEN /\ Goto(t, "capacity")
            /\ UNCHANGED <<lock, request, now, status>>
       ELSE Leave(t)
    /\ UNCHANGED <<clock, store, safetyVars, audit, ghostVars>>

Later(n) == IF n > latest THEN n ELSE latest

\* Gate 6: raising here abandons the probe too.
CapacityGate(t) ==
    LET amount == request[t].amount
    IN  /\ pc[t] = "capacity"
        /\ history' = Reserve(history, amount, now[t])
        /\ latest' = Later(now[t])
        /\ IF HasRoom(Purge(history, now[t]), amount)
           THEN /\ Goto(t, "dispatch")
                /\ reserved' = Append(reserved,
                                      [at |-> now[t], amount |-> amount])
                /\ timely' = IF now[t] >= latest
                             THEN timely \cup {Len(reserved) + 1} ELSE timely
                /\ UNCHANGED <<lock, request, now, status>>
           ELSE /\ Leave(t)
                /\ UNCHANGED <<reserved, timely>>
        /\ UNCHANGED <<clock, store, breakers, switches, audit, serviceVars,
                       slipped>>

\* Gate 7 hands the action to the sandbox handler.
Dispatch(t) ==
    LET r == request[t]
    IN  /\ pc[t] = "dispatch"
        /\ performed' = [performed EXCEPT ![r.key] = Append(@, r)]
        /\ slipped' = IF Halted(switches, r) THEN slipped + 1 ELSE slipped
        /\ Goto(t, "response")
        /\ UNCHANGED <<clock, lock, request, now, status, store, safetyVars,
                       audit, answered, windowVars>>

\* Mutant: the outcome is lost on the way to the result.
StatusDropped(s) == None

\* The status of the result, from what the handler did.
StatusOf(s) == s

\* The handler succeeds, answers with a failure or raises, and the breaker
\* is told.
Respond(t, s) ==
    LET c == request[t].channel
    IN  /\ pc[t] = "response"
        /\ status' = [status EXCEPT ![t] = StatusOf(s)]
        /\ breakers' = [breakers EXCEPT
                          ![c] = IF s = "SUCCESS"
                                 THEN RecordSuccess(@, now[t])
                                 ELSE RecordFailure(@, now[t])]
        /\ Goto(t, "record")
        /\ UNCHANGED <<clock, lock, request, now, store, history, switches,
                       audit, ghostVars>>

\* The answer of the handler makes no ExecutionResult: it is no dict, or a
\* dict whose error is no string.  The validation error ends the call, after
\* its dispatch and the report to the breaker, and leaves no other trace.
Refuse(t) ==
    LET k == request[t].key
    IN  /\ pc[t] = "record"
        /\ performed' = [performed EXCEPT ![k] = <<>>]
        /\ Leave(t)
        /\ UNCHANGED <<clock, store, safetyVars, audit, answered, slipped,
                       windowVars>>

ResultOf(t) == [request |-> request[t], outcome |-> status[t], at |-> now[t]]

\* Mutant: a failure is not remembered, so that it can be retried.
StoredSuccess(t) ==
    IF status[t] = "SUCCESS"
    THEN [store EXCEPT ![request[t].key] = ResultOf(t)]
    ELSE store

Stored(t) == [store EXCEPT ![request[t].key] = ResultOf(t)]

\* Gate 8 commits the result to the idempotency store ...
Record(t) ==
    /\ pc[t] = "record"
    /\ store' = Stored(t)
    /\ Goto(t, "audit")
    /\ UNCHANGED <<clock, lock, request, now, status, safetyVars, audit,
                   ghostVars>>

EntryOf(t) == [key |-> request[t].key, outcome |-> status[t], at |-> now[t]]

\* Mutant: only what succeeded is logged.
LoggedSuccess(t) ==
    IF status[t] = "SUCCESS" THEN Append(audit, EntryOf(t)) ELSE audit

Logged(t) == Append(audit, EntryOf(t))

\* ... writes the audit entry and returns the result.
Audit(t) ==
    /\ pc[t] = "audit"
    /\ audit' = Logged(t)
    /\ answered' = answered \cup {[request |-> request[t],
                                   outcome |-> status[t]]}
    /\ Leave(t)
    /\ UNCHANGED <<clock, store, safetyVars, performed, slipped, windowVars>>

-----------------------------------------------------------------------------
(* The arbitrator, the operator and the clock.                             *)

\* ControlPlaneArbitrator._evaluate_safety asks the breaker of a channel with
\* the time its arbitration began at, and takes a probe if it is let in ...
ArbitrateBreaker(c, n) ==
    /\ breakers' = [breakers EXCEPT ![c] = Admit(@, n)]
    /\ UNCHANGED <<clock, lock, callVars, store, history, switches, audit,
                   ghostVars>>

\* ... and then the governor, which purges its history at that time.
ArbitrateCapacity(n) ==
    /\ history' = Purge(history, n)
    /\ latest' = Later(n)
    /\ UNCHANGED <<clock, lock, callVars, store, breakers, switches, audit,
                   serviceVars, slipped, reserved, timely>>

Activate(s) ==
    /\ s \notin switches
    /\ switches' = switches \cup {s}
    /\ slipped' = 0
    /\ UNCHANGED <<clock, lock, callVars, store, breakers, history, audit,
                   serviceVars, windowVars>>

Deactivate(s) ==
    /\ s \in switches
    /\ switches' = switches \ {s}
    /\ UNCHANGED <<clock, lock, callVars, store, breakers, history, audit,
                   ghostVars>>

\* KillSwitchManager.reset_all.
ResetSwitches ==
    /\ switches' = {}
    /\ UNCHANGED <<clock, lock, callVars, store, breakers, history, audit,
                   ghostVars>>

\* GranularCircuitBreakerRegistry.reset_all.
ResetBreakers ==
    /\ breakers' = [c \in Channels |-> Reset]
    /\ UNCHANGED <<clock, lock, callVars, store, history, switches, audit,
                   ghostVars>>

Tick ==
    /\ clock < MaxTime
    /\ clock' = clock + 1
    /\ UNCHANGED <<lock, callVars, store, safetyVars, audit, ghostVars>>

\* A step of a call that is past gate 1.
Proceed(t) ==
    \/ Enter(t)
    \/ Replay(t)
    \/ Conflict(t)
    \/ SwitchGate(t)
    \/ BreakerGate(t)
    \/ \E resolves \in BOOLEAN : EgressGate(t, resolves)
    \/ CapacityGate(t)
    \/ Dispatch(t)
    \/ \E s \in Outcomes : Respond(t, s)
    \/ Refuse(t)
    \/ Record(t)
    \/ Audit(t)

Next ==
    \/ \E t \in Threads : Proceed(t)
    \/ \E t \in Threads, r \in Requests, k \in Tokens : Call(t, r, k)
    \/ \E c \in Channels, n \in 0..clock : ArbitrateBreaker(c, n)
    \/ \E n \in 0..clock : ArbitrateCapacity(n)
    \/ \E s \in Switches : Activate(s) \/ Deactivate(s)
    \/ ResetSwitches
    \/ ResetBreakers
    \/ Tick

Spec == Init /\ [][Next]_vars

\* A thread that can run does run: the handler returns and no gate blocks
\* but for the lock, which is not fair between the threads that wait.
FairSpec == Spec /\ \A t \in Threads : WF_vars(lock = t /\ Proceed(t))

-----------------------------------------------------------------------------
(* Properties.                                                             *)

Gates == {"switch", "breaker", "egress", "capacity", "dispatch"}

Sent == {"response", "record", "audit"}

PCs == {"idle", "waiting"} \cup Gates \cup Sent

\* The type invariant.
TypeOK ==
    /\ clock \in Nat
    /\ lock \in Threads \cup {None}
    /\ pc \in [Threads -> PCs]
    /\ request \in [Threads -> Requests \cup {None}]
    /\ now \in [Threads -> Nat]
    /\ status \in [Threads -> Outcomes \cup {None}]
    /\ store \in [Keys -> Result \cup {None}]
    /\ breakers \in [Channels -> Breaker]
    /\ history \in Seq(Reservation)
    /\ switches \subseteq Switches
    /\ audit \in Seq(Entry)
    /\ performed \in [Keys -> Seq(Requests)]
    /\ answered \subseteq [request : Requests, outcome : Outcomes]
    /\ slipped \in Nat
    /\ reserved \in Seq(Reservation)
    /\ timely \subseteq DOMAIN reserved
    /\ latest \in Nat

\* The action of an idempotency key is dispatched at most once, however many
\* threads retry it, unless the result of a dispatch was refused, and a
\* recorded result is of the request dispatched.
AtMostOnce ==
    \A k \in Keys :
        /\ Len(performed[k]) <= 1
        /\ store[k] # None => performed[k] = <<store[k].request>>

\* Whoever is given a result for a key, by execution or by replay, is given
\* the same result and had asked for the same action.
OneAnswerPerKey ==
    \A a, b \in answered : a.request.key = b.request.key => a = b

\* Every action that was dispatched and whose result was not refused is in the
\* idempotency store and in the audit log, once and with one outcome, unless
\* the thread that holds the lock is still finishing it.
Audited(k) ==
    /\ store[k] # None
    /\ \E i \in DOMAIN audit :
          audit[i] = [key |-> k, outcome |-> store[k].outcome,
                      at |-> store[k].at]

AuditAgreesWithStore ==
    /\ \A k \in Keys :
          performed[k] # <<>> =>
              \/ Audited(k)
              \/ \E t \in Threads : /\ lock = t
                                    /\ pc[t] \in Sent
                                    /\ request[t].key = k
    /\ \A i, j \in DOMAIN audit : audit[i].key = audit[j].key => i = j

\* After a kill switch is activated at most one request it halts is still
\* dispatched: the one that was already past gate 3, whatever other switches
\* are lifted meanwhile.
SlippedAtMostOne == slipped <= 1

\* What the governor's docstring promises of any calls: no window of
\* window_seconds ever holds more executed actions, or more volume, than its
\* limits.
RollingWindow ==
    \A from \in 0..clock : WithinLimits(reserved, Len(reserved), from)

\* What the governor does enforce, whatever times it was given before by the
\* executor and the arbitrator, and whatever it purged at them: with a
\* reservation at a time that is not earlier than any of those, the window
\* that ends at this time is within the limits, reservations that were made
\* late included.
TimelyWithinLimits ==
    \A i \in timely : WithinLimits(reserved, i, reserved[i].at - WindowSeconds)

\* The executor implements the at-most-once service.
Service == INSTANCE IdempotentExecution
             WITH Requests <- Requests, Outcomes <- Outcomes,
                  performed <- performed, answered <- answered

ImplementsService == Service!Spec

\* An action that was dispatched gets its audit entry unless its result is
\* refused.
DispatchIsAudited ==
    \A k \in Keys :
        performed[k] # <<>> ~> \/ \E i \in DOMAIN audit : audit[i].key = k
                              \/ performed[k] = <<>>

=============================================================================
