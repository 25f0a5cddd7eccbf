-------------------------- MODULE RecoveryPipeline --------------------------
(***************************************************************************)
(* The recovery loop of one case, from its diagnosis to its execution, run *)
(* by several workers beside an operator: the program of the integration   *)
(* test, composed of the case manager, the decision engine, the experiment *)
(* engine, the arbitrator, the policy engine, the authorizer and the       *)
(* executor, with the state they share.                                    *)
(*                                                                         *)
(* A worker works on copies: the case as a transition or a lookup returned *)
(* it, the diagnosis, the decision, the arm of the experiment.  arbitrate  *)
(* has no lock: each of its gates reads a component at a different time.   *)
(* Calls that hold one lock throughout are one step.  execute_action has a *)
(* module of its own, ActionExecutor; here its gates are one step.         *)
(***************************************************************************)
EXTENDS BreakerOps, CapacityOps, KillSwitchOps, CaseOps, DecisionOps

CONSTANTS Workers,
          Events,       \* the payment failures a case may be created for
          Proposals,    \* the artifacts that other providers may return
          Policies,     \* the policies an operator may register
          PolicyIds,    \* the ids they are registered under
          Configs,      \* the configurations of the experiment
          Score,        \* Score[salt][tier]: the case's bucket score, in
                        \* hundredths
          Obligations,  \* the obligations of the case
          Switches,     \* the kill switches an operator may flip
          Trippable,    \* the breakers an operator may trip
          TokenLife,    \* how long a token is valid
          MaxTime,          \* bound on the clock
          MaxInterventions  \* bound on what the operator does

Targets == {Gateway, Internal, "EMAIL", "GLOBAL"}

Arms == {"TREATMENT", "CONTROL", "EXCLUDED"}

\* The action and the parameters of an artifact.  Those of another provider
\* may lack a channel or an amount.
Decision == [action : Actions, channel : Targets \cup {None},
             amount : Int \cup {None}, confidence : 0..100]

SafetyVerdicts == {"PASS", "CIRCUIT_BROKEN", "KILL_SWITCH_ACTIVE",
                   "CAPACITY_EXCEEDED"}

\* The entries of the audit log that tell why.
Entries == {"DECISION_ARTIFACT_CREATED", "POLICY_EVALUATED",
            "ARBITRATION_EVALUATED"}

\* The amount of an event is positive.
ASSUME PipelineAssumption ==
    /\ Events \subseteq [reason : Reasons, supported : BOOLEAN,
                         amount : Nat \ {0}]
    /\ Proposals \subseteq Decision
    /\ None \notin Arms
    /\ MaxTime \in Nat
    /\ MaxInterventions \in Nat

\* What arbitrate may find wrong.
Blockers == {"switch", "breaker", "capacity", "policy", "obligation", "arm"}

VARIABLES clock,          \* real time
          event,          \* the PaymentFailureEvent of the case
          case,           \* the case as the registry has it
          run,            \* run[w]: what worker w is doing, or None
          switches,       \* the kill switches that are active
          breakers,       \* the registry the arbitrator and the executor share
          history,        \* the capacity governor's reservations
          policies,       \* policies[id]: the policy registered, or None
          experiment,     \* the configuration of the experiment
          assigned,       \* the arm recorded for the case, or None
          obligations,    \* the obligations of the case that are pending
          interventions,  \* how often the operator has intervened
          treated,        \* history: an action was dispatched for the case
          standing        \* history: standing[w], what has blocked the case
                          \* ever since w's arbitration began

\* What no worker changes, and the safety components that they do change.
operatorVars == <<event, switches, policies, experiment, obligations,
                  interventions>>
safetyVars   == <<breakers, history>>
vars == <<clock, case, run, operatorVars, safetyVars, assigned, treated,
          standing>>

\* DEFAULT_STANDARD_POLICY, which a new engine has registered.
StandardPolicy == [lifecycle |-> "PRODUCTION", rules |-> StandardRules]

Init ==
    /\ clock = 0
    /\ event \in Events
    /\ case = [state |-> "OPEN", tier |-> "LOW", attempts |-> 0,
               amount |-> event.amount]
    /\ run = [w \in Workers |-> None]
    /\ switches = {}
    /\ breakers = [c \in Targets |-> NewBreaker]
    /\ history = <<>>
    /\ policies = [p \in PolicyIds |->
                    IF p = "standard" THEN StandardPolicy ELSE None]
    /\ experiment \in Configs
    /\ assigned = None
    /\ obligations = {}
    /\ interventions = 0
    /\ treated = FALSE
    /\ standing = [w \in Workers |-> {}]

-----------------------------------------------------------------------------
(* The run of a worker.                                                    *)

Step(w) == IF run[w] = None THEN "none" ELSE run[w].step

Goto(w, step) == run' = [run EXCEPT ![w].step = step]

\* The worker gives up, because a call raised or there is no more to do.
Quit(w) == run' = [run EXCEPT ![w] = None]

-----------------------------------------------------------------------------
(* What an arbitration looks at, and a history of what it finds.           *)

RequestOf(w) == [action |-> run[w].decision.action,
                 channel |-> run[w].decision.channel,
                 customer |-> "customer", case |-> "case"]

\* The breaker arbitrate asks.
TargetOf(w) == IF run[w].decision.channel = None THEN "GLOBAL"
                                                 ELSE run[w].decision.channel

\* The amount arbitrate asks capacity for.
AmountOf(w) == IF run[w].decision.amount = None THEN 0
                                                ELSE run[w].decision.amount

SafetyFrozen(w) == run[w].view.state = "FROZEN"

\* What stands in the way of w's decision now, by what its arbitration was
\* given and for the time it captured.
BlockersOf(w) ==
    LET c == TargetOf(w)
        live == Purge(history, run[w].now)
    IN  {b \in Blockers :
           CASE b = "switch"     -> \/ SafetyFrozen(w)
                                    \/ Halted(switches, RequestOf(w))
             [] b = "breaker"    -> ~Admits(breakers[c], run[w].now)
             [] b = "capacity"   -> ~HasRoom(live, AmountOf(w))
             [] b = "policy"     -> ~Permits(policies[run[w].policy],
                                             run[w].view, run[w].dx,
                                             run[w].decision)
             [] b = "obligation" -> \E o \in obligations :
                                       /\ o.time <= run[w].now
                                       /\ o.type \in {"COOLING_OFF",
                                                      "MANDATORY_DISCLOSURE"}
             [] b = "arm"        -> run[w].arm # "TREATMENT"}

\* From the call of arbitrate until the worker acts on its outcome.
Arbitrating == {"switch", "breaker", "capacity", "policy", "obligations",
                "authorize"}

\* The history variable standing sees every state.
Observe ==
    standing' =
      [w \in Workers |->
         IF Step(w)' \in Arbitrating
         THEN BlockersOf(w)' \cap (IF Step(w) \in Arbitrating
                                   THEN standing[w]
                                   ELSE Blockers)
         ELSE {}]

\* What every step of a worker leaves alone.
Working ==
    /\ UNCHANGED <<clock, operatorVars>>
    /\ Observe

-----------------------------------------------------------------------------
(* From the diagnosis to the arm of the experiment.                        *)

\* transition_case for the worker, which takes the case it returns as its
\* view; a transition that is not allowed raises.
Transition(w, target, attempts, next) ==
    LET moved == [case EXCEPT !.state = target, !.attempts = attempts]
    IN  IF target \in Allowed(case.state)
        THEN /\ case' = moved
             /\ run' = [run EXCEPT ![w].view = moved, ![w].step = next]
        ELSE Quit(w) /\ UNCHANGED case

\* A worker picks the case up when it is open, or when it was unfrozen, and
\* diagnoses it.  Only a new case makes the transition, with its tier.
Diagnose(w) ==
    LET dx == Diagnosis(event, case.attempts)
        seen == IF case.state = "OPEN"
                THEN [case EXCEPT !.state = "DIAGNOSED", !.tier = dx.tier]
                ELSE case
    IN  /\ run[w] = None
        /\ case.state \in {"OPEN", "DIAGNOSED"}
        /\ case' = seen
        /\ run' = [run EXCEPT
                     ![w] = [step |-> "evaluate", view |-> seen, dx |-> dx,
                             decision |-> None, default |-> FALSE,
                             arm |-> None, policy |-> None, now |-> 0,
                             safety |-> "PASS", logged |-> {}]]
        /\ UNCHANGED <<safetyVars, assigned, treated>>
        /\ Working

\* ... and moves it to EVALUATING.
StartEvaluation(w) ==
    /\ Step(w) = "evaluate"
    /\ Transition(w, "EVALUATING", case.attempts, "decide")
    /\ UNCHANGED <<safetyVars, assigned, treated>>
    /\ Working

Artifacts(w) ==
    {[decision |-> Recommendation(run[w].view, run[w].dx), default |-> TRUE]}
    \cup {[decision |-> d, default |-> FALSE] : d \in Proposals}

\* AIDecisionEngine.evaluate_case with the default or another provider.  The
\* state it requires is that of the worker's view.
Decide(w) ==
    /\ Step(w) = "decide"
    /\ run[w].view.state \in Evaluable
    /\ \E a \in Artifacts(w) :
          run' = [run EXCEPT ![w].step = "assign",
                             ![w].decision = a.decision,
                             ![w].default = a.default,
                             ![w].logged = {"DECISION_ARTIFACT_CREATED"}]
    /\ UNCHANGED <<case, safetyVars, assigned, treated>>
    /\ Working

\* The arm the configuration gives the case.
ArmOf(config, tier) ==
    LET score == Score[config.salt][tier]
    IN  CASE score < config.treatment -> "TREATMENT"
          [] score >= config.treatment
             /\ score < config.treatment + config.control -> "CONTROL"
          [] OTHER -> "EXCLUDED"

\* Mutant: the arm is computed anew for each assignment.
ArmAnew(w) == ArmOf(experiment, run[w].view.tier)

\* The arm that assign returns: the one recorded, if there is one.
Arm(w) == IF assigned = None THEN ArmOf(experiment, run[w].view.tier)
                             ELSE assigned

\* ExperimentEngine.assign, which looks whether the experiment is active
\* before it looks for a record.
Assign(w) ==
    /\ Step(w) = "assign"
    /\ IF experiment.active
       THEN /\ assigned' = Arm(w)
            /\ run' = [run EXCEPT ![w].step = "arbitrate", ![w].arm = Arm(w)]
       ELSE Quit(w) /\ UNCHANGED assigned
    /\ UNCHANGED <<case, safetyVars, treated>>
    /\ Working

-----------------------------------------------------------------------------
(* ControlPlaneArbitrator.arbitrate.                                       *)

\* The worker calls arbitrate for a policy, with the view it has or one it
\* has just looked up.
Arbitrate(w, p, fresh) ==
    /\ Step(w) = "arbitrate"
    /\ run' = [run EXCEPT ![w].step = "switch", ![w].policy = p,
                          ![w].view = IF fresh THEN case ELSE @,
                          ![w].now = clock]
    /\ UNCHANGED <<case, safetyVars, assigned, treated>>
    /\ Working

\* The safety verdict is reached: the compliance of the decision is evaluated
\* whatever it is.
Verdict(w, safety) == run' = [run EXCEPT ![w].step = "policy",
                                         ![w].safety = safety]

\* A frozen case, and then the kill switches.
SwitchGate(w) ==
    /\ Step(w) = "switch"
    /\ IF SafetyFrozen(w) \/ Halted(switches, RequestOf(w))
       THEN Verdict(w, "KILL_SWITCH_ACTIVE")
       ELSE Goto(w, "breaker")
    /\ UNCHANGED <<case, safetyVars, assigned, treated>>
    /\ Working

\* check_execution_allowed takes a probe of a HALF_OPEN breaker.
BreakerGate(w) ==
    LET c == TargetOf(w)
    IN  /\ Step(w) = "breaker"
        /\ breakers' = [breakers EXCEPT ![c] = Admit(@, run[w].now)]
        /\ IF Admits(breakers[c], run[w].now)
           THEN Goto(w, "capacity")
           ELSE Verdict(w, "CIRCUIT_BROKEN")
        /\ UNCHANGED <<case, history, assigned, treated>>
        /\ Working

\* check_capacity_available purges and reserves nothing.
CapacityGate(w) ==
    LET live == Purge(history, run[w].now)
    IN  /\ Step(w) = "capacity"
        /\ history' = live
        /\ Verdict(w, IF HasRoom(live, AmountOf(w)) THEN "PASS"
                                                    ELSE "CAPACITY_EXCEEDED")
        /\ UNCHANGED <<case, breakers, assigned, treated>>
        /\ Working

\* The arbitration matrix.
Outcome(safety, compliance, arm) ==
    LET clear == safety = "PASS" /\ compliance = "APPROVED"
    IN  CASE safety = "KILL_SWITCH_ACTIVE" -> "BLOCK"
          [] safety \in {"CIRCUIT_BROKEN", "CAPACITY_EXCEEDED"} -> "HOLD"
          [] safety = "PASS" /\ compliance = "BLOCKED" -> "BLOCK"
          [] safety = "PASS" /\ compliance = "DEFERRED" -> "DEFER"
          [] clear /\ arm = "CONTROL" -> "HOLD"
          [] clear /\ arm = "EXCLUDED" -> "BLOCK"
          [] clear /\ arm = "TREATMENT" -> "PROCEED"

\* arbitrate logs its record and returns it.  A worker that is not told to
\* proceed, or has nothing to do, or no channel to do it on, ends its run.
Conclude(w, compliance, entries) ==
    LET r == run[w]
    IN  IF /\ Outcome(r.safety, compliance, r.arm) = "PROCEED"
           /\ r.decision.action # "NO_ACTION"
           /\ r.decision.channel # None
        THEN run' = [run EXCEPT ![w].step = "authorize",
                                ![w].logged = @ \cup entries
                                              \cup {"ARBITRATION_EVALUATED"}]
        ELSE Quit(w)

\* Mutant: a policy that is not registered forbids nothing.
PermittedOpen(w) ==
    \/ policies[run[w].policy] = None
    \/ Permits(policies[run[w].policy], run[w].view, run[w].dx,
               run[w].decision)

Permitted(w) == Permits(policies[run[w].policy], run[w].view, run[w].dx,
                        run[w].decision)

\* PolicyEngine.evaluate logs its result, unless there is no such policy.
PolicyGate(w) ==
    LET found == policies[run[w].policy] # None
        entries == IF found THEN {"POLICY_EVALUATED"} ELSE {}
    IN  /\ Step(w) = "policy"
        /\ IF Permitted(w)
           THEN run' = [run EXCEPT ![w].step = "obligations",
                                   ![w].logged = @ \cup entries]
           ELSE Conclude(w, "BLOCKED", entries)
        /\ UNCHANGED <<case, safetyVars, assigned, treated>>
        /\ Working

\* Mutant: only a cooling-off period defers.
DefersCooling(type) == type = "COOLING_OFF"

Defers(type) == type \in {"COOLING_OFF", "MANDATORY_DISCLOSURE"}

\* The pending obligations that are due and defer an execution.
Due(now) == {o \in obligations : o.time <= now /\ Defers(o.type)}

ObligationGate(w) ==
    /\ Step(w) = "obligations"
    /\ Conclude(w, IF Due(run[w].now) = {} THEN "APPROVED" ELSE "DEFERRED", {})
    /\ UNCHANGED <<case, safetyVars, assigned, treated>>
    /\ Working

-----------------------------------------------------------------------------
(* Authorization and execution.                                            *)

\* The token is minted with the time of the arbitration, and the case is
\* scheduled.
Authorize(w) ==
    /\ Step(w) = "authorize"
    /\ Transition(w, "SCHEDULED", case.attempts, "start")
    /\ UNCHANGED <<safetyVars, assigned, treated>>
    /\ Working

\* Mutant: attempts are counted without looking at the limit.
NeverExhausted(counted) == FALSE

Exhausted(counted) == counted /\ case.attempts >= MaxAttempts

\* The case is moved to EXECUTING and counts an attempt, or not.
Start(w, counted) ==
    /\ Step(w) = "start"
    /\ IF Exhausted(counted)
       THEN Quit(w) /\ UNCHANGED case
       ELSE Transition(w, "EXECUTING",
                       IF counted THEN case.attempts + 1 ELSE case.attempts,
                       "submit")
    /\ UNCHANGED <<safetyVars, assigned, treated>>
    /\ Working

\* execute_action up to its dispatch, at the time of the call: the token has
\* not expired, no switch is active, the breaker admits the call, the
\* destination resolves and there is room.  When it raises, the worker may
\* call it again.
Submit(w, resolves) ==
    LET c == run[w].decision.channel
        amount == run[w].view.amount
        checked == /\ clock < run[w].now + TokenLife
                   /\ ~Halted(switches, RequestOf(w))
        probing == checked /\ Admits(breakers[c], clock)
        reserving == probing /\ resolves
        sent == reserving /\ HasRoom(Purge(history, clock), amount)
    IN  /\ Step(w) = "submit"
        /\ breakers' = IF checked
                       THEN [breakers EXCEPT ![c] = Admit(@, clock)]
                       ELSE breakers
        /\ history' = IF reserving THEN Reserve(history, amount, clock)
                                   ELSE history
        /\ IF sent
           THEN /\ run' = [run EXCEPT ![w].step = "handler",
                                      ![w].now = clock]
                /\ treated' = TRUE
           ELSE /\ Quit(w) \/ UNCHANGED run
                /\ UNCHANGED treated
        /\ UNCHANGED <<case, assigned>>
        /\ Working

\* The simulators ask the sandbox guard again, and answer with a success in one
\* scenario only.
Charged(scenario, resolves) == resolves /\ scenario = "SUCCESS"

Dispatched(scenario, resolves) == resolves /\ scenario = "SUCCESS"

\* The handler, by the channel.  An internal action has no scenario.
Simulated(channel, scenario, resolves) ==
    CASE channel = Gateway  -> Charged(scenario, resolves)
      [] channel = Internal -> resolves
      [] OTHER              -> Dispatched(scenario, resolves)

\* The handler answers, and the executor reports to the breaker.
Respond(w, scenario, resolves) ==
    LET c == run[w].decision.channel
    IN  /\ Step(w) = "handler"
        /\ IF Simulated(c, scenario, resolves)
           THEN /\ breakers' = [breakers EXCEPT
                                  ![c] = RecordSuccess(@, run[w].now)]
                /\ Goto(w, "settle")
           ELSE /\ breakers' = [breakers EXCEPT
                                  ![c] = RecordFailure(@, run[w].now)]
                /\ Quit(w)
        /\ UNCHANGED <<case, history, assigned, treated>>
        /\ Working

\* What was recovered is to be reconciled.
Settle(w) ==
    /\ Step(w) = "settle"
    /\ Quit(w)
    /\ case' = IF "RECONCILING" \in Allowed(case.state)
               THEN [case EXCEPT !.state = "RECONCILING"]
               ELSE case
    /\ UNCHANGED <<safetyVars, assigned, treated>>
    /\ Working

-----------------------------------------------------------------------------
(* The operator and the clock.                                             *)

Intervene ==
    /\ interventions < MaxInterventions
    /\ interventions' = interventions + 1
    /\ UNCHANGED <<clock, run, event, treated, assigned, history>>
    /\ Observe

FreezeCase ==
    /\ "FROZEN" \in Allowed(case.state)
    /\ case' = [case EXCEPT !.state = "FROZEN"]
    /\ UNCHANGED <<switches, breakers, policies, experiment, obligations>>
    /\ Intervene

\* unfreeze_case, to DIAGNOSED.
UnfreezeCase ==
    /\ case.state = "FROZEN"
    /\ case' = [case EXCEPT !.state = "DIAGNOSED"]
    /\ UNCHANGED <<switches, breakers, policies, experiment, obligations>>
    /\ Intervene

\* A switch is activated or deactivated.
FlipSwitch(s) ==
    /\ switches' = IF s \in switches THEN switches \ {s} ELSE switches \cup {s}
    /\ UNCHANGED <<case, breakers, policies, experiment, obligations>>
    /\ Intervene

\* CircuitBreaker.trip_manually.
TripBreaker(c) ==
    /\ breakers' = [breakers EXCEPT ![c] = Trip(@, clock)]
    /\ UNCHANGED <<case, switches, policies, experiment, obligations>>
    /\ Intervene

\* PolicyEngine.register_policy: a new policy, or a new state of one.
RegisterPolicy(p, policy) ==
    /\ policies[p] # policy
    /\ policies' = [policies EXCEPT ![p] = policy]
    /\ UNCHANGED <<case, switches, breakers, experiment, obligations>>
    /\ Intervene

\* register_experiment: other ratios, another salt, or not active.
RegisterExperiment(config) ==
    /\ config # experiment
    /\ experiment' = config
    /\ UNCHANGED <<case, switches, breakers, policies, obligations>>
    /\ Intervene

\* An obligation is scheduled, or satisfied.
SwapObligation(o) ==
    /\ obligations' = IF o \in obligations THEN obligations \ {o}
                                           ELSE obligations \cup {o}
    /\ UNCHANGED <<case, switches, breakers, policies, experiment>>
    /\ Intervene

Tick ==
    /\ clock < MaxTime
    /\ clock' = clock + 1
    /\ UNCHANGED <<case, run, operatorVars, safetyVars, assigned, treated>>
    /\ Observe

-----------------------------------------------------------------------------

Work(w) ==
    \/ Diagnose(w)
    \/ StartEvaluation(w)
    \/ Decide(w)
    \/ Assign(w)
    \/ \E p \in PolicyIds, fresh \in BOOLEAN : Arbitrate(w, p, fresh)
    \/ SwitchGate(w)
    \/ BreakerGate(w)
    \/ CapacityGate(w)
    \/ PolicyGate(w)
    \/ ObligationGate(w)
    \/ Authorize(w)
    \/ \E counted \in BOOLEAN : Start(w, counted)
    \/ \E resolves \in BOOLEAN : Submit(w, resolves)
    \/ \E scenario \in {"SUCCESS", "DECLINED"}, resolves \in BOOLEAN :
          Respond(w, scenario, resolves)
    \/ Settle(w)

Operate ==
    \/ FreezeCase
    \/ UnfreezeCase
    \/ \E s \in Switches : FlipSwitch(s)
    \/ \E c \in Trippable : TripBreaker(c)
    \/ \E p \in PolicyIds, policy \in Policies : RegisterPolicy(p, policy)
    \/ \E config \in Configs : RegisterExperiment(config)
    \/ \E o \in Obligations : SwapObligation(o)

Next ==
    \/ \E w \in Workers : Work(w)
    \/ Operate
    \/ Tick

Spec == Init /\ [][Next]_vars

-----------------------------------------------------------------------------
(* Properties.                                                             *)

Steps == Arbitrating \cup {"evaluate", "decide", "assign", "arbitrate",
                          "start", "submit", "handler", "settle"}

CaseRecord == [state : States, tier : Tiers, attempts : 0..MaxAttempts,
               amount : Nat]

Run == [step : Steps, view : CaseRecord, dx : DiagnosisResult,
        decision : Decision \cup {None}, default : BOOLEAN,
        arm : Arms \cup {None}, policy : PolicyIds \cup {None},
        now : 0..MaxTime, safety : SafetyVerdicts, logged : SUBSET Entries]

\* The type invariant: in particular neither a case nor the view of a run has
\* more attempts than max_attempts.
TypeOK ==
    /\ clock \in 0..MaxTime
    /\ event \in Events
    /\ case \in CaseRecord
    /\ run \in [Workers -> Run \cup {None}]
    /\ switches \subseteq Switches
    /\ breakers \in [Targets -> Breaker]
    /\ history \in Seq(Reservation)
    /\ policies \in [PolicyIds -> Policies \cup {StandardPolicy, None}]
    /\ experiment \in Configs
    /\ assigned \in Arms \cup {None}
    /\ obligations \subseteq Obligations
    /\ interventions \in 0..MaxInterventions
    /\ treated \in BOOLEAN
    /\ standing \in [Workers -> SUBSET Blockers]

\* The holdback of the experiment is never treated: a case whose action was
\* dispatched is recorded in the TREATMENT arm, and stays so, although the
\* experiment is registered anew with other ratios and other salts, made
\* inactive and active again, and the case is frozen and run again.
HoldbackNeverTreated == treated => assigned = "TREATMENT"

\* arbitrate reads one component after the other, while an operator and other
\* workers change them.  Still nothing that stood in the way of a decision from
\* its call to its return is overlooked when the outcome is PROCEED.
NoBlockerOverlooked ==
    \A w \in Workers : Step(w) = "authorize" => standing[w] = {}

\* What the default provider recommends violates no rule of the standard policy
\* but the limit of attempts and the freeze guard, which look at the case: a
\* diagnosis never leads to a recommendation that governance must refuse.
RecommendationComplies ==
    \A w \in Workers : run[w] # None /\ run[w].default =>
        Violations(StandardPolicy, run[w].view, run[w].dx, run[w].decision)
            \subseteq {"MAX_ATTEMPTS_LIMIT", "SAFETY_FREEZE_GUARD"}

\* The audit log tells why an action was dispatched: its run has logged the
\* decision, the evaluation of a policy and the arbitration, and the case its
\* assignment.
AuditTellsWhy ==
    \A w \in Workers : Step(w) \in {"handler", "settle"} =>
        /\ {"DECISION_ARTIFACT_CREATED", "POLICY_EVALUATED",
            "ARBITRATION_EVALUATED"} \subseteq run[w].logged
        /\ assigned # None

\* A half-open probe belongs to a run: when no worker is running, none is out.
NoProbeLeftBehind ==
    (\A w \in Workers : run[w] = None) =>
        \A c \in Targets : breakers[c].probes = 0

\* RULE_T1_SAFETY_FREEZE_GUARD "prohibits any action execution on cases in
\* FROZEN state": no action is dispatched for a case that is FROZEN.
NoExecutionWhenFrozen ==
    [][\A w \in Workers : Step(w) = "submit" /\ Step(w)' = "handler" =>
          case.state # "FROZEN"]_vars

=============================================================================
