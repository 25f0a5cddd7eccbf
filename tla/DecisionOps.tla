---------------------------- MODULE DecisionOps -----------------------------
(***************************************************************************)
(* The pure decisions of the recovery loop, as operators: the diagnosis of *)
(* a failed payment (recovery_engine/diagnosis.py), the recommendation of  *)
(* the default provider (ai_decision/artifacts.py) and the rules of the    *)
(* policy engine (governance/policy_engine.py).  Each is a function of     *)
(* records that its caller read earlier.                                   *)
(*                                                                         *)
(* Scores and confidences are in hundredths.  An event has the reason of   *)
(* the failure, an amount and whether its currency is supported; of a case *)
(* the decisions look at state, tier, attempts and amount.                 *)
(***************************************************************************)
EXTENDS Integers

CONSTANTS HighValue,    \* HIGH_VALUE_THRESHOLD_UNITS
          MaxAttempts,  \* max_attempts of a case
          None          \* no value

ASSUME DecisionAssumption ==
    /\ HighValue \in Nat
    /\ MaxAttempts \in Nat \ {0}
    /\ None \notin Int

Reasons == {"FRAUD_SUSPECTED", "AUTHENTICATION_FAILED", "GENERIC_DECLINE",
            "CARD_EXPIRED", "INSUFFICIENT_FUNDS", "PROCESSING_ERROR",
            "GATEWAY_TIMEOUT"}

Tiers == {"LOW", "MEDIUM", "HIGH", "BLOCKED"}

Gateway  == "DIRECT_PAYMENT_GATEWAY"
Internal == "INTERNAL_SYSTEM"

\* ActionType.
Actions == {"RETRY_CHARGE", "SEND_NOTIFICATION",
            "UPDATE_PAYMENT_METHOD_REQUEST", "OFFER_PAYMENT_PLAN",
            "APPLY_GRACE_PERIOD", "NO_ACTION"}

-----------------------------------------------------------------------------
(* Diagnosis.                                                              *)

DiagnosisResult == [tier : Tiers, recoverable : BOOLEAN,
                    channel : {Gateway, Internal, "EMAIL"}, score : 0..100]

Finding(tier, channel, score) ==
    [tier |-> tier, recoverable |-> TRUE, channel |-> channel, score |-> score]

Unrecoverable == [tier |-> "BLOCKED", recoverable |-> FALSE,
                  channel |-> Internal, score |-> 100]

\* RiskDiagnosisEvaluator.evaluate: an unsupported currency fails closed
\* whatever the reason, and so does a reason the table does not know.
Diagnosis(event, attempts) ==
    IF ~event.supported
    THEN Unrecoverable
    ELSE CASE event.reason = "AUTHENTICATION_FAILED" ->
                Finding("HIGH", "EMAIL", 75)
           [] event.reason = "GENERIC_DECLINE" ->
                IF event.amount >= HighValue \/ attempts >= 2
                THEN Finding("HIGH", "EMAIL", 65)
                ELSE Finding("MEDIUM", Gateway, 50)
           [] event.reason = "CARD_EXPIRED" -> Finding("MEDIUM", "EMAIL", 40)
           [] event.reason = "INSUFFICIENT_FUNDS" ->
                IF attempts >= 2
                THEN Finding("MEDIUM", "EMAIL", 35)
                ELSE Finding("LOW", Gateway, 20)
           [] event.reason = "PROCESSING_ERROR" -> Finding("LOW", Gateway, 10)
           [] event.reason = "GATEWAY_TIMEOUT" -> Finding("LOW", Gateway, 5)
           [] OTHER -> Unrecoverable

-----------------------------------------------------------------------------
(* The recommendation of the default provider.                             *)

\* create_decision_artifact refuses a case in any other state.
Evaluable == {"DIAGNOSED", "EVALUATING"}

\* The action and the parameters of the artifact.
Recommendation(case, dx) ==
    IF case.tier = "BLOCKED" \/ ~dx.recoverable
    THEN [action |-> "NO_ACTION", channel |-> Internal, amount |-> 0,
          confidence |-> 100]
    ELSE [action |-> IF dx.channel = Gateway THEN "RETRY_CHARGE"
                                             ELSE "SEND_NOTIFICATION",
          channel |-> dx.channel, amount |-> case.amount,
          confidence |-> 100 - dx.score]

-----------------------------------------------------------------------------
(* Policies.                                                               *)

\* STANDARD_POLICY_RULES.  RULE_T3_MODEL_VERSION_FRESHNESS is left out: an
\* artifact without the versions cannot be made.
StandardRules == {"FRAUD_BLOCK", "NON_RECOVERABLE_BLOCK",
                  "MAX_ATTEMPTS_LIMIT", "SAFETY_FREEZE_GUARD",
                  "HIGH_RISK_CHANNEL_RESTRICTION", "ACTION_AMOUNT_BOUND",
                  "MIN_CONFIDENCE_THRESHOLD"}

Lifecycle == {"DRAFT", "REVIEW", "TEST", "SIMULATE", "APPROVED", "STAGE",
              "PRODUCTION", "RETIRED"}

Executable == {"PRODUCTION", "STAGE", "APPROVED"}

\* Mutant: the threshold itself is not enough.
LacksConfidenceAtThreshold(d) == d.confidence <= 50

LacksConfidence(d) == d.confidence < 50

\* _evaluate_rule finds a violation.  A rule it does not know is complied with.
Violates(rule, case, dx, d) ==
    LET acts == d.action # "NO_ACTION"
        retries == d.action = "RETRY_CHARGE"
    IN  CASE rule = "FRAUD_BLOCK" ->
               acts /\ "BLOCKED" \in {dx.tier, case.tier}
          [] rule = "NON_RECOVERABLE_BLOCK" -> acts /\ ~dx.recoverable
          [] rule = "MAX_ATTEMPTS_LIMIT" ->
               acts /\ case.attempts >= MaxAttempts
          [] rule = "SAFETY_FREEZE_GUARD" -> case.state = "FROZEN"
          [] rule = "HIGH_RISK_CHANNEL_RESTRICTION" ->
               dx.tier = "HIGH" /\ (retries \/ d.channel = Gateway)
          [] rule = "ACTION_AMOUNT_BOUND" ->
               retries /\ (\/ d.amount = None
                           \/ d.amount <= 0
                           \/ d.amount > case.amount)
          [] rule = "MIN_CONFIDENCE_THRESHOLD" -> retries /\ LacksConfidence(d)
          [] OTHER -> FALSE

\* violated_rules of PolicyEngine.evaluate for a policy with these rules active.
Violations(policy, case, dx, d) ==
    {rule \in policy.rules : Violates(rule, case, dx, d)}

\* is_allowed: fail-closed for a policy that is not registered or not in a
\* lifecycle state that can authorize, and deny-overrides between its rules.
Permits(policy, case, dx, d) ==
    /\ policy # None
    /\ policy.lifecycle \in Executable
    /\ Violations(policy, case, dx, d) = {}

=============================================================================
