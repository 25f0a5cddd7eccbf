------------------------- MODULE MCRecoveryPipeline -------------------------
(***************************************************************************)
(* RecoveryPipeline for TLC: one case and two workers, so that each step   *)
(* of one can fall between any two of the other.  The events are one that  *)
(* is retried, one whose customer is notified and one that is not          *)
(* recovered; the configurations treat the case, hold it back, or are not  *)
(* active; one obligation is due at once, one later.  Three interventions  *)
(* are what it takes to freeze the case, register the experiment anew and  *)
(* unfreeze the case.  Every limit is one, so that the first execution     *)
(* reaches it.                                                             *)
(***************************************************************************)
EXTENDS RecoveryPipeline, TLC

MCEvents == {[reason |-> "GENERIC_DECLINE", supported |-> TRUE, amount |-> 1],
             [reason |-> "AUTHENTICATION_FAILED", supported |-> TRUE,
              amount |-> 1],
             [reason |-> "FRAUD_SUSPECTED", supported |-> TRUE, amount |-> 1]}

\* Another provider asks for a retry of more than the amount of the case.
MCProposals == {[action |-> "RETRY_CHARGE", channel |-> Gateway, amount |-> 2,
                 confidence |-> 90]}

MCPolicies == {[lifecycle |-> "RETIRED", rules |-> StandardRules],
               [lifecycle |-> "STAGE", rules |-> {"FRAUD_BLOCK", "CUSTOM"}]}

MCPolicyIds == {"standard", "other"}

Config(treatment, salt, active) ==
    [treatment |-> treatment, control |-> 20, salt |-> salt,
     active |-> active]

MCConfigs == {Config(50, "a", TRUE), Config(20, "a", TRUE),
              Config(50, "a", FALSE)}

MCScore == [salt \in {"a"} |-> [tier \in Tiers |-> 30]]

MCObligations == {[type |-> "COOLING_OFF", time |-> 0],
                  [type |-> "MANDATORY_DISCLOSURE", time |-> 1]}

MCSwitches == {<<"CASE", "case">>}

MCTrippable == {Gateway}

WorkerSymmetry == Permutations(Workers)

=============================================================================
