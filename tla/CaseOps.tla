------------------------------ MODULE CaseOps -------------------------------
(***************************************************************************)
(* The state machine of a recovery case: CaseState (foundation/events.py)  *)
(* and ALLOWED_TRANSITIONS (recovery_engine/case_manager.py).              *)
(***************************************************************************)

States == {"OPEN", "DIAGNOSED", "EVALUATING", "SCHEDULED", "EXECUTING",
           "RECONCILING", "FROZEN", "RESOLVED", "ABANDONED"}

Terminal == {"RESOLVED", "ABANDONED"}

\* Mutant: a frozen case may also return to the schedule.
UnfrozenResuming == {"DIAGNOSED", "SCHEDULED", "ABANDONED"}

\* Where ALLOWED_TRANSITIONS lets a frozen case go.
Unfrozen == {"DIAGNOSED", "ABANDONED"}

\* ALLOWED_TRANSITIONS: from any state that is not terminal a case may be
\* abandoned or frozen; only a frozen one may not be frozen.
Allowed(s) ==
    LET Or(next) == next \cup {"ABANDONED", "FROZEN"}
    IN  CASE s = "OPEN"        -> Or({"DIAGNOSED"})
          [] s = "DIAGNOSED"   -> Or({"EVALUATING"})
          [] s = "EVALUATING"  -> Or({"SCHEDULED"})
          [] s = "SCHEDULED"   -> Or({"EXECUTING"})
          [] s = "EXECUTING"   -> Or({"RECONCILING", "SCHEDULED"})
          [] s = "RECONCILING" -> Or({"RESOLVED", "SCHEDULED"})
          [] s = "FROZEN"      -> Unfrozen
          [] s \in Terminal    -> {}

=============================================================================
