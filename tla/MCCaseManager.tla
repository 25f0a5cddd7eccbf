--------------------------- MODULE MCCaseManager ----------------------------
(***************************************************************************)
(* CaseManager for TLC: three threads that race on one case, two of them   *)
(* enough for an unfreeze to race a transition and a third to freeze the   *)
(* case again in between.  Cases share nothing but the log.                *)
(***************************************************************************)
EXTENDS CaseManager, TLC

ThreadSymmetry == Permutations(Threads)

=============================================================================
