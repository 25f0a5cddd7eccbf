-------------------------- MODULE MCCircuitBreaker --------------------------
(***************************************************************************)
(* CircuitBreaker for TLC: three callers, trips at the second failure,     *)
(* closes at the second success and one probe at a time, so that a call    *)
(* admitted before a trip can report while another call is the probe.      *)
(***************************************************************************)
EXTENDS CircuitBreaker, TLC

CallerSymmetry == Permutations(Callers)

=============================================================================
