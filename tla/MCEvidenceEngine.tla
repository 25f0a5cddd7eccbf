-------------------------- MODULE MCEvidenceEngine --------------------------
(***************************************************************************)
(* EvidenceEngine for TLC: two evaluators of one metric, two cases.  The   *)
(* requests are one of each verdict; only the first can be approved.  Two  *)
(* evaluations are enough for one to take the place of the other, and      *)
(* three entries for a payment, its settlement and its loss to be recorded *)
(* between the reads of one evaluation.                                    *)
(***************************************************************************)
EXTENDS EvidenceEngine, TLC

CONSTANTS a, b

Request(treatment, control, backtest, min) ==
    [metric |-> "recovery_rate", treatment |-> treatment,
     control |-> control, backtest |-> backtest, min |-> min]

MCRequests == {Request(<<a>>, <<b>>, FALSE, 1),
               Request(<<a>>, <<b>>, FALSE, 2),
               Request(<<a, b>>, <<>>, FALSE, 1),
               Request(<<b>>, <<a>>, TRUE, 1)}

EvaluatorSymmetry == Permutations(Evaluators)

=============================================================================
