-------------------------- MODULE MCReconciliation --------------------------
(***************************************************************************)
(* Reconciliation for TLC: two threads, a payment before and one after a   *)
(* dispute is opened, two settlements, one of which nets nothing, two      *)
(* disputes that are won and lost at one time, and a refund that may be    *)
(* requested again.                                                        *)
(***************************************************************************)
EXTENDS Reconciliation, TLC

Settlement(event, gross, fee, at) ==
    [event |-> event, gross |-> gross, fee |-> fee, at |-> at]

Dispute(event, stage, at) ==
    [event |-> event, amount |-> 3, stage |-> stage, at |-> at]

MCSettlements == {Settlement("s1", 3, 1, 2), Settlement("s2", 1, 1, 2)}

MCDisputes == {Dispute("d1", "UNDER_REVIEW", 3), Dispute("d2", "WON", 4),
               Dispute("d3", "LOST", 4)}

Payment(at) == [amount |-> 2, at |-> at]

MCPayments == {Payment(1), Payment(5)}

MCRefunds == {[amount |-> 1, at |-> 6]}

ThreadSymmetry == Permutations(Threads)

=============================================================================
