------------------------ MODULE IdempotentExecution -------------------------
(***************************************************************************)
(* What ActionExecutor and IdempotencyStore promise a caller: the action   *)
(* of an idempotency key is performed at most once, and everybody who is   *)
(* given an answer for the key is given the same one, for the request that *)
(* was performed.  A performance of which no result can be made is         *)
(* forgotten.  Safety, scheduling and time are not visible here.           *)
(***************************************************************************)
EXTENDS Sequences

CONSTANTS Requests,  \* each has a field key
          Outcomes   \* what performing an action can result in

VARIABLES performed,  \* performed[k]: the requests performed for key k and
                      \* not forgotten
          answered    \* the answers given so far

vars == <<performed, answered>>

Keys == {r.key : r \in Requests}

Init ==
    /\ performed = [k \in Keys |-> <<>>]
    /\ answered = {}

Perform(r) ==
    /\ performed[r.key] = <<>>
    /\ performed' = [performed EXCEPT ![r.key] = <<r>>]
    /\ UNCHANGED answered

Answer(r, o) ==
    /\ performed[r.key] = <<r>>
    /\ \A a \in answered : a.request.key = r.key => a.outcome = o
    /\ answered' = answered \cup {[request |-> r, outcome |-> o]}
    /\ UNCHANGED performed

\* Nobody was told of the performance, and nobody will be.
Forget(r) ==
    /\ performed[r.key] = <<r>>
    /\ \A a \in answered : a.request.key # r.key
    /\ performed' = [performed EXCEPT ![r.key] = <<>>]
    /\ UNCHANGED answered

Next ==
    \E r \in Requests :
        \/ Perform(r)
        \/ \E o \in Outcomes : Answer(r, o)
        \/ Forget(r)

Spec == Init /\ [][Next]_vars

=============================================================================
