-------------------------- MODULE MCActionExecutor --------------------------
(***************************************************************************)
(* ActionExecutor for TLC.  Two threads make any number of calls with two  *)
(* keys on one channel: k1 for the action of one case and for that action  *)
(* with another amount (which conflicts), and k2 for a second case.  The   *)
(* sandbox guard refuses a destination when its name does not resolve to   *)
(* loopback, which may happen to each.                                     *)
(***************************************************************************)
EXTENDS ActionExecutor, TLC

Req(key, case, amount, url) ==
    [key |-> key, case |-> case, customer |-> "cust", action |-> "RETRY",
     channel |-> "GATEWAY", currency |-> "INR", amount |-> amount,
     url |-> url]

MCRequests == {Req("k1", "A", 1, "ok"), Req("k1", "A", 2, "ok"),
               Req("k2", "B", 2, "ok")}

Token(key, case, expires) ==
    [key |-> key, case |-> case, customer |-> "cust", action |-> "RETRY",
     channel |-> "GATEWAY", currency |-> "INR", maxAmount |-> 2,
     expires |-> expires]

\* The token of k1 expires while calls may still be made.
MCTokens == {Token("k1", "A", 1), Token("k2", "B", 9)}

MCSafeUrls == {"ok"}

MCSwitches == {Global, <<"CASE", "A">>}

ThreadSymmetry == Permutations(Threads)

=============================================================================
