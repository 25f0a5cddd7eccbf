--------------------------- MODULE AuthorizerOps ----------------------------
(***************************************************************************)
(* CryptographicAuthorizer (safety/authorizer.py).  A token is an          *)
(* immutable record that only mint_authorization makes: its status is      *)
(* ISSUED for ever, and the signature is abstracted to the fact that a     *)
(* token of the model is one that was minted.                              *)
(***************************************************************************)
EXTENDS Integers

\* verify_authorization followed by the scope binding of execute_action.
\* The comparisons raise the same error in any order and change nothing.
Verifies(token, request, now) ==
    /\ now < token.expires
    /\ token.customer = request.customer
    /\ token.currency = request.currency
    /\ 0 < request.amount /\ request.amount <= token.maxAmount
    /\ token.channel = request.channel
    /\ token.case = request.case
    /\ token.action = request.action
    /\ token.key = request.key

=============================================================================
