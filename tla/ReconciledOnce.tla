--------------------------- MODULE ReconciledOnce ---------------------------
(***************************************************************************)
(* What SettlementDisputeHandler and RevenueLedger promise the gateway,    *)
(* threads and locks aside: a webhook is booked once, reported as          *)
(* reconciled once, and answered from then on, always with the place where *)
(* it was booked.  Payments and refunds are booked as often as they are    *)
(* called.                                                                 *)
(***************************************************************************)
EXTENDS Integers, Sequences

CONSTANTS Webhooks,  \* each has a field event
          Calls      \* what is booked beside them

VARIABLES book,      \* what was booked, in order
          reported,  \* reported[w]: how often w was reported as reconciled
          answers    \* the answers given

vars == <<book, reported, answers>>

Init ==
    /\ book = <<>>
    /\ reported = [w \in Webhooks |-> 0]
    /\ answers = {}

Book(w) ==
    /\ \A i \in DOMAIN book : book[i] # w
    /\ book' = Append(book, w)
    /\ UNCHANGED <<reported, answers>>

BookCall(o) ==
    /\ book' = Append(book, o)
    /\ UNCHANGED <<reported, answers>>

Report(w) ==
    /\ \E i \in DOMAIN book : book[i] = w
    /\ reported[w] = 0
    /\ reported' = [reported EXCEPT ![w] = 1]
    /\ UNCHANGED <<book, answers>>

Answer(w, i) ==
    /\ reported[w] = 1
    /\ book[i] = w
    /\ answers' = answers \cup {[event |-> w.event, entry |-> i]}
    /\ UNCHANGED <<book, reported>>

Next ==
    \/ \E w \in Webhooks :
          \/ Book(w)
          \/ Report(w)
          \/ \E i \in DOMAIN book : Answer(w, i)
    \/ \E o \in Calls : BookCall(o)

Spec == Init /\ [][Next]_vars

=============================================================================
