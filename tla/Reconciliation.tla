--------------------------- MODULE Reconciliation ---------------------------
(***************************************************************************)
(* RevenueLedger (reconciliation/ledger.py) and SettlementDisputeHandler   *)
(* (reconciliation/dispute_handler.py) for one case.  The gateway delivers *)
(* each webhook any number of times, late and in any order, to several     *)
(* threads; payments and refunds are recorded beside them.  A thread holds *)
(* the handler's lock from its look at _processed_webhooks to its entry    *)
(* there.  The ledger has a lock of its own, so payments come in between,  *)
(* and an entry and its audit record are written together.                 *)
(*                                                                         *)
(* An entry carries the time its event happened, not the time it was       *)
(* recorded; the summary sorts by it.  Between entries of one time it      *)
(* sorts by random ids: the model takes either order.                      *)
(***************************************************************************)
EXTENDS Integers, Sequences, FiniteSets, FiniteSetsExt

CONSTANTS Threads,      \* the threads that process webhooks
          Settlements,  \* the SettlementWebhooks
          Disputes,     \* the DisputeWebhooks
          Payments,     \* the gross recoveries that may be recorded
          Refunds,      \* the refunds that may be requested
          MaxEntries,   \* bound on the payments and refunds recorded
          None

Webhooks == Settlements \cup Disputes

Origins == Webhooks \cup Payments \cup Refunds

Losses == {"DISPUTED", "REFUNDED", "WRITTEN_OFF"}

FinancialStates == {"GROSS_RECOVERED", "CONFIRMED_SETTLED"} \cup Losses

\* A settlement's net_amount is its gross_amount less the fee, and not
\* negative; an event id names one webhook.
ASSUME WebhookAssumption ==
    /\ \A s \in Settlements : /\ s.gross \in Nat /\ s.fee \in 0..s.gross
                              /\ s.at \in Nat
    /\ \A d \in Disputes : /\ d.amount \in Nat \ {0} /\ d.at \in Nat
                           /\ d.stage \in {"NEEDS_RESPONSE", "UNDER_REVIEW",
                                           "LOST", "WON"}
    /\ \A p \in Payments \cup Refunds : /\ p.amount \in Nat \ {0}
                                        /\ p.at \in Nat
    /\ \A v, w \in Webhooks : v.event = w.event => v = w
    /\ Settlements \cap Disputes = {}
    /\ Payments \cap Refunds = {}
    /\ Webhooks \cap (Payments \cup Refunds) = {}
    /\ None \notin Webhooks
    /\ MaxEntries \in Nat

VARIABLES ledger,     \* _entries, in the order they were appended
          processed,  \* the webhooks in _processed_webhooks
          doing,      \* doing[t]: the webhook thread t processes, or None
          step,       \* step[t]: how far it is
          audit,      \* the audit log
          answers,    \* history: which entries were returned for webhooks
          called      \* history: the payments and refunds recorded

vars == <<ledger, processed, doing, step, audit, answers, called>>

Entry == [state : FinancialStates, gross : Nat, net : Nat, at : Nat,
          origin : Origins]

Init ==
    /\ ledger = <<>>
    /\ processed = {}
    /\ doing = [t \in Threads |-> None]
    /\ step = [t \in Threads |-> "idle"]
    /\ audit = <<>>
    /\ answers = {}
    /\ called = {}

-----------------------------------------------------------------------------

Unconfirmed(state, origin) ==
    [state |-> state, gross |-> origin.amount, net |-> 0, at |-> origin.at,
     origin |-> origin]

Confirmed(gross, net, origin) ==
    [state |-> "CONFIRMED_SETTLED", gross |-> gross, net |-> net,
     at |-> origin.at, origin |-> origin]

\* Mutant: winning a dispute leaves the case disputed.
DisputeEntryOpen(d) ==
    Unconfirmed(IF d.stage = "LOST" THEN "WRITTEN_OFF" ELSE "DISPUTED", d)

\* process_dispute: a dispute that is won confirms the disputed amount.
DisputeEntry(d) ==
    CASE d.stage = "WON"  -> Confirmed(d.amount, d.amount, d)
      [] d.stage = "LOST" -> Unconfirmed("WRITTEN_OFF", d)
      [] OTHER            -> Unconfirmed("DISPUTED", d)

EntryFor(w) ==
    IF w \in Settlements THEN Confirmed(w.gross, w.gross - w.fee, w)
    ELSE DisputeEntry(w)

\* Mutant: a settlement that nets nothing is confirmed.
RecordableGross(w) == w \in Settlements => w.gross > 0

\* record_confirmed_settlement raises unless what is confirmed is positive.
Recordable(w) ==
    w \in Settlements => w.gross > 0 /\ w.gross - w.fee > 0

\* The ledger's own audit record.
RecordOf(e) == [type |-> "LEDGER_ENTRY_RECORDED", origin |-> e.origin]

\* record_entry, under the ledger's lock.
AppendEntry(e) ==
    /\ ledger' = Append(ledger, e)
    /\ audit' = Append(audit, RecordOf(e))

\* Mutant: the threads do not exclude each other.
LockFreeAlways == TRUE

\* No thread has the handler's lock.
LockFree == \A t \in Threads : doing[t] = None

\* A delivery of a webhook that is not in _processed_webhooks.
Receive(t, w) ==
    /\ doing[t] = None
    /\ LockFree
    /\ w \notin processed
    /\ doing' = [doing EXCEPT ![t] = w]
    /\ step' = [step EXCEPT ![t] = "record"]
    /\ UNCHANGED <<ledger, processed, audit, answers, called>>

\* The position in the ledger of the entry that was made for the webhook.
PositionOf(w) == CHOOSE i \in DOMAIN ledger : ledger[i].origin = w

\* A delivery of one that is: the entry made for it is returned.
Replay(t, w) ==
    /\ doing[t] = None
    /\ LockFree
    /\ w \in processed
    /\ answers' = answers \cup {[event |-> w.event, entry |-> PositionOf(w)]}
    /\ UNCHANGED <<ledger, processed, doing, step, audit, called>>

Done(t) ==
    /\ doing' = [doing EXCEPT ![t] = None]
    /\ step' = [step EXCEPT ![t] = "idle"]

\* The ledger raises, and the delivery leaves no trace.
Reject(t) ==
    /\ step[t] = "record"
    /\ ~Recordable(doing[t])
    /\ Done(t)
    /\ UNCHANGED <<ledger, processed, audit, answers, called>>

Record(t) ==
    /\ step[t] = "record"
    /\ Recordable(doing[t])
    /\ AppendEntry(EntryFor(doing[t]))
    /\ step' = [step EXCEPT ![t] = "audit"]
    /\ UNCHANGED <<processed, doing, answers, called>>

\* SETTLEMENT_RECONCILED or DISPUTE_RECONCILED.
AuditReconciled(t) ==
    /\ step[t] = "audit"
    /\ audit' = Append(audit, [type |-> "RECONCILED", origin |-> doing[t]])
    /\ step' = [step EXCEPT ![t] = "mark"]
    /\ UNCHANGED <<ledger, processed, doing, answers, called>>

\* Mutant: an open dispute is not remembered, so that it can progress.
MarkedFinal(w) ==
    IF w \in Disputes /\ w.stage \notin {"WON", "LOST"} THEN {} ELSE {w}

Marked(w) == {w}

Mark(t) ==
    /\ step[t] = "mark"
    /\ processed' = processed \cup Marked(doing[t])
    /\ answers' = answers \cup {[event |-> doing[t].event,
                                 entry |-> PositionOf(doing[t])]}
    /\ Done(t)
    /\ UNCHANGED <<ledger, audit, called>>

\* record_gross_recovery, called beside the handler.
RecordGrossRecovery(p) ==
    /\ Len(ledger) < MaxEntries
    /\ AppendEntry(Unconfirmed("GROSS_RECOVERED", p))
    /\ called' = called \cup {p}
    /\ UNCHANGED <<processed, doing, step, answers>>

\* process_refund remembers nothing: called again it records again.
ProcessRefund(r) ==
    /\ Len(ledger) < MaxEntries
    /\ LockFree
    /\ AppendEntry(Unconfirmed("REFUNDED", r))
    /\ called' = called \cup {r}
    /\ UNCHANGED <<processed, doing, step, answers>>

Next ==
    \/ \E t \in Threads :
          \/ \E w \in Webhooks : Receive(t, w) \/ Replay(t, w)
          \/ Reject(t)
          \/ Record(t)
          \/ AuditReconciled(t)
          \/ Mark(t)
    \/ \E p \in Payments : RecordGrossRecovery(p)
    \/ \E r \in Refunds : ProcessRefund(r)

Spec == Init /\ [][Next]_vars

-----------------------------------------------------------------------------
(* get_case_summary.                                                       *)

InState(states) == {i \in DOMAIN ledger : ledger[i].state \in states}

\* The entries that may be the last of S in the order of the summary.
Latest(S) == {i \in S : \A j \in S : ledger[j].at <= ledger[i].at}

\* The confirmed entries that may be the last when the last of all is i.
LastConfirmed(i) ==
    IF ledger[i].state = "CONFIRMED_SETTLED" THEN {i}
    ELSE Latest(InState({"CONFIRMED_SETTLED"}))

\* total_net_confirmed when i is the last entry of all: what it may be.
NetConfirmed(i) ==
    IF ledger[i].state \in Losses \/ InState({"CONFIRMED_SETTLED"}) = {}
    THEN {0}
    ELSE {ledger[c].net : c \in LastConfirmed(i)}

\* Mutant: only payments count as recovered.
GrossOfPayments ==
    Max({0} \cup {ledger[i].gross : i \in InState({"GROSS_RECOVERED"})})

TotalGrossRecovered ==
    Max({0} \cup {ledger[i].gross :
                    i \in InState({"GROSS_RECOVERED", "CONFIRMED_SETTLED"})})

\* The values total_net_confirmed may have.
TotalNetConfirmed == UNION {NetConfirmed(i) : i \in Latest(DOMAIN ledger)}

-----------------------------------------------------------------------------
(* Properties.                                                             *)

Recorded(w) == {i \in DOMAIN ledger : ledger[i].origin = w}

Working(t) == doing[t] # None

\* The type invariant, with the two stages of the ledger: what is not settled
\* is not confirmed, and no more is confirmed than was recovered.
TypeOK ==
    /\ ledger \in Seq(Entry)
    /\ \A i \in DOMAIN ledger :
          /\ ledger[i].net <= ledger[i].gross
          /\ ledger[i].net > 0 <=> ledger[i].state = "CONFIRMED_SETTLED"
    /\ processed \subseteq Webhooks
    /\ doing \in [Threads -> Webhooks \cup {None}]
    /\ step \in [Threads -> {"idle", "record", "audit", "mark"}]
    /\ \A t \in Threads : Working(t) <=> step[t] # "idle"
    /\ audit \in Seq([type : {"LEDGER_ENTRY_RECORDED", "RECONCILED"},
                      origin : Origins])
    /\ answers \subseteq [event : {w.event : w \in Webhooks},
                          entry : DOMAIN ledger]
    /\ called \subseteq Payments \cup Refunds

\* However often and by however many threads a webhook is processed it makes
\* one ledger entry, and every delivery is answered with that entry.
OneEntryPerWebhook ==
    \A w \in Webhooks :
        /\ Cardinality(Recorded(w)) <= 1
        /\ \A a \in answers : a.event = w.event => Recorded(w) = {a.entry}

\* The ledger's own records in the audit log.
AuditRecords == {j \in DOMAIN audit : audit[j].type = "LEDGER_ENTRY_RECORDED"}

\* The audit log has the ledger's entries in the ledger's order, its n-th
\* record being that of the n-th entry, and says once of every processed
\* webhook that it was reconciled, after its entry.
AuditFollowsLedger ==
    LET nth(j) == Cardinality({k \in AuditRecords : k <= j})
    IN  /\ Cardinality(AuditRecords) = Len(ledger)
        /\ \A j \in AuditRecords : audit[j].origin = ledger[nth(j)].origin
        /\ \A w \in processed :
              \E i, j \in DOMAIN audit :
                 /\ i < j
                 /\ audit[i] = [type |-> "LEDGER_ENTRY_RECORDED",
                                origin |-> w]
                 /\ \A k \in DOMAIN audit :
                       k = j <=> audit[k] = [type |-> "RECONCILED",
                                             origin |-> w]

\* Confirmed revenue never exceeds what was recovered, whatever order the
\* summary takes entries of one time in.
NetWithinGross ==
    \A net \in TotalNetConfirmed : net <= TotalGrossRecovered

\* What has happened to the money, as far as it is known: the webhooks that
\* are in the ledger and the refunds.
Known ==
    processed \cup (called \cap Refunds)
    \cup {doing[t] : t \in {u \in Threads : step[u] \in {"audit", "mark"}}}

\* What an event leaves confirmed.
Leaves(e) ==
    CASE e \in Settlements -> e.gross - e.fee
      [] e \in Disputes /\ e.stage = "WON" -> e.amount
      [] OTHER -> 0

\* The events that confirm revenue; the others are losses.
Confirms(e) == e \in Settlements \/ (e \in Disputes /\ e.stage = "WON")

\* The confirmed revenue follows from the events and when they happened, not
\* from the order they arrived in or how often: it is what the last of them
\* left, or one of the last if several happened at one time.  A payment that
\* is not earlier than a loss is the exception.
SummaryFollowsEvents ==
    LET last == {e \in Known : \A f \in Known : f.at <= e.at}
    IN  (\A p \in called \cap Payments, e \in Known :
            Confirms(e) \/ p.at < e.at) =>
            \A net \in TotalNetConfirmed :
                IF Known = {} THEN net = 0
                ELSE \E e \in last : net = Leaves(e)

\* "If disputed/refunded/written_off, confirmed revenue is not recognized":
\* once every confirmation is older than a loss, nothing is confirmed.
LossNotRecognised ==
    (\E i \in InState(Losses) :
        \A c \in InState({"CONFIRMED_SETTLED"}) :
            ledger[c].at < ledger[i].at) =>
        TotalNetConfirmed = {0}

\* Where the audit log says that the webhook was reconciled.
Reconciled(w) ==
    {k \in DOMAIN audit : audit[k] = [type |-> "RECONCILED", origin |-> w]}

\* What was booked, in order, and how often each webhook was reported.
Bookings == [i \in DOMAIN ledger |-> ledger[i].origin]

Reports == [w \in Webhooks |-> Cardinality(Reconciled(w))]

\* However its threads and the calls beside them interleave, the handler
\* implements the one that books and reports a webhook once and answers from
\* then on.
Once ==
    INSTANCE ReconciledOnce
    WITH Calls <- Payments \cup Refunds, book <- Bookings,
         reported <- Reports, answers <- answers

ImplementsOnce == Once!Spec

=============================================================================
