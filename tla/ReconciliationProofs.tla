------------------------ MODULE ReconciliationProofs ------------------------
(***************************************************************************)
(* What the ledger and the webhook handler keep for any threads, webhooks, *)
(* payments and refunds.                                                   *)
(*                                                                         *)
(* A webhook makes one entry because the thread that has the lock is the   *)
(* only one that processes anything (LockInv), and because what has an     *)
(* entry is processed, or about to be marked by that thread (OnceInv).     *)
(* The same lock orders the two records of a webhook in the audit log      *)
(* (AuditInv).  What is confirmed follows from the events because every    *)
(* entry is the one its event makes, and no event is known without an      *)
(* entry (EntryInv).                                                       *)
(***************************************************************************)
EXTENDS Reconciliation, TLAPS, FiniteSetTheorems, SequenceTheorems,
        WellFoundedInduction

\* The threads exclude each other, and none works on what was processed.
LockInv ==
    /\ \A t, u \in Threads : Working(t) /\ Working(u) => t = u
    /\ \A t \in Threads : Working(t) => doing[t] \notin processed

\* t has recorded the entry of its webhook and not yet marked it.
Marking(t) == step[t] \in {"audit", "mark"}

\* A webhook is recorded once, when it is processed or about to be.
OnceInv ==
    \A w \in Webhooks :
        /\ \A i, j \in Recorded(w) : i = j
        /\ Recorded(w) # {} <=> \/ w \in processed
                                \/ \E t \in Threads : Marking(t) /\ doing[t] = w

\* What was answered for a webhook is its entry.
AnswerInv ==
    \A a \in answers :
        \E w \in Webhooks : a.event = w.event /\ a.entry \in Recorded(w)

\* An entry is the one its event makes, and an event has an entry.
EntryInv ==
    /\ \A i \in DOMAIN ledger :
          LET o == ledger[i].origin
          IN  /\ o \in Webhooks => ledger[i] = EntryFor(o) /\ Recordable(o)
              /\ o \in Payments => /\ o \in called
                                   /\ ledger[i]
                                         = Unconfirmed("GROSS_RECOVERED", o)
              /\ o \in Refunds => /\ o \in called
                                  /\ ledger[i] = Unconfirmed("REFUNDED", o)
    /\ \A o \in called : Recorded(o) # {}

\* Where the audit log says that a webhook has an entry.
Logged(w) ==
    {k \in DOMAIN audit :
        audit[k] = [type |-> "LEDGER_ENTRY_RECORDED", origin |-> w]}

\* A thread is at a step of processing w.
At(s, w) == \E t \in Threads : step[t] = s /\ doing[t] = w

\* How many of the ledger's records are not after position j of the log.
Nth(j) == Cardinality({k \in AuditRecords : k <= j})

\* The n-th of the ledger's records is of its n-th entry.
OrderInv ==
    /\ Cardinality(AuditRecords) = Len(ledger)
    /\ \A j \in AuditRecords : /\ Nth(j) \in DOMAIN ledger
                               /\ audit[j].origin = ledger[Nth(j)].origin

\* A webhook is logged before it is reconciled, and it is reconciled once,
\* when it is marked or about to be.
ReconciledInv ==
    \A w \in Webhooks :
        /\ At("audit", w) => Logged(w) # {}
        /\ w \notin processed /\ ~At("mark", w) => Reconciled(w) = {}
        /\ w \in processed \/ At("mark", w) =>
              \E i \in Logged(w), j \in DOMAIN audit :
                  i < j /\ Reconciled(w) = {j}

IndInv ==
    /\ TypeOK
    /\ LockInv
    /\ OnceInv
    /\ AnswerInv
    /\ EntryInv
    /\ OrderInv
    /\ ReconciledInv

-----------------------------------------------------------------------------
(* The ledger.                                                             *)

\* An entry as the ledger takes them.
Sane(e) ==
    /\ e \in Entry
    /\ e.net <= e.gross
    /\ e.net > 0 <=> e.state = "CONFIRMED_SETTLED"

LEMMA EntryForSane ==
    ASSUME NEW w \in Webhooks, Recordable(w)
    PROVE  Sane(EntryFor(w)) /\ EntryFor(w).origin = w
<1>1. w \in Origins
  BY DEF Origins
<1>2. CASE w \in Settlements
  BY <1>1, <1>2, WebhookAssumption
     DEF Sane, EntryFor, Confirmed, Recordable, Entry, FinancialStates
<1>3. CASE w \in Disputes /\ w \notin Settlements
  BY <1>1, <1>3, WebhookAssumption
     DEF Sane, EntryFor, DisputeEntry, Confirmed, Unconfirmed, Entry,
         FinancialStates, Losses
<1>. QED  BY <1>2, <1>3 DEF Webhooks

LEMMA UnconfirmedSane ==
    ASSUME NEW p \in Payments \cup Refunds,
           NEW s \in {"GROSS_RECOVERED", "REFUNDED"}
    PROVE  Sane(Unconfirmed(s, p)) /\ Unconfirmed(s, p).origin = p
<1>1. p \in Origins
  BY DEF Origins
<1>. QED
  BY <1>1, WebhookAssumption DEF Sane, Unconfirmed, Entry, FinancialStates, Losses

\* An entry that is appended leaves the ledger sane and the others in place.
LEMMA AppendSane ==
    ASSUME TypeOK, NEW e, Sane(e), AppendEntry(e)
    PROVE  /\ ledger' \in Seq(Entry)
           /\ \A i \in DOMAIN ledger' :
                 /\ ledger'[i].net <= ledger'[i].gross
                 /\ ledger'[i].net > 0 <=>
                       ledger'[i].state = "CONFIRMED_SETTLED"
           /\ audit' \in Seq([type : {"LEDGER_ENTRY_RECORDED", "RECONCILED"},
                              origin : Origins])
           /\ DOMAIN ledger' = DOMAIN ledger \cup {Len(ledger) + 1}
           /\ Len(ledger) + 1 \notin DOMAIN ledger
           /\ \A i \in DOMAIN ledger : ledger'[i] = ledger[i]
           /\ ledger'[Len(ledger) + 1] = e
<1>1. /\ ledger \in Seq(Entry) /\ e \in Entry
      /\ ledger' = Append(ledger, e)
      /\ audit' = Append(audit, RecordOf(e))
  BY DEF TypeOK, Sane, AppendEntry
<1>2. /\ ledger' \in Seq(Entry)
      /\ DOMAIN ledger' = DOMAIN ledger \cup {Len(ledger) + 1}
      /\ Len(ledger) + 1 \notin DOMAIN ledger
      /\ \A i \in DOMAIN ledger : ledger'[i] = ledger[i]
      /\ ledger'[Len(ledger) + 1] = e
  BY <1>1
<1>3. RecordOf(e) \in [type : {"LEDGER_ENTRY_RECORDED", "RECONCILED"},
                       origin : Origins]
  BY <1>1 DEF RecordOf, Entry
<1>. QED  BY <1>1, <1>2, <1>3 DEF TypeOK, Sane

\* The position of a recorded webhook is that of its entry.
LEMMA PositionRecorded ==
    ASSUME NEW w, Recorded(w) # {}
    PROVE  PositionOf(w) \in Recorded(w)
BY DEF PositionOf, Recorded

-----------------------------------------------------------------------------
(* The steps.                                                              *)

LEMMA TypeStep ==
    ASSUME IndInv, [Next]_vars
    PROVE  TypeOK'
<1>0. TypeOK /\ LockInv /\ OnceInv
  BY DEF IndInv
<1>. USE DEF Working
\* The handler's state has its type when the ledger and the log are kept.
<1>1. ASSUME NEW t \in Threads, NEW w \in Webhooks, Receive(t, w) PROVE TypeOK'
  BY <1>0, <1>1, WebhookAssumption DEF Receive, TypeOK
<1>2. ASSUME NEW t \in Threads, NEW w \in Webhooks, Replay(t, w) PROVE TypeOK'
  <2>1. PositionOf(w) \in DOMAIN ledger
    BY <1>0, <1>2, PositionRecorded DEF Replay, OnceInv, Recorded
  <2>. QED  BY <1>0, <1>2, <2>1 DEF Replay, TypeOK
<1>3. ASSUME NEW t \in Threads, Reject(t) PROVE TypeOK'
  BY <1>0, <1>3 DEF Reject, Done, TypeOK
<1>4. ASSUME NEW t \in Threads, Record(t) PROVE TypeOK'
  <2>1. doing[t] \in Webhooks /\ Recordable(doing[t])
    BY <1>0, <1>4 DEF Record, TypeOK
  <2>2. Sane(EntryFor(doing[t])) /\ AppendEntry(EntryFor(doing[t]))
    BY <1>4, <2>1, EntryForSane DEF Record
  <2>. QED  BY <1>0, <1>4, <2>2, AppendSane DEF Record, TypeOK
<1>5. ASSUME NEW t \in Threads, AuditReconciled(t) PROVE TypeOK'
  <2>1. doing[t] \in Webhooks
    BY <1>0, <1>5 DEF AuditReconciled, TypeOK
  <2>2. [type |-> "RECONCILED", origin |-> doing[t]]
           \in [type : {"LEDGER_ENTRY_RECORDED", "RECONCILED"},
                origin : Origins]
    BY <2>1 DEF Origins
  <2>. QED  BY <1>0, <1>5, <2>2 DEF AuditReconciled, TypeOK
<1>6. ASSUME NEW t \in Threads, Mark(t) PROVE TypeOK'
  <2>1. doing[t] \in Webhooks
    BY <1>0, <1>6 DEF Mark, TypeOK
  <2>2. PositionOf(doing[t]) \in DOMAIN ledger
    BY <1>0, <1>6, <2>1, PositionRecorded DEF Mark, Marking, OnceInv, Recorded
  <2>. QED  BY <1>0, <1>6, <2>1, <2>2 DEF Mark, Marked, Done, TypeOK
<1>7. ASSUME NEW p \in Payments, RecordGrossRecovery(p) PROVE TypeOK'
  <2>1. /\ Sane(Unconfirmed("GROSS_RECOVERED", p))
        /\ AppendEntry(Unconfirmed("GROSS_RECOVERED", p))
    BY <1>7, UnconfirmedSane DEF RecordGrossRecovery
  <2>. QED  BY <1>0, <1>7, <2>1, AppendSane DEF RecordGrossRecovery, TypeOK
<1>8. ASSUME NEW r \in Refunds, ProcessRefund(r) PROVE TypeOK'
  <2>1. /\ Sane(Unconfirmed("REFUNDED", r))
        /\ AppendEntry(Unconfirmed("REFUNDED", r))
    BY <1>8, UnconfirmedSane DEF ProcessRefund
  <2>. QED  BY <1>0, <1>8, <2>1, AppendSane DEF ProcessRefund, TypeOK
<1>9. CASE UNCHANGED vars
  BY <1>0, <1>9 DEF vars, TypeOK
<1>. QED
  BY <1>1, <1>2, <1>3, <1>4, <1>5, <1>6, <1>7, <1>8, <1>9 DEF Next

LEMMA LockStep ==
    ASSUME TypeOK, LockInv, [Next]_vars
    PROVE  LockInv'
<1>. USE DEF Working
<1>1. ASSUME NEW t \in Threads, NEW w \in Webhooks, Receive(t, w) PROVE LockInv'
  BY <1>1 DEF Receive, LockFree, LockInv, TypeOK
<1>2. ASSUME UNCHANGED <<doing, processed>> PROVE LockInv'
  BY <1>2 DEF LockInv
<1>3. ASSUME NEW t \in Threads, Done(t), processed' = processed PROVE LockInv'
  BY <1>3 DEF Done, LockInv, TypeOK
<1>4. ASSUME NEW t \in Threads, Mark(t) PROVE LockInv'
  <2>1. Working(t)
    BY <1>4 DEF Mark, TypeOK
  <2>2. \A u \in Threads : ~Working(u)'
    BY <1>4, <2>1 DEF Mark, Done, LockInv, TypeOK
  <2>. QED  BY <2>2 DEF LockInv
<1>. QED
  BY <1>1, <1>2, <1>3, <1>4
     DEF Next, Replay, Reject, Record, AuditReconciled, RecordGrossRecovery,
         ProcessRefund, vars

\* Nothing is recorded or marked: what is recorded of a webhook stays so.
LEMMA OnceKept ==
    ASSUME OnceInv, UNCHANGED <<ledger, processed>>,
           \A t \in Threads : /\ Marking(t)' <=> Marking(t)
                              /\ Marking(t) => doing'[t] = doing[t]
    PROVE  OnceInv'
<1>. SUFFICES ASSUME NEW w \in Webhooks
              PROVE  /\ \A i, j \in Recorded(w)' : i = j
                     /\ Recorded(w)' # {} <=>
                           \/ w \in processed'
                           \/ \E t \in Threads : Marking(t)' /\ doing'[t] = w
  BY DEF OnceInv
<1>1. Recorded(w)' = Recorded(w)
  BY DEF Recorded
<1>. QED  BY <1>1 DEF OnceInv

\* An entry is appended: it is recorded for its origin alone.
LEMMA RecordedAppend ==
    ASSUME TypeOK, NEW e, Sane(e), AppendEntry(e), NEW w
    PROVE  Recorded(w)' = IF e.origin = w THEN Recorded(w) \cup {Len(ledger) + 1}
                                          ELSE Recorded(w)
<1>1. /\ DOMAIN ledger' = DOMAIN ledger \cup {Len(ledger) + 1}
      /\ Len(ledger) + 1 \notin DOMAIN ledger
      /\ \A i \in DOMAIN ledger : ledger'[i] = ledger[i]
      /\ ledger'[Len(ledger) + 1] = e
  BY AppendSane
<1>. HIDE DEF AppendEntry
<1>. QED  BY <1>1 DEF Recorded

LEMMA OnceStep ==
    ASSUME TypeOK, LockInv, OnceInv, [Next]_vars
    PROVE  OnceInv'
<1>1. ASSUME NEW t \in Threads, NEW w \in Webhooks, Receive(t, w) PROVE OnceInv'
  <2>1. \A u \in Threads : /\ Marking(u)' <=> Marking(u)
                           /\ Marking(u) => doing'[u] = doing[u]
    BY <1>1 DEF Receive, Marking, TypeOK, Working
  <2>. QED  BY <1>1, <2>1, OnceKept DEF Receive
<1>2. ASSUME NEW t \in Threads, NEW w \in Webhooks, Replay(t, w) PROVE OnceInv'
  BY <1>2, OnceKept DEF Replay, Marking
<1>3. ASSUME NEW t \in Threads, Reject(t) PROVE OnceInv'
  <2>1. \A u \in Threads : /\ Marking(u)' <=> Marking(u)
                           /\ Marking(u) => doing'[u] = doing[u]
    BY <1>3 DEF Reject, Done, Marking, TypeOK
  <2>. QED  BY <1>3, <2>1, OnceKept DEF Reject
<1>4. ASSUME NEW t \in Threads, Record(t) PROVE OnceInv'
  <2>. DEFINE v == doing[t]
  <2>1. /\ v \in Webhooks /\ Working(t) /\ ~Marking(t)
        /\ Sane(EntryFor(v)) /\ AppendEntry(EntryFor(v))
        /\ EntryFor(v).origin = v
    BY <1>4, EntryForSane DEF Record, TypeOK, Working, Marking
  <2>2. \A u \in Threads : ~Marking(u)
    BY <2>1 DEF LockInv, Marking, TypeOK, Working
  <2>3. v \notin processed
    BY <2>1 DEF LockInv
  <2>4. Recorded(v) = {}
    BY <2>1, <2>2, <2>3 DEF OnceInv
  <2>5. \A w : Recorded(w)' = IF v = w THEN Recorded(w) \cup {Len(ledger) + 1}
                                       ELSE Recorded(w)
    BY <2>1, RecordedAppend
  <2>6. \A u \in Threads : Marking(u)' <=> u = t
    BY <1>4, <2>2 DEF Record, Marking, TypeOK
  <2>7. doing' = doing /\ processed' = processed
    BY <1>4 DEF Record
  <2>8. ASSUME NEW w \in Webhooks
        PROVE  /\ \A i, j \in Recorded(w)' : i = j
               /\ Recorded(w)' # {} <=>
                     \/ w \in processed'
                     \/ \E u \in Threads : Marking(u)' /\ doing'[u] = w
    <3>1. CASE w = v
      BY <2>4, <2>5, <2>6, <2>7, <3>1
    <3>2. CASE w # v
      <4>1. Recorded(w)' = Recorded(w)
        BY <2>5, <3>2
      <4>2. ~\E u \in Threads : Marking(u)' /\ doing'[u] = w
        BY <2>6, <2>7, <3>2
      <4>. QED  BY <2>2, <2>7, <4>1, <4>2 DEF OnceInv
    <3>. QED  BY <3>1, <3>2
  <2>. QED  BY <2>8 DEF OnceInv
<1>5. ASSUME NEW t \in Threads, AuditReconciled(t) PROVE OnceInv'
  <2>1. \A u \in Threads : Marking(u)' <=> Marking(u)
    BY <1>5 DEF AuditReconciled, Marking, TypeOK
  <2>. QED  BY <1>5, <2>1, OnceKept DEF AuditReconciled
<1>6. ASSUME NEW t \in Threads, Mark(t) PROVE OnceInv'
  <2>. DEFINE v == doing[t]
  <2>1. v \in Webhooks /\ Working(t) /\ Marking(t)
    BY <1>6 DEF Mark, TypeOK, Working, Marking
  <2>2. \A u \in Threads : Marking(u) => u = t
    BY <2>1 DEF LockInv, Marking, TypeOK, Working
  <2>3. \A u \in Threads : ~Marking(u)'
    BY <1>6, <2>2 DEF Mark, Done, Marking, TypeOK
  <2>4. ledger' = ledger /\ processed' = processed \cup {v}
    BY <1>6 DEF Mark, Marked
  <2>5. ASSUME NEW w \in Webhooks
        PROVE  /\ \A i, j \in Recorded(w)' : i = j
               /\ Recorded(w)' # {} <=>
                     \/ w \in processed'
                     \/ \E u \in Threads : Marking(u)' /\ doing'[u] = w
    <3>1. Recorded(w)' = Recorded(w)
      BY <2>4 DEF Recorded
    <3>. QED  BY <2>1, <2>2, <2>3, <2>4, <3>1 DEF OnceInv
  <2>. QED  BY <2>5 DEF OnceInv
<1>10. ASSUME NEW p \in Payments \cup Refunds,
             NEW s \in {"GROSS_RECOVERED", "REFUNDED"},
             AppendEntry(Unconfirmed(s, p)), UNCHANGED <<processed, doing, step>>
      PROVE  OnceInv'
  <2>1. \A w \in Webhooks : Recorded(w)' = Recorded(w)
    BY <1>10, UnconfirmedSane, RecordedAppend, WebhookAssumption
  <2>. QED  BY <1>10, <2>1 DEF OnceInv, Marking
<1>7. ASSUME NEW p \in Payments, RecordGrossRecovery(p) PROVE OnceInv'
  BY <1>10, <1>7 DEF RecordGrossRecovery
<1>8. ASSUME NEW r \in Refunds, ProcessRefund(r) PROVE OnceInv'
  BY <1>10, <1>8 DEF ProcessRefund
<1>9. CASE UNCHANGED vars
  BY <1>9, OnceKept DEF vars, Marking
<1>. QED
  BY <1>1, <1>2, <1>3, <1>4, <1>5, <1>6, <1>7, <1>8, <1>9 DEF Next

\* What is recorded stays recorded.
LEMMA RecordedStays ==
    ASSUME TypeOK, [Next]_vars, NEW w
    PROVE  Recorded(w) \subseteq Recorded(w)'
<1>1. ASSUME NEW e, Sane(e), AppendEntry(e)
      PROVE  Recorded(w) \subseteq Recorded(w)'
  BY <1>1, RecordedAppend
<1>2. ASSUME ledger' = ledger PROVE Recorded(w) \subseteq Recorded(w)'
  BY <1>2 DEF Recorded
<1>3. ASSUME NEW t \in Threads, Record(t)
      PROVE  Recorded(w) \subseteq Recorded(w)'
  <2>1. doing[t] \in Webhooks
    BY <1>3 DEF Record, TypeOK, Working
  <2>. QED  BY <1>1, <1>3, <2>1, EntryForSane DEF Record
<1>4. ASSUME NEW p \in Payments, RecordGrossRecovery(p)
      PROVE  Recorded(w) \subseteq Recorded(w)'
  BY <1>1, <1>4, UnconfirmedSane DEF RecordGrossRecovery
<1>5. ASSUME NEW r \in Refunds, ProcessRefund(r)
      PROVE  Recorded(w) \subseteq Recorded(w)'
  BY <1>1, <1>5, UnconfirmedSane DEF ProcessRefund
<1>. QED
  BY <1>2, <1>3, <1>4, <1>5
     DEF Next, Receive, Replay, Reject, AuditReconciled, Mark, vars

LEMMA AnswerStep ==
    ASSUME TypeOK, OnceInv, AnswerInv, [Next]_vars
    PROVE  AnswerInv'
<1>1. ASSUME NEW a \in answers
      PROVE  \E w \in Webhooks : a.event = w.event /\ a.entry \in Recorded(w)'
  BY <1>1, RecordedStays DEF AnswerInv
<1>2. ASSUME NEW v \in Webhooks, Recorded(v) # {}, ledger' = ledger,
             answers' = answers \cup {[event |-> v.event,
                                       entry |-> PositionOf(v)]}
      PROVE  AnswerInv'
  <2>1. PositionOf(v) \in Recorded(v)'
    BY <1>2, PositionRecorded DEF Recorded
  <2>. QED  BY <1>1, <1>2, <2>1 DEF AnswerInv
<1>3. ASSUME NEW t \in Threads, NEW w \in Webhooks, Replay(t, w)
      PROVE  AnswerInv'
  BY <1>2, <1>3 DEF Replay, OnceInv
<1>4. ASSUME NEW t \in Threads, Mark(t) PROVE AnswerInv'
  <2>1. doing[t] \in Webhooks /\ Marking(t)
    BY <1>4 DEF Mark, TypeOK, Working, Marking
  <2>2. Recorded(doing[t]) # {}
    BY <2>1 DEF OnceInv
  <2>. QED  BY <1>2, <1>4, <2>1, <2>2 DEF Mark
<1>5. ASSUME answers' = answers PROVE AnswerInv'
  BY <1>1, <1>5 DEF AnswerInv
<1>. QED
  BY <1>3, <1>4, <1>5
     DEF Next, Receive, Reject, Record, AuditReconciled, RecordGrossRecovery,
         ProcessRefund, vars

\* The ledger's entries and the events.
LEMMA EntryStep ==
    ASSUME TypeOK, EntryInv, [Next]_vars
    PROVE  EntryInv'
<1>1. ASSUME NEW e, Sane(e), AppendEntry(e), called' = called \cup {e.origin}
             \/ called' = called,
             e.origin \in Webhooks => e = EntryFor(e.origin)
                                      /\ Recordable(e.origin),
             e.origin \in Payments =>
                 e = Unconfirmed("GROSS_RECOVERED", e.origin),
             e.origin \in Refunds => e = Unconfirmed("REFUNDED", e.origin),
             e.origin \notin Webhooks => e.origin \in called'
      PROVE  EntryInv'
  <2>1. /\ DOMAIN ledger' = DOMAIN ledger \cup {Len(ledger) + 1}
        /\ \A i \in DOMAIN ledger : ledger'[i] = ledger[i]
        /\ ledger'[Len(ledger) + 1] = e
    BY <1>1, AppendSane
  <2>2. \A o \in called' : Recorded(o)' # {}
    <3>1. \A w : Recorded(w)' = IF e.origin = w
                                THEN Recorded(w) \cup {Len(ledger) + 1}
                                ELSE Recorded(w)
      BY <1>1, RecordedAppend
    <3>. QED  BY <1>1, <3>1 DEF EntryInv
  <2>3. ASSUME NEW i \in DOMAIN ledger', NEW o, o = ledger'[i].origin
        PROVE  /\ o \in Webhooks => ledger'[i] = EntryFor(o) /\ Recordable(o)
               /\ o \in Payments => /\ o \in called'
                                    /\ ledger'[i]
                                          = Unconfirmed("GROSS_RECOVERED", o)
               /\ o \in Refunds => /\ o \in called'
                                   /\ ledger'[i] = Unconfirmed("REFUNDED", o)
    <3>1. CASE i \in DOMAIN ledger
      BY <1>1, <2>1, <2>3, <3>1 DEF EntryInv
    <3>2. CASE i = Len(ledger) + 1
      BY <1>1, <2>1, <2>3, <3>2, WebhookAssumption
    <3>. QED  BY <2>1, <3>1, <3>2
  <2>. QED  BY <2>2, <2>3 DEF EntryInv
<1>2. ASSUME UNCHANGED <<ledger, called>> PROVE EntryInv'
  BY <1>2 DEF EntryInv, Recorded
<1>3. ASSUME NEW t \in Threads, Record(t) PROVE EntryInv'
  <2>. DEFINE v == doing[t]
              e == EntryFor(v)
  <2>1. /\ v \in Webhooks /\ Recordable(v) /\ AppendEntry(e)
        /\ called' = called
    BY <1>3 DEF Record, TypeOK, Working
  <2>2. Sane(e) /\ e.origin = v /\ v \notin Payments \cup Refunds
    BY <2>1, EntryForSane, WebhookAssumption
  <2>. HIDE DEF v
  <2>. QED  BY <1>1, <2>1, <2>2
<1>4. ASSUME NEW p \in Payments, RecordGrossRecovery(p) PROVE EntryInv'
  <2>. DEFINE e == Unconfirmed("GROSS_RECOVERED", p)
  <2>1. /\ AppendEntry(e) /\ called' = called \cup {p}
        /\ Sane(e) /\ e.origin = p /\ p \notin Webhooks /\ p \notin Refunds
    BY <1>4, UnconfirmedSane, WebhookAssumption DEF RecordGrossRecovery
  <2>. QED  BY <1>1, <2>1
<1>5. ASSUME NEW r \in Refunds, ProcessRefund(r) PROVE EntryInv'
  <2>. DEFINE e == Unconfirmed("REFUNDED", r)
  <2>1. /\ AppendEntry(e) /\ called' = called \cup {r}
        /\ Sane(e) /\ e.origin = r /\ r \notin Webhooks /\ r \notin Payments
    BY <1>5, UnconfirmedSane, WebhookAssumption DEF ProcessRefund
  <2>. QED  BY <1>1, <2>1
<1>. QED
  BY <1>2, <1>3, <1>4, <1>5
     DEF Next, Receive, Replay, Reject, AuditReconciled, Mark, vars

-----------------------------------------------------------------------------
(* The audit log.                                                          *)

LEMMA AuditAppend ==
    ASSUME TypeOK, NEW x, audit' = Append(audit, x)
    PROVE  /\ Len(audit) \in Nat /\ DOMAIN audit = 1..Len(audit)
           /\ DOMAIN audit' = DOMAIN audit \cup {Len(audit) + 1}
           /\ \A k \in DOMAIN audit : audit'[k] = audit[k] /\ k < Len(audit) + 1
           /\ Len(audit) + 1 \notin DOMAIN audit
           /\ audit'[Len(audit) + 1] = x
BY DEF TypeOK

LEMMA NthFinite ==
    ASSUME TypeOK
    PROVE  /\ IsFiniteSet(AuditRecords) /\ Cardinality(AuditRecords) \in Nat
           /\ AuditRecords \in SUBSET DOMAIN audit
<1>1. DOMAIN audit = 1..Len(audit) /\ Len(audit) \in Nat
  BY DEF TypeOK
<1>2. IsFiniteSet(DOMAIN audit)
  BY <1>1, FS_Interval
<1>3. AuditRecords \in SUBSET DOMAIN audit
  BY DEF AuditRecords
<1>. QED  BY <1>2, <1>3, FS_Subset, FS_CardinalityType

\* A record of the ledger is the next of its records.
LEMMA OrderAppend ==
    ASSUME TypeOK, OrderInv, NEW e, Sane(e), AppendEntry(e)
    PROVE  OrderInv'
<1>. DEFINE n == Len(audit) + 1
            l == Len(ledger)
<1>1. /\ DOMAIN audit' = DOMAIN audit \cup {n} /\ n \notin DOMAIN audit
      /\ \A k \in DOMAIN audit : audit'[k] = audit[k] /\ k < n
      /\ audit'[n] = RecordOf(e)
      /\ DOMAIN audit \in SUBSET Nat /\ n \in Nat
  BY AuditAppend DEF AppendEntry
<1>2. /\ l \in Nat /\ DOMAIN ledger = 1..l
      /\ DOMAIN ledger' = DOMAIN ledger \cup {l + 1}
      /\ \A i \in DOMAIN ledger : ledger'[i] = ledger[i]
      /\ ledger'[l + 1] = e /\ Len(ledger') = l + 1
  <2>1. ledger \in Seq(Entry) /\ ledger' = Append(ledger, e)
    BY DEF TypeOK, AppendEntry
  <2>. QED  BY <2>1, AppendSane
<1>3. /\ IsFiniteSet(AuditRecords) /\ AuditRecords \in SUBSET DOMAIN audit
      /\ Cardinality(AuditRecords) = l
  BY NthFinite DEF OrderInv
<1>. HIDE DEF n, l
<1>4. AuditRecords' = AuditRecords \cup {n} /\ n \notin AuditRecords
  BY <1>1 DEF AuditRecords, RecordOf
<1>5. Cardinality(AuditRecords') = l + 1
  BY <1>3, <1>4, FS_AddElement
<1>6. ASSUME NEW j \in AuditRecords'
      PROVE  /\ Nth(j)' \in DOMAIN ledger'
             /\ audit'[j].origin = ledger'[Nth(j)'].origin
  <2>1. CASE j = n
    <3>1. {k \in AuditRecords' : k <= j} = AuditRecords'
      <4>1. \A k \in AuditRecords' : k <= n
        <5>1. \A k \in AuditRecords' : k \in Nat /\ (k < n \/ k = n)
          BY <1>1, <1>3, <1>4
        <5>. QED  BY <1>1, <5>1
      <4>. QED  BY <2>1, <4>1
    <3>2. Nth(j)' = l + 1
      BY <1>5, <3>1 DEF Nth
    <3>. QED  BY <1>1, <1>2, <2>1, <3>2 DEF RecordOf
  <2>2. CASE j # n
    <3>1. j \in AuditRecords /\ j \in DOMAIN audit /\ j < n /\ j \in Nat
      BY <1>1, <1>3, <1>4, <2>2
    <3>2. ~(n <= j)
      BY <1>1, <3>1
    <3>3. {k \in AuditRecords' : k <= j} = {k \in AuditRecords : k <= j}
      BY <1>4, <3>2
    <3>4. Nth(j)' = Nth(j)
      BY <3>3 DEF Nth
    <3>. QED  BY <1>1, <1>2, <3>1, <3>4 DEF OrderInv
  <2>. QED  BY <2>1, <2>2
<1>. QED  BY <1>2, <1>5, <1>6 DEF OrderInv

LEMMA OrderStep ==
    ASSUME TypeOK, OrderInv, [Next]_vars
    PROVE  OrderInv'
<1>1. ASSUME NEW t \in Threads, Record(t) PROVE OrderInv'
  <2>1. doing[t] \in Webhooks
    BY <1>1 DEF Record, TypeOK, Working
  <2>. QED  BY <1>1, <2>1, EntryForSane, OrderAppend DEF Record
<1>2. ASSUME NEW t \in Threads, AuditReconciled(t) PROVE OrderInv'
  <2>. DEFINE n == Len(audit) + 1
              x == [type |-> "RECONCILED", origin |-> doing[t]]
  <2>1. audit' = Append(audit, x) /\ ledger' = ledger
    BY <1>2 DEF AuditReconciled
  <2>. HIDE DEF x
  <2>2. /\ DOMAIN audit' = DOMAIN audit \cup {n} /\ n \notin DOMAIN audit
        /\ \A k \in DOMAIN audit : audit'[k] = audit[k]
        /\ audit'[n] = x
    BY <2>1, AuditAppend
  <2>. HIDE DEF n
  <2>3. AuditRecords' = AuditRecords
    BY <2>2 DEF AuditRecords, x
  <2>4. \A j \in AuditRecords : audit'[j] = audit[j] /\ Nth(j)' = Nth(j)
    BY <2>2, <2>3 DEF AuditRecords, Nth
  <2>. QED  BY <2>1, <2>3, <2>4 DEF OrderInv
<1>3. ASSUME NEW p \in Payments, RecordGrossRecovery(p) PROVE OrderInv'
  BY <1>3, UnconfirmedSane, OrderAppend DEF RecordGrossRecovery
<1>4. ASSUME NEW r \in Refunds, ProcessRefund(r) PROVE OrderInv'
  BY <1>4, UnconfirmedSane, OrderAppend DEF ProcessRefund
<1>5. ASSUME UNCHANGED <<ledger, audit>> PROVE OrderInv'
  BY <1>5 DEF OrderInv, AuditRecords, Nth
<1>. QED
  BY <1>1, <1>2, <1>3, <1>4, <1>5
     DEF Next, Receive, Replay, Reject, Mark, vars

\* A record of the ledger reconciles nothing, and what is in the log stays.
LEMMA LogKept ==
    ASSUME TypeOK, NEW e, AppendEntry(e), NEW w
    PROVE  /\ Logged(w) \subseteq Logged(w)'
           /\ Reconciled(w)' = Reconciled(w)
           /\ DOMAIN audit \subseteq DOMAIN audit'
           /\ e.origin = w => Logged(w)' # {}
<1>. DEFINE n == Len(audit) + 1
<1>1. /\ DOMAIN audit' = DOMAIN audit \cup {n} /\ n \notin DOMAIN audit
      /\ \A k \in DOMAIN audit : audit'[k] = audit[k]
      /\ audit'[n] = RecordOf(e)
  BY AuditAppend DEF AppendEntry
<1>. HIDE DEF n
<1>2. n \in DOMAIN audit' /\ DOMAIN audit \subseteq DOMAIN audit'
  BY <1>1
<1>3. Logged(w) \subseteq Logged(w)' /\ (e.origin = w => n \in Logged(w)')
  BY <1>1, <1>2 DEF Logged, RecordOf
<1>4. Reconciled(w)' = Reconciled(w)
  <2>1. audit'[n] # [type |-> "RECONCILED", origin |-> w]
    BY <1>1 DEF RecordOf
  <2>. QED  BY <1>1, <2>1 DEF Reconciled
<1>. QED  BY <1>2, <1>3, <1>4

\* The ledger's records are added, and no thread goes on to mark.
LEMMA ReconciledKept ==
    ASSUME TypeOK, ReconciledInv, processed' = processed,
           \A w \in Webhooks :
              /\ Logged(w) \subseteq Logged(w)'
              /\ Reconciled(w)' = Reconciled(w)
              /\ At("mark", w)' <=> At("mark", w)
              /\ At("audit", w)' => At("audit", w) \/ Logged(w)' # {},
           DOMAIN audit \subseteq DOMAIN audit'
    PROVE  ReconciledInv'
<1>1. ASSUME NEW w \in Webhooks
      PROVE  /\ At("audit", w)' => Logged(w)' # {}
             /\ w \notin processed' /\ ~At("mark", w)' => Reconciled(w)' = {}
             /\ w \in processed' \/ At("mark", w)' =>
                   \E i \in Logged(w)', j \in DOMAIN audit' :
                       i < j /\ Reconciled(w)' = {j}
  <2>1. At("audit", w)' => Logged(w)' # {}
    BY DEF ReconciledInv
  <2>2. w \notin processed' /\ ~At("mark", w)' => Reconciled(w)' = {}
    BY DEF ReconciledInv
  <2>3. ASSUME w \in processed' \/ At("mark", w)'
        PROVE  \E i \in Logged(w)', j \in DOMAIN audit' :
                   i < j /\ Reconciled(w)' = {j}
    <3>1. PICK i \in Logged(w), j \in DOMAIN audit :
                   i < j /\ Reconciled(w) = {j}
      BY <2>3 DEF ReconciledInv
    <3>2. i \in Logged(w)' /\ j \in DOMAIN audit' /\ Reconciled(w)' = {j}
      BY <3>1
    <3>. QED  BY <3>1, <3>2
  <2>. QED  BY <2>1, <2>2, <2>3
<1>. QED  BY <1>1 DEF ReconciledInv

LEMMA ReconciledStep ==
    ASSUME TypeOK, LockInv, ReconciledInv, [Next]_vars
    PROVE  ReconciledInv'
<1>1. ASSUME UNCHANGED <<audit, processed>>,
             \A w \in Webhooks : /\ At("mark", w)' <=> At("mark", w)
                                 /\ At("audit", w)' => At("audit", w)
      PROVE  ReconciledInv'
  <2>1. /\ \A w : Logged(w)' = Logged(w) /\ Reconciled(w)' = Reconciled(w)
        /\ DOMAIN audit' = DOMAIN audit
    BY <1>1 DEF Logged, Reconciled
  <2>. QED  BY <1>1, <2>1, ReconciledKept
<1>2. ASSUME NEW e, AppendEntry(e), processed' = processed,
             \A w \in Webhooks :
                /\ At("mark", w)' <=> At("mark", w)
                /\ At("audit", w)' => At("audit", w) \/ w = e.origin
      PROVE  ReconciledInv'
  <2>1. \A w : /\ Logged(w) \subseteq Logged(w)'
               /\ Reconciled(w)' = Reconciled(w)
               /\ DOMAIN audit \subseteq DOMAIN audit'
               /\ e.origin = w => Logged(w)' # {}
    BY <1>2, LogKept
  <2>. QED  BY <1>2, <2>1, ReconciledKept
<1>3. ASSUME NEW t \in Threads, NEW w \in Webhooks, Receive(t, w)
      PROVE  ReconciledInv'
  <2>1. \A u \in Threads : /\ step'[u] = "mark" <=> step[u] = "mark"
                           /\ step'[u] = "audit" <=> step[u] = "audit"
                           /\ step[u] # "idle" => doing'[u] = doing[u]
    BY <1>3 DEF Receive, TypeOK, Working
  <2>2. \A v \in Webhooks : /\ At("mark", v)' <=> At("mark", v)
                            /\ At("audit", v)' => At("audit", v)
    BY <2>1 DEF At
  <2>. QED  BY <1>1, <1>3, <2>2 DEF Receive
<1>4. ASSUME NEW t \in Threads, Reject(t) PROVE ReconciledInv'
  <2>1. \A u \in Threads : /\ step'[u] = "mark" <=> step[u] = "mark"
                           /\ step'[u] = "audit" <=> step[u] = "audit"
                           /\ step[u] # "record" => doing'[u] = doing[u]
    BY <1>4 DEF Reject, Done, TypeOK
  <2>2. \A v \in Webhooks : /\ At("mark", v)' <=> At("mark", v)
                            /\ At("audit", v)' => At("audit", v)
    BY <2>1 DEF At
  <2>. QED  BY <1>1, <1>4, <2>2 DEF Reject
<1>5. ASSUME NEW t \in Threads, Record(t) PROVE ReconciledInv'
  <2>1. /\ doing[t] \in Webhooks /\ doing' = doing /\ processed' = processed
        /\ AppendEntry(EntryFor(doing[t])) /\ Recordable(doing[t])
    BY <1>5 DEF Record, TypeOK, Working
  <2>2. EntryFor(doing[t]).origin = doing[t]
    BY <2>1, EntryForSane
  <2>3. \A u \in Threads : /\ step'[u] = "mark" <=> step[u] = "mark"
                           /\ step'[u] = "audit" => u = t \/ step[u] = "audit"
    BY <1>5 DEF Record, TypeOK
  <2>4. \A v \in Webhooks :
           /\ At("mark", v)' <=> At("mark", v)
           /\ At("audit", v)' => At("audit", v) \/ v = EntryFor(doing[t]).origin
    BY <2>1, <2>2, <2>3 DEF At
  <2>. QED  BY <1>2, <2>1, <2>4
<1>6. ASSUME NEW t \in Threads, AuditReconciled(t) PROVE ReconciledInv'
  <2>0. PICK v : v = doing[t]
    OBVIOUS
  <2>. DEFINE n == Len(audit) + 1
              x == [type |-> "RECONCILED", origin |-> v]
  <2>1. /\ v \in Webhooks /\ Working(t) /\ step[t] = "audit"
        /\ processed' = processed /\ doing' = doing
        /\ audit' = Append(audit, x)
        /\ step' = [step EXCEPT ![t] = "mark"]
    BY <1>6, <2>0 DEF AuditReconciled, TypeOK, Working
  <2>2. /\ v \notin processed
        /\ \A u \in Threads \ {t} : ~Working(u) /\ step[u] = "idle"
    BY <2>0, <2>1 DEF LockInv, TypeOK
  <2>3. \A w \in Webhooks : /\ ~At("mark", w) /\ ~At("audit", w)'
                            /\ At("mark", w)' <=> w = v
    <3>1. step'[t] = "mark" /\ \A u \in Threads \ {t} : step'[u] = "idle"
      BY <2>1, <2>2 DEF TypeOK
    <3>. QED  BY <2>0, <2>1, <2>2, <3>1 DEF At
  <2>4. Logged(v) # {} /\ Reconciled(v) = {}
    <3>1. At("audit", v)
      BY <2>0, <2>1 DEF At
    <3>. QED  BY <2>1, <2>2, <2>3, <3>1 DEF ReconciledInv
  <2>5. /\ DOMAIN audit' = DOMAIN audit \cup {n} /\ n \notin DOMAIN audit
        /\ \A k \in DOMAIN audit : audit'[k] = audit[k] /\ k < n
        /\ audit'[n] = x
    BY <2>1, AuditAppend
  <2>. HIDE DEF n
  <2>6. /\ \A w : Logged(w) \subseteq Logged(w)'
        /\ \A w : w # v => Reconciled(w)' = Reconciled(w)
        /\ Reconciled(v)' = {n}
    <3>1. \A w : Logged(w) \subseteq Logged(w)'
      BY <2>5 DEF Logged
    <3>2. ASSUME NEW w, w # v PROVE Reconciled(w)' = Reconciled(w)
      <4>1. audit'[n] # [type |-> "RECONCILED", origin |-> w]
        BY <2>5, <3>2
      <4>. QED  BY <2>5, <4>1 DEF Reconciled
    <3>3. Reconciled(v)' = {n}
      <4>1. \A k \in DOMAIN audit : audit[k] # x
        BY <2>4 DEF Reconciled
      <4>2. Reconciled(v)' = {k \in DOMAIN audit' : audit'[k] = x}
        BY DEF Reconciled
      <4>. HIDE DEF x
      <4>. QED  BY <2>5, <4>1, <4>2
    <3>. QED  BY <3>1, <3>2, <3>3
  <2>7. ASSUME NEW w \in Webhooks
        PROVE  /\ At("audit", w)' => Logged(w)' # {}
               /\ w \notin processed' /\ ~At("mark", w)' => Reconciled(w)' = {}
               /\ w \in processed' \/ At("mark", w)' =>
                     \E i \in Logged(w)', j \in DOMAIN audit' :
                         i < j /\ Reconciled(w)' = {j}
    <3>1. CASE w = v
      <4>1. PICK i \in Logged(v) : TRUE
        BY <2>4
      <4>2. i \in DOMAIN audit
        BY <4>1 DEF Logged
      <4>3. i \in Logged(v)' /\ n \in DOMAIN audit' /\ i < n
        BY <2>5, <2>6, <4>1, <4>2
      <4>4. \E j \in DOMAIN audit' : i < j /\ Reconciled(v)' = {j}
        BY <2>6, <4>3
      <4>5. ~At("audit", w)' /\ At("mark", w)'
        BY <2>3, <3>1
      <4>. QED  BY <3>1, <4>3, <4>4, <4>5
    <3>2. CASE w # v
      <4>1. w \notin processed => Reconciled(w)' = {}
        BY <2>3, <2>6, <3>2 DEF ReconciledInv
      <4>2. ASSUME w \in processed
            PROVE  \E i \in Logged(w)', j \in DOMAIN audit' :
                       i < j /\ Reconciled(w)' = {j}
        <5>1. PICK i \in Logged(w), j \in DOMAIN audit :
                       i < j /\ Reconciled(w) = {j}
          BY <4>2 DEF ReconciledInv
        <5>2. /\ i \in Logged(w)' /\ j \in DOMAIN audit'
              /\ Reconciled(w)' = {j}
          BY <2>5, <2>6, <3>2, <5>1
        <5>. QED  BY <5>1, <5>2
      <4>. QED  BY <2>1, <2>3, <3>2, <4>1, <4>2
    <3>. QED  BY <3>1, <3>2
  <2>. QED  BY <2>7 DEF ReconciledInv
<1>7. ASSUME NEW t \in Threads, Mark(t) PROVE ReconciledInv'
  <2>. DEFINE v == doing[t]
  <2>1. /\ v \in Webhooks /\ Working(t) /\ step[t] = "mark"
        /\ processed' = processed \cup {v} /\ audit' = audit
        /\ step' = [step EXCEPT ![t] = "idle"]
    BY <1>7 DEF Mark, Marked, Done, TypeOK, Working
  <2>2. \A u \in Threads \ {t} : step[u] = "idle"
    BY <2>1 DEF LockInv, TypeOK
  <2>3. \A w \in Webhooks : /\ At("mark", w) <=> w = v
                            /\ ~At("mark", w)' /\ ~At("audit", w)'
    <3>1. \A u \in Threads : step'[u] = "idle"
      BY <2>1, <2>2 DEF TypeOK
    <3>. QED  BY <2>1, <2>2, <3>1 DEF At
  <2>4. /\ \A w : Logged(w)' = Logged(w) /\ Reconciled(w)' = Reconciled(w)
        /\ DOMAIN audit' = DOMAIN audit
    BY <2>1 DEF Logged, Reconciled
  <2>. HIDE DEF v
  <2>. QED  BY <2>1, <2>3, <2>4 DEF ReconciledInv
<1>8. ASSUME NEW p \in Payments \cup Refunds,
             NEW s \in {"GROSS_RECOVERED", "REFUNDED"},
             AppendEntry(Unconfirmed(s, p)), UNCHANGED <<processed, doing, step>>
      PROVE  ReconciledInv'
  <2>1. \A s2, w : At(s2, w)' <=> At(s2, w)
    BY <1>8 DEF At
  <2>. QED  BY <1>2, <1>8, <2>1
<1>9. ASSUME UNCHANGED <<audit, processed, doing, step>> PROVE ReconciledInv'
  <2>1. \A s, w : At(s, w)' <=> At(s, w)
    BY <1>9 DEF At
  <2>. QED  BY <1>1, <1>9, <2>1
<1>. QED
  BY <1>3, <1>4, <1>5, <1>6, <1>7, <1>8, <1>9
     DEF Next, Replay, RecordGrossRecovery, ProcessRefund, vars

LEMMA IndStep == IndInv /\ [Next]_vars => IndInv'
BY TypeStep, LockStep, OnceStep, AnswerStep, EntryStep, OrderStep,
   ReconciledStep DEF IndInv

LEMMA Inductive == Spec => []IndInv
<1>1. Init => IndInv
  <2>. SUFFICES ASSUME Init PROVE IndInv
    OBVIOUS
  <2>1. TypeOK
    BY DEF Init, TypeOK, Working
  <2>2. LockInv /\ AnswerInv
    BY DEF Init, LockInv, Working, AnswerInv
  <2>3. OnceInv
    BY DEF Init, OnceInv, Recorded, Marking
  <2>4. EntryInv
    BY DEF Init, EntryInv
  <2>5. OrderInv /\ ReconciledInv
    <3>1. /\ AuditRecords = {} /\ Len(ledger) = 0
          /\ \A w : Reconciled(w) = {}
          /\ \A s, w : s # "idle" => ~At(s, w)
          /\ processed = {}
      BY DEF Init, AuditRecords, Reconciled, At
    <3>. QED  BY <3>1, FS_EmptySet DEF OrderInv, ReconciledInv
  <2>. QED  BY <2>1, <2>2, <2>3, <2>4, <2>5 DEF IndInv
<1>. QED  BY <1>1, IndStep, PTL DEF Spec

-----------------------------------------------------------------------------
(* The theorems.                                                           *)

\* The type invariant: in particular an entry confirms revenue only when it is
\* settled, and never more than was recovered.
THEOREM TypeCorrect == Spec => []TypeOK
<1>1. IndInv => TypeOK
  BY DEF IndInv
<1>. QED  BY <1>1, Inductive, PTL

\* A webhook makes one entry however often and by however many threads it is
\* delivered, and every delivery is answered with it.
THEOREM OneEntry == Spec => []OneEntryPerWebhook
<1>1. IndInv => OneEntryPerWebhook
  <2>. SUFFICES ASSUME IndInv, NEW w \in Webhooks
                PROVE  /\ Cardinality(Recorded(w)) <= 1
                       /\ \A a \in answers : a.event = w.event =>
                             Recorded(w) = {a.entry}
    BY DEF OneEntryPerWebhook
  <2>1. \A i, j \in Recorded(w) : i = j
    BY DEF IndInv, OnceInv
  <2>2. ASSUME NEW a \in answers, a.event = w.event
        PROVE  Recorded(w) = {a.entry}
    <3>1. PICK v \in Webhooks : a.event = v.event /\ a.entry \in Recorded(v)
      BY DEF IndInv, AnswerInv
    <3>2. v = w
      BY <2>2, <3>1, WebhookAssumption
    <3>. QED  BY <2>1, <3>1, <3>2
  <2>3. Cardinality(Recorded(w)) <= 1
    <3>1. CASE Recorded(w) = {}
      BY <3>1, FS_EmptySet
    <3>2. ASSUME NEW i \in Recorded(w) PROVE Cardinality(Recorded(w)) = 1
      <4>1. Recorded(w) = {i}
        BY <2>1, <3>2
      <4>2. Cardinality({i}) = 1
        BY FS_Singleton
      <4>. QED  BY <4>1, <4>2
    <3>. QED  BY <3>1, <3>2
  <2>. QED  BY <2>2, <2>3
<1>. QED  BY <1>1, Inductive, PTL

\* The audit log has the ledger's entries in the ledger's order, whatever
\* payments and webhooks of other threads come between the writes of one, and
\* says of a processed webhook once, and after its entry, that it was
\* reconciled.
THEOREM AuditOrdered == Spec => []AuditFollowsLedger
<1>1. IndInv => AuditFollowsLedger
  <2>. SUFFICES ASSUME IndInv PROVE AuditFollowsLedger
    OBVIOUS
  <2>1. /\ Cardinality(AuditRecords) = Len(ledger)
        /\ \A j \in AuditRecords : audit[j].origin = ledger[Nth(j)].origin
    BY DEF IndInv, OrderInv
  <2>2. ASSUME NEW w \in processed
        PROVE  \E i, j \in DOMAIN audit :
                 /\ i < j
                 /\ audit[i] = [type |-> "LEDGER_ENTRY_RECORDED", origin |-> w]
                 /\ \A k \in DOMAIN audit :
                       k = j <=> audit[k] = [type |-> "RECONCILED",
                                             origin |-> w]
    <3>1. w \in Webhooks
      BY DEF IndInv, TypeOK
    <3>2. PICK i \in Logged(w), j \in DOMAIN audit :
                   i < j /\ Reconciled(w) = {j}
      BY <3>1 DEF IndInv, ReconciledInv
    <3>3. /\ i \in DOMAIN audit
          /\ audit[i] = [type |-> "LEDGER_ENTRY_RECORDED", origin |-> w]
      BY DEF Logged
    <3>4. \A k \in DOMAIN audit :
             k = j <=> audit[k] = [type |-> "RECONCILED", origin |-> w]
      BY <3>2 DEF Reconciled
    <3>. QED  BY <3>2, <3>3, <3>4
  <2>. QED  BY <2>1, <2>2 DEF AuditFollowsLedger, Nth
<1>. QED  BY <1>1, Inductive, PTL

-----------------------------------------------------------------------------
(* The summary.                                                            *)

LEMMA Smallest ==
    ASSUME NEW T \in SUBSET Nat, T # {}
    PROVE  \E m \in T : \A n \in T : m <= n
<1>. DEFINE Less == {p \in Nat \X Nat : p[1] < p[2]}
<1>1. IsWellFoundedOn(Less, Nat)
  BY NatLessThanWellFounded DEF OpToRel
<1>2. \E m \in T : \A n \in T : ~(<<n, m>> \in Less)
  BY <1>1, WFMin
<1>3. \A m, n \in T : ~(<<n, m>> \in Less) => m <= n
  OBVIOUS
<1>. QED  BY <1>2, <1>3

\* The numbers in a sequence have a bound.
LEMMA SequenceBounded ==
    ASSUME NEW f \in Seq(Nat)
    PROVE  \E b \in Nat : \A i \in DOMAIN f : f[i] <= b
<1>. DEFINE Bound(n, b) == b \in Nat /\ \A i \in 1..n : f[i] <= b
            Fails == {n \in Nat : n <= Len(f) /\ ~\E b : Bound(n, b)}
<1>0. Len(f) \in Nat /\ DOMAIN f = 1..Len(f)
  OBVIOUS
<1>1. SUFFICES Fails = {}
  <2>1. Len(f) \notin Fails => \E b : Bound(Len(f), b)
    BY <1>0
  <2>2. (\E b : Bound(Len(f), b)) => \E b \in Nat : \A i \in DOMAIN f : f[i] <= b
    BY <1>0
  <2>. QED  BY <2>1, <2>2
<1>2. SUFFICES ASSUME Fails # {} PROVE FALSE
  OBVIOUS
<1>3. PICK m \in Fails : \A n \in Fails : m <= n
  <2>. Fails \in SUBSET Nat
    OBVIOUS
  <2>. HIDE DEF Fails
  <2>. QED  BY <1>2, Smallest
<1>4. CASE m = 0
  <2>1. Bound(0, 0)
    OBVIOUS
  <2>. QED  BY <1>3, <1>4, <2>1
<1>5. CASE m # 0
  <2>1. m \in Nat /\ m - 1 \in Nat /\ m <= Len(f)
    BY <1>3, <1>5
  <2>2. m - 1 \notin Fails
    <3>1. ~(m <= m - 1)
      BY <2>1
    <3>. HIDE DEF Fails
    <3>. QED  BY <1>3, <3>1
  <2>3. PICK b : Bound(m - 1, b)
    BY <1>0, <2>1, <2>2
  <2>4. f[m] \in Nat
    BY <1>0, <1>5, <2>1, ElementOfSeq
  <2>. DEFINE c == b + f[m]
  <2>5. c \in Nat /\ b <= c /\ f[m] <= c /\ b \in Nat
    BY <2>3, <2>4
  <2>. HIDE DEF c
  <2>6. ASSUME NEW i \in 1..m PROVE f[i] <= c
    <3>1. CASE i = m
      BY <2>5, <3>1
    <3>2. CASE i # m
      <4>1. i \in 1..(m - 1) /\ i \in 1..Len(f)
        BY <1>0, <2>1, <3>2
      <4>2. f[i] <= b /\ f[i] \in Nat
        BY <2>3, <4>1, ElementOfSeq
      <4>. QED  BY <2>5, <4>2
    <3>. QED  BY <3>1, <3>2
  <2>7. Bound(m, c)
    BY <2>5, <2>6
  <2>. QED  BY <1>3, <2>7
<1>. QED  BY <1>4, <1>5

\* Numbers that have a bound have a maximum.
LEMMA MaxOf ==
    ASSUME NEW S \in SUBSET Nat, S # {},
           NEW b \in Nat, \A x \in S : x <= b
    PROVE  Max(S) \in S /\ \A x \in S : x <= Max(S)
<1>. DEFINE T == {n \in Nat : \A x \in S : x <= n}
<1>0. \A x \in S : x \in Nat
  OBVIOUS
<1>1. PICK m \in T : \A n \in T : m <= n
  <2>. T \in SUBSET Nat /\ b \in T
    OBVIOUS
  <2>. HIDE DEF T
  <2>. QED  BY Smallest
<1>2. m \in S
  <2>1. SUFFICES ASSUME m \notin S PROVE FALSE
    OBVIOUS
  <2>2. \A x \in S : x < m
    <3>1. \A x \in S : x <= m /\ x # m
      BY <1>1, <2>1
    <3>. QED  BY <1>0, <1>1, <3>1
  <2>3. PICK x \in S : TRUE
    OBVIOUS
  <2>4. m - 1 \in Nat
    BY <1>0, <1>1, <2>2, <2>3
  <2>5. \A y \in S : y <= m - 1
    BY <1>0, <1>1, <2>2
  <2>6. m - 1 \in T
    BY <2>4, <2>5
  <2>. QED  BY <1>1, <2>6
<1>3. \A x \in S : m >= x
  BY <1>0, <1>1
<1>4. \E n \in S : \A x \in S : n >= x
  BY <1>2, <1>3
<1>. DEFINE n == Max(S)
<1>5. n \in S /\ \A x \in S : n >= x
  BY <1>4 DEF Max
<1>. HIDE DEF n
<1>6. \A x \in S : x <= n
  BY <1>0, <1>5
<1>. QED  BY <1>5, <1>6 DEF n

\* Nothing that was paid or confirmed is more than what counts as recovered.
LEMMA GrossOf ==
    ASSUME TypeOK
    PROVE  /\ TotalGrossRecovered \in Nat
           /\ \A i \in InState({"GROSS_RECOVERED", "CONFIRMED_SETTLED"}) :
                 ledger[i].gross <= TotalGrossRecovered
<1>. DEFINE f == [i \in DOMAIN ledger |-> ledger[i].gross]
            L == InState({"GROSS_RECOVERED", "CONFIRMED_SETTLED"})
            S == {0} \cup {ledger[i].gross : i \in L}
<1>1. ledger \in Seq(Entry) /\ DOMAIN ledger = 1..Len(ledger)
      /\ Len(ledger) \in Nat
  BY DEF TypeOK
<1>2. \A i \in DOMAIN ledger : ledger[i].gross \in Nat
  <2>1. \A i \in DOMAIN ledger : ledger[i] \in Entry
    BY <1>1, ElementOfSeq
  <2>. QED  BY <2>1 DEF Entry
<1>3. f \in Seq(Nat)
  BY <1>1, <1>2
<1>4. \A i \in L : i \in DOMAIN ledger
  BY DEF InState
<1>5. PICK b \in Nat : \A i \in DOMAIN f : f[i] <= b
  BY <1>3, SequenceBounded
<1>6. /\ S \in SUBSET Nat /\ S # {} /\ \A x \in S : x <= b
      /\ \A i \in L : ledger[i].gross \in S
  BY <1>2, <1>4, <1>5
<1>7. TotalGrossRecovered = Max(S)
  BY DEF TotalGrossRecovered
<1>. HIDE DEF S, L
<1>8. Max(S) \in S /\ \A x \in S : x <= Max(S)
  BY <1>6, MaxOf
<1>. QED  BY <1>6, <1>7, <1>8 DEF L

\* Whatever entry the summary takes for the last, it confirms nothing or the
\* net of a confirmed one.
LEMMA NetOf ==
    ASSUME NEW i \in DOMAIN ledger, NEW net \in NetConfirmed(i)
    PROVE  \/ net = 0
           \/ \E c \in InState({"CONFIRMED_SETTLED"}) : net = ledger[c].net
BY DEF NetConfirmed, LastConfirmed, Latest, InState

\* Confirmed revenue never exceeds what was recovered, whatever order the
\* summary takes the entries of one time in.
THEOREM NetBounded == Spec => []NetWithinGross
<1>1. IndInv => NetWithinGross
  <2>. SUFFICES ASSUME IndInv, NEW net \in TotalNetConfirmed
                PROVE  net <= TotalGrossRecovered
    BY DEF NetWithinGross
  <2>1. PICK i \in DOMAIN ledger : net \in NetConfirmed(i)
    BY DEF TotalNetConfirmed, Latest
  <2>2. /\ TotalGrossRecovered \in Nat
        /\ \A c \in InState({"GROSS_RECOVERED", "CONFIRMED_SETTLED"}) :
              ledger[c].gross <= TotalGrossRecovered
    BY GrossOf DEF IndInv
  <2>3. CASE net = 0
    BY <2>2, <2>3
  <2>4. ASSUME NEW c \in InState({"CONFIRMED_SETTLED"}), net = ledger[c].net
        PROVE  net <= TotalGrossRecovered
    <3>1. /\ c \in DOMAIN ledger
          /\ ledger[c].gross <= TotalGrossRecovered
      BY <2>2 DEF InState
    <3>2. ledger[c].net <= ledger[c].gross
      BY <3>1 DEF IndInv, TypeOK
    <3>3. ledger[c].net \in Nat /\ ledger[c].gross \in Nat
      <4>1. ledger[c] \in Entry
        BY <3>1, ElementOfSeq DEF IndInv, TypeOK
      <4>. QED  BY <4>1 DEF Entry
    <3>. QED  BY <2>2, <2>4, <3>1, <3>2, <3>3
  <2>. QED  BY <2>1, <2>3, <2>4, NetOf
<1>. QED  BY <1>1, Inductive, PTL

\* Whatever is known of the money is in the ledger, and the ledger holds but
\* what is known and payments.
LEMMA KnownRecorded ==
    ASSUME IndInv
    PROVE  /\ \A e \in Known : \E i \in DOMAIN ledger : ledger[i].origin = e
           /\ \A i \in DOMAIN ledger :
                 \/ /\ ledger[i].origin \in Payments \cap called
                    /\ ledger[i]
                          = Unconfirmed("GROSS_RECOVERED", ledger[i].origin)
                 \/ /\ ledger[i].origin \in Refunds \cap Known
                    /\ ledger[i] = Unconfirmed("REFUNDED", ledger[i].origin)
                 \/ /\ ledger[i].origin \in Webhooks \cap Known
                    /\ ledger[i] = EntryFor(ledger[i].origin)
<1>1. ASSUME NEW w \in Webhooks PROVE Recorded(w) # {} => w \in Known
  BY DEF IndInv, OnceInv, Known, Marking
<1>2. ASSUME NEW e \in Known PROVE Recorded(e) # {}
  <2>1. CASE e \in processed
    BY <2>1 DEF IndInv, OnceInv, TypeOK
  <2>2. CASE e \in called
    BY <2>2 DEF IndInv, EntryInv
  <2>3. ASSUME NEW t \in Threads, step[t] \in {"audit", "mark"}, e = doing[t]
        PROVE  Recorded(e) # {}
    <3>1. e \in Webhooks
      BY <2>3 DEF IndInv, TypeOK, Working
    <3>. QED  BY <2>3, <3>1 DEF IndInv, OnceInv, Marking
  <2>. QED  BY <2>1, <2>2, <2>3 DEF Known
<1>3. ASSUME NEW i \in DOMAIN ledger, NEW o, o = ledger[i].origin
      PROVE  \/ o \in Payments \cap called
                /\ ledger[i] = Unconfirmed("GROSS_RECOVERED", o)
             \/ o \in Refunds \cap Known
                /\ ledger[i] = Unconfirmed("REFUNDED", o)
             \/ o \in Webhooks \cap Known /\ ledger[i] = EntryFor(o)
  <2>1. o \in Origins
    <3>1. ledger[i] \in Entry
      BY ElementOfSeq DEF IndInv, TypeOK
    <3>. QED  BY <1>3, <3>1 DEF Entry
  <2>2. CASE o \in Payments
    BY <1>3, <2>2 DEF IndInv, EntryInv
  <2>3. CASE o \in Refunds
    BY <1>3, <2>3 DEF IndInv, EntryInv, Known
  <2>4. CASE o \in Webhooks
    <3>1. i \in Recorded(o)
      BY <1>3 DEF Recorded
    <3>. QED  BY <1>1, <1>3, <2>4, <3>1 DEF IndInv, EntryInv
  <2>. QED  BY <2>1, <2>2, <2>3, <2>4 DEF Origins
<1>. QED  BY <1>2, <1>3 DEF Recorded

\* An entry has the time of its event, and what its event leaves confirmed if
\* it is not of a payment.
LEMMA EntryOf ==
    /\ \A w \in Webhooks :
          LET e == EntryFor(w)
          IN  /\ e.at = w.at
              /\ \/ e.state = "CONFIRMED_SETTLED" /\ e.net = Leaves(w)
                 \/ e.state \in Losses /\ Leaves(w) = 0
    /\ \A r \in Refunds :
          LET e == Unconfirmed("REFUNDED", r)
          IN  e.at = r.at /\ e.state \in Losses /\ Leaves(r) = 0
    /\ \A p \in Payments :
          LET e == Unconfirmed("GROSS_RECOVERED", p)
          IN  e.at = p.at /\ e.state = "GROSS_RECOVERED"
<1>1. ASSUME NEW w \in Settlements
      PROVE  /\ EntryFor(w).at = w.at
             /\ EntryFor(w).state = "CONFIRMED_SETTLED"
             /\ EntryFor(w).net = Leaves(w)
  <2>1. w \notin Disputes
    BY WebhookAssumption
  <2>. QED  BY <2>1 DEF EntryFor, Confirmed, Leaves
<1>2. ASSUME NEW w \in Disputes
      PROVE  /\ EntryFor(w).at = w.at
             /\ \/ /\ EntryFor(w).state = "CONFIRMED_SETTLED"
                   /\ EntryFor(w).net = Leaves(w)
                \/ EntryFor(w).state \in Losses /\ Leaves(w) = 0
  <2>1. w \notin Settlements /\ EntryFor(w) = DisputeEntry(w)
    BY WebhookAssumption DEF EntryFor
  <2>2. CASE w.stage = "WON"
    BY <2>1, <2>2 DEF DisputeEntry, Confirmed, Leaves
  <2>3. CASE w.stage = "LOST"
    BY <2>1, <2>3 DEF DisputeEntry, Unconfirmed, Losses, Leaves
  <2>4. CASE w.stage \notin {"WON", "LOST"}
    BY <2>1, <2>4 DEF DisputeEntry, Unconfirmed, Losses, Leaves
  <2>. QED  BY <2>2, <2>3, <2>4
<1>3. ASSUME NEW r \in Refunds
      PROVE  /\ Unconfirmed("REFUNDED", r).at = r.at
             /\ Unconfirmed("REFUNDED", r).state \in Losses /\ Leaves(r) = 0
  <2>1. r \notin Settlements /\ r \notin Disputes
    BY WebhookAssumption DEF Webhooks
  <2>. QED  BY <2>1 DEF Unconfirmed, Losses, Leaves
<1>4. \A p \in Payments :
         /\ Unconfirmed("GROSS_RECOVERED", p).at = p.at
         /\ Unconfirmed("GROSS_RECOVERED", p).state = "GROSS_RECOVERED"
  BY DEF Unconfirmed
<1>. QED  BY <1>1, <1>2, <1>3, <1>4 DEF Webhooks

\* The confirmed revenue is what the last of the known events left, in whatever
\* order and however often they were delivered, unless a payment is not
\* earlier than a loss.
THEOREM EventsDecide == Spec => []SummaryFollowsEvents
<1>1. IndInv => SummaryFollowsEvents
  <2>. DEFINE last == {e \in Known : \A f \in Known : f.at <= e.at}
  <2>. SUFFICES ASSUME IndInv,
                       \A p \in called \cap Payments, e \in Known :
                           Confirms(e) \/ p.at < e.at,
                       NEW net \in TotalNetConfirmed
                PROVE  IF Known = {} THEN net = 0
                       ELSE \E e \in last : net = Leaves(e)
    BY DEF SummaryFollowsEvents
  <2>1. PICK i \in Latest(DOMAIN ledger) : net \in NetConfirmed(i)
    BY DEF TotalNetConfirmed
  <2>2. i \in DOMAIN ledger /\ \A j \in DOMAIN ledger : ledger[j].at <= ledger[i].at
    BY DEF Latest
  <2>. DEFINE o == ledger[i].origin
  <2>3. \/ /\ o \in Payments \cap called
           /\ ledger[i] = Unconfirmed("GROSS_RECOVERED", o)
        \/ /\ o \in Refunds \cap Known
           /\ ledger[i] = Unconfirmed("REFUNDED", o)
        \/ /\ o \in Webhooks \cap Known
           /\ ledger[i] = EntryFor(o)
    BY <2>2, KnownRecorded
  <2>4. ledger[i].at = o.at
    BY <2>3, EntryOf
  <2>5. ASSUME NEW e \in Known PROVE e.at <= o.at
    <3>1. PICK j \in DOMAIN ledger : ledger[j].origin = e
      BY KnownRecorded
    <3>2. ledger[j].at = e.at
      BY <3>1, KnownRecorded, EntryOf
    <3>. QED  BY <2>2, <2>4, <3>2
  <2>6. CASE o \in Payments \cap called
    <3>1. ASSUME NEW e \in Known PROVE Confirms(e)
      <4>1. o.at < e.at \/ Confirms(e)
        BY <2>6
      <4>2. e.at <= o.at
        BY <2>5
      <4>3. o.at \in Nat /\ e.at \in Nat
        BY <2>6, WebhookAssumption DEF Known, Webhooks, IndInv, TypeOK, Working
      <4>. QED  BY <4>1, <4>2, <4>3
    <3>2. /\ ledger[i].state = "GROSS_RECOVERED"
          /\ ledger[i].state # "CONFIRMED_SETTLED" /\ ledger[i].state \notin Losses
      <4>1. ledger[i] = Unconfirmed("GROSS_RECOVERED", o)
        <5>1. o \notin Webhooks /\ o \notin Refunds
          BY <2>6, WebhookAssumption DEF Webhooks
        <5>. QED  BY <2>3, <5>1
      <4>. QED  BY <2>6, <4>1, EntryOf DEF Losses
    \* What confirms revenue has a confirmed entry, and nothing else has one.
    <3>3. ASSUME NEW e \in Known
          PROVE  \E j \in InState({"CONFIRMED_SETTLED"}) : ledger[j].origin = e
      <4>1. PICK j \in DOMAIN ledger : ledger[j].origin = e
        BY KnownRecorded
      <4>2. e \in Webhooks /\ e \notin Payments /\ e \notin Refunds
        BY <3>1, WebhookAssumption DEF Confirms, Webhooks
      <4>3. ledger[j] = EntryFor(e)
        BY <4>1, <4>2, KnownRecorded
      <4>4. EntryFor(e).state = "CONFIRMED_SETTLED"
        BY <3>1, WebhookAssumption DEF Confirms, EntryFor, Confirmed,
                                      DisputeEntry
      <4>. QED  BY <4>1, <4>3, <4>4 DEF InState
    <3>4. ASSUME NEW j \in InState({"CONFIRMED_SETTLED"})
          PROVE  /\ ledger[j].origin \in Known
                 /\ ledger[j].at = ledger[j].origin.at
                 /\ ledger[j].net = Leaves(ledger[j].origin)
      <4>1. j \in DOMAIN ledger /\ ledger[j].state = "CONFIRMED_SETTLED"
        BY DEF InState
      <4>2. "CONFIRMED_SETTLED" \notin Losses
        BY DEF Losses
      <4>. QED  BY <4>1, <4>2, KnownRecorded, EntryOf
    <3>5. CASE Known = {}
      <4>1. InState({"CONFIRMED_SETTLED"}) = {}
        BY <3>4, <3>5
      <4>. QED  BY <2>1, <3>5, <4>1 DEF NetConfirmed
    <3>6. CASE Known # {}
      <4>1. InState({"CONFIRMED_SETTLED"}) # {}
        BY <3>3, <3>6
      <4>2. PICK c \in Latest(InState({"CONFIRMED_SETTLED"})) :
                net = ledger[c].net
        BY <2>1, <3>2, <4>1 DEF NetConfirmed, LastConfirmed
      <4>3. /\ c \in InState({"CONFIRMED_SETTLED"})
            /\ \A j \in InState({"CONFIRMED_SETTLED"}) :
                  ledger[j].at <= ledger[c].at
        BY <4>2 DEF Latest
      <4>4. ledger[c].origin \in last
        BY <3>3, <3>4, <4>3
      <4>. QED  BY <3>4, <3>6, <4>2, <4>3, <4>4
    <3>. QED  BY <3>5, <3>6
  <2>7. CASE o \in Known
    <3>1. o \in last
      BY <2>5, <2>7
    <3>2. \/ ledger[i].state = "CONFIRMED_SETTLED" /\ ledger[i].net = Leaves(o)
          \/ ledger[i].state \in Losses /\ Leaves(o) = 0
      <4>1. o \notin Payments
        BY <2>7, WebhookAssumption DEF Known, Webhooks, IndInv, TypeOK, Working
      <4>. QED  BY <2>3, <4>1, EntryOf
    <3>3. net = Leaves(o)
      <4>1. CASE ledger[i].state \in Losses /\ Leaves(o) = 0
        BY <2>1, <4>1 DEF NetConfirmed
      <4>2. CASE ledger[i].state = "CONFIRMED_SETTLED"
                 /\ ledger[i].net = Leaves(o)
        <5>1. i \in InState({"CONFIRMED_SETTLED"})
          BY <2>2, <4>2 DEF InState
        <5>2. ledger[i].state \notin Losses
          BY <4>2 DEF Losses
        <5>3. LastConfirmed(i) = {i}
          BY <4>2 DEF LastConfirmed
        <5>. QED  BY <2>1, <4>2, <5>1, <5>2, <5>3 DEF NetConfirmed
      <4>. QED  BY <3>2, <4>1, <4>2
    <3>. QED  BY <2>7, <3>1, <3>3
  <2>. QED  BY <2>3, <2>6, <2>7
<1>. QED  BY <1>1, Inductive, PTL

-----------------------------------------------------------------------------
(* The abstract handler.                                                   *)

LEMMA BookedSequence ==
    ASSUME TypeOK
    PROVE  /\ Bookings \in Seq(Origins) /\ Len(Bookings) = Len(ledger)
           /\ DOMAIN Bookings = 1..Len(ledger) /\ DOMAIN ledger = 1..Len(ledger)
           /\ Len(ledger) \in Nat
           /\ \A i \in 1..Len(ledger) : Bookings[i] = ledger[i].origin
<1>1. /\ ledger \in Seq(Entry) /\ Len(ledger) \in Nat
      /\ DOMAIN ledger = 1..Len(ledger)
  BY DEF TypeOK
<1>2. \A i \in 1..Len(ledger) : ledger[i].origin \in Origins
  <2>1. \A i \in 1..Len(ledger) : ledger[i] \in Entry
    BY <1>1, ElementOfSeq
  <2>. QED  BY <2>1 DEF Entry
<1>3. Bookings = [i \in 1..Len(ledger) |-> ledger[i].origin]
  BY <1>1 DEF Bookings
<1>4. Bookings \in [1..Len(ledger) -> Origins]
  BY <1>2, <1>3
<1>5. Bookings \in Seq(Origins)
  BY <1>1, <1>4
<1>6. Len(Bookings) = Len(ledger)
  BY <1>1, <1>3
<1>. QED  BY <1>1, <1>3, <1>5, <1>6

\* An entry that is appended is booked.
LEMMA Booked ==
    ASSUME TypeOK, TypeOK', NEW e, Sane(e), AppendEntry(e)
    PROVE  Bookings' = Append(Bookings, e.origin)
<1>1. /\ DOMAIN ledger' = DOMAIN ledger \cup {Len(ledger) + 1}
      /\ \A i \in DOMAIN ledger : ledger'[i] = ledger[i]
      /\ ledger'[Len(ledger) + 1] = e
  BY AppendSane
<1>2. e.origin \in Origins
  BY DEF Sane, Entry
<1>3. /\ Bookings \in Seq(Origins) /\ Len(Bookings) = Len(ledger)
      /\ Len(ledger) \in Nat /\ DOMAIN ledger = 1..Len(ledger)
      /\ \A i \in 1..Len(ledger) : Bookings[i] = ledger[i].origin
  BY BookedSequence
<1>4. /\ Append(Bookings, e.origin) \in Seq(Origins)
      /\ Len(Append(Bookings, e.origin)) = Len(ledger) + 1
      /\ \A i \in 1..Len(ledger) : Append(Bookings, e.origin)[i] = Bookings[i]
      /\ Append(Bookings, e.origin)[Len(ledger) + 1] = e.origin
  BY <1>2, <1>3, AppendProperties
<1>5. /\ Bookings' \in Seq(Origins) /\ Len(Bookings') = Len(ledger')
      /\ \A i \in 1..Len(ledger') : Bookings'[i] = ledger'[i].origin
      /\ Len(ledger') = Len(ledger) + 1
  <2>1. Len(ledger') = Len(ledger) + 1
    BY <1>3 DEF AppendEntry, TypeOK
  <2>2. /\ (Bookings \in Seq(Origins))' /\ (Len(Bookings) = Len(ledger))'
        /\ (\A i \in 1..Len(ledger) : Bookings[i] = ledger[i].origin)'
    BY BookedSequence, PTL
  <2>. QED  BY <2>1, <2>2
<1>6. \A i \in 1..Len(Bookings') : Bookings'[i] = Append(Bookings, e.origin)[i]
  BY <1>1, <1>3, <1>4, <1>5
<1>. QED  BY <1>4, <1>5, <1>6, SeqEqual

\* A webhook is reported once, when it is processed or about to be marked.
ReportInv ==
    \A w \in Webhooks :
        Reports[w] = IF w \in processed \/ At("mark", w) THEN 1 ELSE 0

LEMMA Reported == IndInv => ReportInv
<1>. SUFFICES ASSUME IndInv, NEW w \in Webhooks
              PROVE  Reports[w] = IF w \in processed \/ At("mark", w)
                                  THEN 1 ELSE 0
  BY DEF ReportInv
<1>1. CASE w \in processed \/ At("mark", w)
  <2>1. PICK j : Reconciled(w) = {j}
    BY <1>1 DEF IndInv, ReconciledInv
  <2>2. Cardinality({j}) = 1
    BY FS_Singleton
  <2>. QED  BY <1>1, <2>1, <2>2 DEF Reports
<1>2. CASE ~(w \in processed \/ At("mark", w))
  <2>1. Reconciled(w) = {}
    BY <1>2 DEF IndInv, ReconciledInv
  <2>. QED  BY <1>2, <2>1, FS_EmptySet DEF Reports
<1>. QED  BY <1>1, <1>2

\* A step of the handler is a step of the abstract one, or none.
LEMMA StepImplements == IndInv /\ [Next]_vars => [Once!Next]_(Once!vars)
<1>. SUFFICES ASSUME IndInv, [Next]_vars
              PROVE  [Once!Next]_(Once!vars)
  OBVIOUS
<1>0. /\ TypeOK /\ LockInv /\ OnceInv
      /\ IndInv' /\ TypeOK'
  BY IndStep DEF IndInv
<1>1. ASSUME UNCHANGED <<ledger, audit>>
      PROVE  Bookings' = Bookings /\ Reports' = Reports
  BY <1>1 DEF Bookings, Reports, Reconciled
<1>2. ASSUME NEW e, Sane(e), AppendEntry(e)
      PROVE  Bookings' = Append(Bookings, e.origin) /\ Reports' = Reports
  <2>1. Bookings' = Append(Bookings, e.origin)
    BY <1>0, <1>2, Booked
  <2>2. \A w : Reconciled(w)' = Reconciled(w)
    BY <1>0, <1>2, LogKept
  <2>. QED  BY <2>1, <2>2 DEF Reports
<1>3. ASSUME UNCHANGED <<ledger, audit, answers>>
      PROVE  [Once!Next]_(Once!vars)
  BY <1>1, <1>3 DEF Once!vars
\* A webhook that was reported is answered with the place of its entry.
<1>4. ASSUME NEW w \in Webhooks, w \in processed \/ At("mark", w),
             UNCHANGED <<ledger, audit>>,
             answers' = answers \cup {[event |-> w.event,
                                      entry |-> PositionOf(w)]}
      PROVE  Once!Next
  <2>1. Recorded(w) # {}
    BY <1>0, <1>4 DEF OnceInv, At, Marking
  <2>2. PICK i : i = PositionOf(w)
    OBVIOUS
  <2>3. i \in DOMAIN ledger /\ ledger[i].origin = w
    BY <2>1, <2>2, PositionRecorded DEF Recorded
  <2>4. i \in DOMAIN Bookings /\ Bookings[i] = w
    BY <2>3 DEF Bookings
  <2>5. Reports[w] = 1
    BY <1>4, Reported DEF ReportInv
  <2>6. Once!Answer(w, i)
    BY <1>1, <1>4, <2>2, <2>4, <2>5 DEF Once!Answer
  <2>. QED  BY <2>4, <2>6 DEF Once!Next
<1>5. ASSUME NEW t \in Threads, NEW w \in Webhooks, Replay(t, w)
      PROVE  Once!Next
  BY <1>4, <1>5 DEF Replay
<1>6. ASSUME NEW t \in Threads, Mark(t)
      PROVE  Once!Next
  <2>1. PICK w : w = doing[t]
    OBVIOUS
  <2>2. w \in Webhooks /\ At("mark", w)
    BY <1>0, <1>6, <2>1 DEF Mark, At, TypeOK, Working
  <2>. QED  BY <1>4, <1>6, <2>1, <2>2 DEF Mark
<1>7. ASSUME NEW t \in Threads, Record(t)
      PROVE  Once!Next
  <2>1. PICK w : w = doing[t]
    OBVIOUS
  <2>2. /\ w \in Webhooks /\ Working(t) /\ ~Marking(t)
        /\ Recordable(w) /\ AppendEntry(EntryFor(w)) /\ answers' = answers
    BY <1>0, <1>7, <2>1 DEF Record, TypeOK, Working, Marking
  <2>3. Sane(EntryFor(w)) /\ EntryFor(w).origin = w
    BY <2>2, EntryForSane
  <2>4. \A u \in Threads : ~Marking(u)
    BY <1>0, <2>2 DEF LockInv, Marking, TypeOK, Working
  <2>5. w \notin processed
    BY <1>0, <2>1, <2>2 DEF LockInv
  <2>6. Recorded(w) = {}
    BY <1>0, <2>2, <2>4, <2>5 DEF OnceInv
  <2>7. \A i \in DOMAIN Bookings : Bookings[i] # w
    BY <2>6 DEF Bookings, Recorded
  <2>8. Bookings' = Append(Bookings, w) /\ Reports' = Reports
    BY <1>2, <2>2, <2>3
  <2>9. Once!Book(w)
    BY <2>2, <2>7, <2>8 DEF Once!Book
  <2>. QED  BY <2>2, <2>9 DEF Once!Next
<1>8. ASSUME NEW t \in Threads, AuditReconciled(t)
      PROVE  Once!Next
  <2>1. PICK w : w = doing[t]
    OBVIOUS
  <2>. DEFINE x == [type |-> "RECONCILED", origin |-> w]
  <2>2. /\ w \in Webhooks /\ Working(t) /\ Marking(t) /\ step[t] = "audit"
        /\ ledger' = ledger /\ answers' = answers
        /\ audit' = Append(audit, x)
        /\ step'[t] = "mark" /\ doing'[t] = w
    BY <1>0, <1>8, <2>1 DEF AuditReconciled, TypeOK, Working, Marking
  <2>3. /\ w \notin processed
        /\ \A u \in Threads \ {t} : step[u] = "idle"
    BY <1>0, <2>1, <2>2 DEF LockInv, TypeOK
  <2>4. ~At("mark", w) /\ At("mark", w)'
    BY <2>2, <2>3 DEF At
  <2>5. Reports[w] = 0
    BY <2>2, <2>3, <2>4, Reported DEF ReportInv
  <2>6. Reports'[w] = 1
    <3>1. (IndInv => ReportInv)'
      BY Reported, PTL
    <3>. QED  BY <1>0, <2>2, <2>4, <3>1 DEF ReportInv
  <2>7. ASSUME NEW v \in Webhooks, v # w
        PROVE  Reconciled(v)' = Reconciled(v)
    <3>1. /\ DOMAIN audit' = DOMAIN audit \cup {Len(audit) + 1}
          /\ \A k \in DOMAIN audit : audit'[k] = audit[k]
          /\ audit'[Len(audit) + 1] = x
      BY <1>0, <2>2, AuditAppend
    <3>2. audit'[Len(audit) + 1] # [type |-> "RECONCILED", origin |-> v]
      BY <2>7, <3>1
    <3>. QED  BY <3>1, <3>2 DEF Reconciled
  <2>8. Reports' = [Reports EXCEPT ![w] = 1]
    <3>1. \A v \in Webhooks : v # w => Reports'[v] = Reports[v]
      BY <2>7 DEF Reports
    <3>2. /\ Reports' = [v \in Webhooks |-> Reports'[v]]
          /\ Reports = [v \in Webhooks |-> Reports[v]]
      BY DEF Reports
    <3>. QED  BY <2>6, <3>1, <3>2
  <2>9. Bookings' = Bookings
    BY <2>2 DEF Bookings
  <2>10. \E i \in DOMAIN Bookings : Bookings[i] = w
    <3>1. Recorded(w) # {}
      BY <1>0, <2>1, <2>2 DEF OnceInv
    <3>. QED  BY <3>1 DEF Recorded, Bookings
  <2>11. Once!Report(w)
    BY <2>2, <2>5, <2>8, <2>9, <2>10 DEF Once!Report
  <2>. QED  BY <2>2, <2>11 DEF Once!Next
<1>9. ASSUME NEW p \in Payments \cup Refunds,
             NEW s \in {"GROSS_RECOVERED", "REFUNDED"},
             AppendEntry(Unconfirmed(s, p)), answers' = answers
      PROVE  Once!Next
  <2>1. Sane(Unconfirmed(s, p)) /\ Unconfirmed(s, p).origin = p
    BY UnconfirmedSane
  <2>2. Bookings' = Append(Bookings, p) /\ Reports' = Reports
    BY <1>2, <1>9, <2>1
  <2>3. Once!BookCall(p)
    BY <1>9, <2>2 DEF Once!BookCall
  <2>. QED  BY <2>3 DEF Once!Next
<1>. QED
  BY <1>3, <1>5, <1>6, <1>7, <1>8, <1>9
     DEF Next, Receive, Reject, RecordGrossRecovery, ProcessRefund, vars

\* The handler and the ledger implement the abstract ones: however deliveries,
\* payments and refunds interleave, a webhook is booked and reported once, and
\* answered only afterwards.
THEOREM Refinement == Spec => ImplementsOnce
<1>1. Init => Once!Init
  <2>. SUFFICES ASSUME Init PROVE Once!Init
    OBVIOUS
  <2>1. \A w : Reconciled(w) = {}
    BY DEF Init, Reconciled
  <2>2. Reports = [w \in Webhooks |-> 0]
    BY <2>1, FS_EmptySet DEF Reports
  <2>3. Bookings = <<>>
    BY DEF Init, Bookings
  <2>. QED  BY <2>2, <2>3 DEF Init, Once!Init
<1>. QED
  BY <1>1, StepImplements, Inductive, PTL
     DEF Spec, ImplementsOnce, Once!Spec

=============================================================================
