--------------------------- MODULE EvidenceEngine ---------------------------
(***************************************************************************)
(* EvidenceEngine.evaluate_window (evidence/evidence_engine.py) called by  *)
(* several evaluators while the revenue ledger goes on recording.          *)
(*                                                                         *)
(* An evaluation asks the ledger for the summary of one case after the     *)
(* other.  The ledger is locked for each of them but not in between, and   *)
(* the engine only to register the claim; the claim is logged after that.  *)
(*                                                                         *)
(* Every recovery is of one unit, so that sums of money are counts.  An    *)
(* entry is the financial state it records.                                *)
(***************************************************************************)
EXTENDS Integers, Sequences, FiniteSets, SequencesExt

CONSTANTS Evaluators,
          Cases,
          Requests,        \* the calls of evaluate_window that are made
          MaxEntries,      \* bound on the entries of the ledger
          MaxEvaluations,  \* bound on the evaluations
          None

\* What is counted over the cases of a call.
Tally == [gross : Nat, confirmed : Nat, treatment : Nat, control : Nat]

\* The reporting states, each with its one blocking reason.
Verdicts == {<<"NOT_REPORTABLE", "BACKTESTING_ONLY">>,
             <<"DIRECTIONAL", "NO_EXPERIMENT_CONTROL">>,
             <<"DATA_PENDING", "INSUFFICIENT_SAMPLE_SIZE">>,
             <<"DATA_PENDING", "UNSETTLED_REVENUE">>,
             <<"APPROVED", None>>}

\* A lift is a fraction.
EvidenceMetricEntry ==
    [request : Requests, counted : Tally, verdict : Verdicts,
     lift : (Int \X Int) \cup {None}]

\* A call of evaluate_window: it reads case after case, or its claim is
\* registered and not yet logged.
Evaluation ==
    [step : {"read", "log"}, request : Requests, at : Nat \ {0},
     counted : Tally, claim : EvidenceMetricEntry \cup {None}]

\* The cohorts of a call are those of an experiment: no case is twice in
\* them.  metric stands for the metric id and the window.
ASSUME EvidenceAssumption ==
    /\ \A r \in Requests : /\ r.treatment \in Seq(Cases)
                           /\ r.control \in Seq(Cases)
                           /\ IsInjective(r.treatment \o r.control)
                           /\ r.backtest \in BOOLEAN
                           /\ r.min \in Nat
    /\ MaxEntries \in Nat
    /\ MaxEvaluations \in Nat
    /\ None \notin Evaluation
    /\ None \notin EvidenceMetricEntry

\* LOST stands for DISPUTED, REFUNDED and WRITTEN_OFF, which a summary treats
\* alike.
FinancialStates == {"GROSS_RECOVERED", "CONFIRMED_SETTLED", "LOST"}

Metrics == {r.metric : r \in Requests}

VARIABLES ledger,      \* ledger[c]: the entries of case c in order of time
          evaluation,  \* evaluation[e]: what evaluator e is doing, or None
          registry,    \* registry[m]: the claim registered for m, or None
          log,         \* the audit log
          made,        \* history: the claims registered, in their order
          begun,       \* how many evaluations have begun
          met          \* history: met[e], what the ledger has been like
                       \* since e began to read it

vars == <<ledger, evaluation, registry, log, made, begun, met>>

-----------------------------------------------------------------------------
(* get_case_summary, which raises for a case without entries: such a case  *)
(* counts nothing.                                                         *)

\* total_gross_recovered.
Gross(entries) ==
    IF \E i \in DOMAIN entries : entries[i] # "LOST" THEN 1 ELSE 0

\* total_net_confirmed: a loss at the end takes it back.
Net(entries) ==
    IF /\ \E i \in DOMAIN entries : entries[i] = "CONFIRMED_SETTLED"
       /\ Last(entries) # "LOST"
    THEN 1 ELSE 0

\* A case counts as recovered by what was confirmed or else by what was paid,
\* a payment that was lost since included.
Recovered(entries) ==
    \/ Net(entries) > 0
    \/ entries # <<>> /\ Last(entries) = "CONFIRMED_SETTLED"
    \/ Gross(entries) > 0

Confirmed == {c \in Cases : Net(ledger[c]) > 0}

AllRecovered == {c \in Cases : Recovered(ledger[c])}

-----------------------------------------------------------------------------
(* The claim.                                                              *)

\* How much better the treatment did, as a fraction of what the control did,
\* or its own rate when the control recovered nothing.
Lift(n, treated, controlled) ==
    CASE treated = 0 -> IF n.control > 0 THEN <<-1, 1>> ELSE <<0, 1>>
      [] treated > 0 /\ n.control > 0 ->
           <<n.treatment * controlled - n.control * treated,
             n.control * treated>>
      [] OTHER -> <<n.treatment, treated>>

\* Mutant: an approval does not ask for confirmed revenue.
UnsettledIgnored(n) == FALSE

Unsettled(n) == n.gross > 0 /\ n.confirmed = 0

\* The reporting state with its one blocking reason.
Verdict(r, n) ==
    LET small == Len(r.treatment) < r.min \/ Len(r.control) < r.min
    IN  CASE r.backtest -> <<"NOT_REPORTABLE", "BACKTESTING_ONLY">>
          [] ~r.backtest /\ r.control = <<>> ->
               <<"DIRECTIONAL", "NO_EXPERIMENT_CONTROL">>
          [] ~r.backtest /\ r.control # <<>> /\ small ->
               <<"DATA_PENDING", "INSUFFICIENT_SAMPLE_SIZE">>
          [] ~r.backtest /\ r.control # <<>> /\ ~small /\ Unsettled(n) ->
               <<"DATA_PENDING", "UNSETTLED_REVENUE">>
          [] OTHER -> <<"APPROVED", None>>

\* The EvidenceMetricEntry of a request for what was counted.
Claim(r, n) ==
    [request |-> r, counted |-> n, verdict |-> Verdict(r, n),
     lift |-> IF r.backtest \/ r.control = <<>>
              THEN None
              ELSE Lift(n, Len(r.treatment), Len(r.control))]

-----------------------------------------------------------------------------

Nothing == [gross |-> 0, confirmed |-> 0, treatment |-> 0, control |-> 0]

NotMet == [confirmed |-> {}, kept |-> {}, before |-> {}]

Init ==
    /\ ledger = [c \in Cases |-> <<>>]
    /\ evaluation = [e \in Evaluators |-> None]
    /\ registry = [m \in Metrics |-> None]
    /\ log = <<>>
    /\ made = <<>>
    /\ begun = 0
    /\ met = [e \in Evaluators |-> NotMet]

Step(e) == IF evaluation[e] = None THEN "none" ELSE evaluation[e].step

\* evaluate_window is called.
Begin(e, r) ==
    /\ evaluation[e] = None
    /\ begun < MaxEvaluations
    /\ begun' = begun + 1
    /\ evaluation' = [evaluation EXCEPT
                        ![e] = [step |-> "read", request |-> r, at |-> 1,
                                counted |-> Nothing, claim |-> None]]
    /\ met' = [met EXCEPT ![e] = [confirmed |-> Confirmed, kept |-> Confirmed,
                                  before |-> AllRecovered]]
    /\ UNCHANGED <<ledger, registry, log, made>>

Cohorts(r) == r.treatment \o r.control

\* Mutant: what was paid counts beside what was confirmed.
OneRecoveredTwice(entries) == Net(entries) + Gross(entries)

OneRecovered(entries) == IF Recovered(entries) THEN 1 ELSE 0

\* Mutant: what was paid is taken for what was confirmed.
OneConfirmedGross(entries) == Gross(entries)

OneConfirmed(entries) == Net(entries)

\* The counts with one more case, of the treatment or of the control.
Count(n, entries, treated) ==
    [gross     |-> n.gross + Gross(entries),
     confirmed |-> n.confirmed + OneConfirmed(entries),
     treatment |-> n.treatment + (IF treated THEN OneRecovered(entries)
                                             ELSE 0),
     control   |-> n.control + (IF treated THEN 0
                                           ELSE OneRecovered(entries))]

\* The summary of the next case.
ReadCase(e) ==
    LET v == evaluation[e]
        r == v.request
    IN  /\ Step(e) = "read"
        /\ v.at <= Len(Cohorts(r))
        /\ evaluation' =
              [evaluation EXCEPT
                 ![e].counted = Count(@, ledger[Cohorts(r)[v.at]],
                                      v.at <= Len(r.treatment)),
                 ![e].at = @ + 1]
        /\ UNCHANGED <<ledger, registry, log, made, begun, met>>

\* The claim is registered under the engine's lock, in the place of another.
Register(e) ==
    LET v == evaluation[e]
        claim == Claim(v.request, v.counted)
    IN  /\ Step(e) = "read"
        /\ v.at > Len(Cohorts(v.request))
        /\ registry' = [registry EXCEPT ![v.request.metric] = claim]
        /\ made' = Append(made, claim)
        /\ evaluation' = [evaluation EXCEPT ![e].step = "log",
                                            ![e].claim = claim]
        /\ UNCHANGED <<ledger, log, begun, met>>

\* Mutant: what the registry holds is logged.
LoggedRegistered(e) == registry[evaluation[e].request.metric]

Logged(e) == evaluation[e].claim

\* The claim is logged, without the lock, and returned.
AuditClaim(e) ==
    /\ Step(e) = "log"
    /\ log' = Append(log, Logged(e))
    /\ evaluation' = [evaluation EXCEPT ![e] = None]
    /\ met' = [met EXCEPT ![e] = NotMet]
    /\ UNCHANGED <<ledger, registry, made, begun>>

Entries == FoldFunction(LAMBDA s, n : n + Len(s), 0, ledger)

\* RevenueLedger.record_entry: a payment, a settlement or a loss, with a time
\* of its own that may be before that of others.
RecordEntry(c, state, i) ==
    /\ Entries < MaxEntries
    /\ ledger' = [ledger EXCEPT ![c] = InsertAt(@, i, state)]
    /\ met' = [e \in Evaluators |->
                 IF Step(e) = "read"
                 THEN [met[e] EXCEPT !.confirmed = @ \cup Confirmed',
                                     !.kept = @ \cap Confirmed']
                 ELSE met[e]]
    /\ UNCHANGED <<evaluation, registry, log, made, begun>>

Next ==
    \/ \E e \in Evaluators :
          \/ \E r \in Requests : Begin(e, r)
          \/ ReadCase(e)
          \/ Register(e)
          \/ AuditClaim(e)
    \/ \E c \in Cases, state \in FinancialStates :
          \E i \in 1..Len(ledger[c]) + 1 : RecordEntry(c, state, i)

Spec == Init /\ [][Next]_vars

-----------------------------------------------------------------------------
(* Properties.                                                             *)

Counts(r) == [gross : 0..Len(Cohorts(r)), confirmed : 0..Len(Cohorts(r)),
              treatment : 0..Len(r.treatment), control : 0..Len(r.control)]

\* The type invariant: in particular no cohort recovers more cases than it
\* has, so that no rate is over one.
TypeOK ==
    /\ ledger \in [Cases -> Seq(FinancialStates)]
    /\ evaluation \in [Evaluators -> Evaluation \cup {None}]
    /\ registry \in [Metrics -> EvidenceMetricEntry \cup {None}]
    /\ log \in Seq(EvidenceMetricEntry)
    /\ made \in Seq(EvidenceMetricEntry)
    /\ begun \in 0..MaxEvaluations
    /\ met \in [Evaluators -> [confirmed : SUBSET Cases, kept : SUBSET Cases,
                               before : SUBSET Cases]]
    /\ \A e \in Evaluators :
          LET v == evaluation[e]
          IN  v # None => /\ v.at <= Len(Cohorts(v.request)) + 1
                          /\ v.counted \in Counts(v.request)
    /\ \A m \in Metrics : registry[m] # None => registry[m].request.metric = m

\* Cases of a cohort that are in a set.
In(cohort, set) == Cardinality(ToSet(cohort) \cap set)

\* An evaluation reads a ledger that moves, and may see one that never was.
\* Still a claim never has more confirmed revenue than cases of its cohorts
\* were confirmed at some time while it was made, nor less than were confirmed
\* all the time; and it counts no case twice, nor misses one that had been
\* recovered before.  Of a ledger that stands still this is what it holds.
ClaimWithinWindow ==
    \A e \in Evaluators : Step(e) = "log" =>
        LET r == evaluation[e].request
            n == evaluation[e].claim.counted
        IN  /\ n.confirmed <= In(Cohorts(r), met[e].confirmed)
            /\ n.confirmed >= In(Cohorts(r), met[e].kept)
            /\ n.treatment >= In(r.treatment, met[e].before)
            /\ n.control >= In(r.control, met[e].before)
            /\ n.treatment <= In(r.treatment, AllRecovered)
            /\ n.control <= In(r.control, AllRecovered)

\* Recovered revenue is not automatically confirmed revenue (INV-11), which is
\* what the engine asks of an approval: a claim that says that anything was
\* recovered is approved only if some case of its cohorts was confirmed while
\* it was made, although payments, settlements and losses went on between the
\* reads.  The docstring of ReportingState asks for more, which the code does
\* not test and this does not claim: confirmed settled revenue although nothing
\* was recovered, and no settlement that is not final yet.
GrossAloneNotApproved ==
    \A e \in Evaluators :
        LET claim == evaluation[e].claim
            n == claim.counted
        IN  Step(e) = "log" /\ claim.verdict[1] = "APPROVED" =>
                \/ n.treatment = 0 /\ n.control = 0
                \/ met[e].confirmed \cap ToSet(Cohorts(claim.request)) # {}

\* How often a claim is in a sequence of claims.
Times(claim, claims) ==
    Cardinality({i \in DOMAIN claims : claims[i] = claim})

\* Complete audit logging of all calculated evidence (INV-18): in whatever order
\* evaluations of a metric register and log, a claim is in the log as often as
\* it was made, or is about to be, one that has lost its place in the registry
\* included.  INV-14 calls the registry itself permanent and append-only, which
\* it is not: it has one place for a metric and window, and a claim that is
\* registered later takes it, be it of an older evaluation.
EveryClaimLogged ==
    \A i \in DOMAIN made :
        Times(made[i], made) =
            Times(made[i], log)
            + Cardinality({e \in Evaluators : /\ Step(e) = "log"
                                              /\ evaluation[e].claim
                                                    = made[i]})

=============================================================================
