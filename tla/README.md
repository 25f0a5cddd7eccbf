# Verification of the revenue-recovery system

TLA+ models of the recovery system under `src/src/revenue_recovery`, the TLC
runs that check them on small instances, and theorems checked by TLAPS that
hold for every size.  `PROJECT.json` lists the runs, the source lines each
definition stands for, the hazards, the findings and the theorems.

The code is a library: its parts are wired together only by
`tests/integration/test_end_to_end_recovery.py`, and any of them may be called
by several threads, which is what their locks are for.  No state is persisted,
so there is nothing to recover after a crash.

## 1. The parts of the system

| Part | State | Operations | Hard about it | What makes it correct |
|---|---|---|---|---|
| Action executor (`executor/executor.py`) | `_execution_lock` | `execute_action`: eight gates | threads and retries race; a gate raises after another took something; the time is captured before the lock | at most one dispatch per key, one answer per key, store and audit agree |
| Idempotency store (`executor/idempotency.py`) | results by key | `get`, `record`, `matches_request` | a key reused for another request | see above |
| Kill switch (`safety/kill_switch.py`) | active switches by scope | activate, deactivate, `reset_all`, check | flips between a call's gate and its dispatch | what an activation can no longer stop is bounded |
| Circuit breakers (`safety/circuit_breaker.py`) | state, counters, `tripped_at`, probes, per channel | admit, report, release, trip, reset, queries that evaluate the timeout | late reports, old times, callers that never report | counters fit the state, probes limited, open for its timeout |
| Capacity governor (same file) | reservations in a rolling window | `record_action`, check | times that go back, of the executor and of the arbitrator | a reservation that is made in time leaves its window within the limits |
| Authorizer (`safety/authorizer.py`) | none after construction | mint, verify | expiry against a captured time | token binds every field of the request |
| Sandbox guard, simulators | scenario overrides, a history | verdict on a URL; canned responses | a name resolves differently from call to call | loopback only |
| Audit log (`foundation/audit.py`) | hash chain of entries | `append` | written beside other state | agrees with what happened |
| Case manager (`recovery_engine/case_manager.py`) | cases, a lock per case | create, transition, freeze, unfreeze, lookups | two locks; a look before the lock; creation logged outside it | no way round governance after a freeze, trail follows case |
| Diagnosis, decision engine | none | evaluate an event, a case | thresholds met exactly; works on copies of a case that moves | governance never has to refuse what the default provider recommends |
| Scheduler (`governance/scheduler.py`) | obligations per case | schedule, schedule for a case, resolve, freeze, pending | long sequences of calls; freezes between collisions | mandatory obligations prevail and are never lost |
| Policy engine, arbitrator (`governance/`) | policies by id; the arbitrator has none but claims breaker probes | register, evaluate, arbitrate | reads seven pieces of state at seven times, and a copy of the case | nothing that blocks all the time is overlooked; the log tells why an action was dispatched |
| Ledger (`reconciliation/ledger.py`) | list of entries | record, summaries | sorted by event time, ties broken at random | confirmed revenue only when settled and not lost |
| Settlement and dispute handler | processed webhooks | settlement, dispute, refund | webhooks late, twice, out of order | one entry per webhook; order does not matter |
| Experiments (`evidence/experiment.py`) | configurations, assignments | register, assign | registered anew while cases are assigned and run again | what was held back is never treated |
| Evidence engine (`evidence/evidence_engine.py`) | a claim per metric and window | evaluate, lookups | the ledger moves while it is read; evaluations overtake each other | a claim is bounded by what the ledger was meanwhile; every one is logged |
| Configuration (`foundation/config.py`) | none after start-up | validate | - | - |

The recovery loop goes: a failure is diagnosed, the decision engine recommends
an action, the experiment assigns an arm, the arbitrator asks safety (kill
switch, breaker, capacity) and compliance (policy, obligations), the authorizer
mints a token, the executor dispatches, the ledger records.  The parts interact
by direct calls: the arbitrator and the executor are given the
same breaker registry, governor, kill switch and audit log; the scheduler and
the case manager share only case ids and the caller's copy of a case; the
webhook handler writes to the ledger, the evidence engine reads from it.

## 2. Modules

| Module | Models |
|---|---|
| `BreakerOps`, `CapacityOps`, `KillSwitchOps`, `AuthorizerOps` | methods of those classes as operators on a record, a sequence or a set |
| `CircuitBreaker` | one breaker with concurrent callers |
| `ActionExecutor` | `execute_action` with all the services it consults |
| `IdempotentExecution` | abstract: the at-most-once service the executor implements |
| `TimedGate` | abstract: the gate a breaker is to those it protects, without its counters |
| `CaseOps` | the states of a case and where each may go |
| `CaseManager` | the registry of cases with its two kinds of lock |
| `AuditedCases` | abstract: cases that move one logged transition at a time, without threads, locks and clock |
| `DecisionOps` | diagnosis, default recommendation and policy rules as operators |
| `RecoveryPipeline` | the recovery loop of a case: workers and an operator on all the shared parts |
| `ComplianceScheduler` | the obligations of one case |
| `Reconciliation` | ledger and webhook handler for one case |
| `ReconciledOnce` | abstract: a handler that books a webhook once, reports it and then answers, without threads, locks and sums |
| `EvidenceEngine` | `evaluate_window` beside a ledger that goes on recording |
| `MC...` | instances for TLC |
| `SafetyOpsProofs` | lemmas about the operators of `BreakerOps` and `CapacityOps` |
| `CircuitBreakerProofs`, `ActionExecutorProofs`, `RecoveryPipelineProofs`, `CaseManagerProofs`, `ComplianceSchedulerProofs`, `ReconciliationProofs`, `EvidenceEngineProofs` | theorems |

**CircuitBreaker.**  The breaker is a record with the code's fields; a missing
`tripped_at` is `NotTripped`.  Every public method is an action, and each holds
the breaker's lock throughout, so each is one step.  A caller captures `now`
once and passes it to `check_execution_allowed` and to the report, as
`execute_action` does; other callers and the clock move in between.  `Vanish` is
a caller whose later gate raised.  `probing`, `strays` and `quietUntil` are
history: they record which calls a half-open window admitted, which reports
ended a probe that was not theirs, and until when the last trip asks to wait.
`Gate` maps it to `TimedGate`: the state, `quietUntil`, and the callers inside.
What a call may find there (`Found`) is the state or, once the timeout is over,
HALF_OPEN, so that a step of the gate evaluates the timeout or not as old and new
times do in the breaker.

**ActionExecutor.**  Each gate is a step of its own, because kill switch,
breakers and clock change under a running call.  From gate 2 the thread holds
`_execution_lock` (`lock`).  A gate that raises frees the lock and leaves what
earlier gates did, as the code does: the probe of gate 4 stays taken.
Authorization (gate 1) comes before the lock.  The tokens are constants; the
signature is right or the token is not in the set.  The name of the destination
resolves to loopback or not, at will.  The handler answers or raises at will; an
answer with a failed status and an exception are the same to the model.  An answer
may make no `ExecutionResult`, since that is built after the `try` of the dispatch:
`Refuse` ends the call with the action performed and nothing stored or logged.
The arbitrator asks the same breakers and the same governor, each of which it
changes by asking: `ArbitrateBreaker` and `ArbitrateCapacity` may happen at any
moment, with any time that has been.
`performed`, `answered`, `slipped`, `reserved`, `timely` and `latest` are history;
a dispatch whose result is refused leaves `performed`, and `IdempotentExecution` has
a step of its own for it (`Forget`), because the service does not know of it any
more.

**CaseManager.**  `transition_case` takes the case's lock, changes the registry
and then appends to the audit log (`AppendAudit`) before it frees the lock;
`create_case` does both without the case's lock; `unfreeze_case` looks at the
case (`CheckFrozen`) before `transition_case` takes it.  The audit log is kept
as where it leads: last state, last time, and whether each entry continued the
one before.  `visited` is history: the states since the last freeze.  `Audited` maps it to
`AuditedCases`, which has a transition made and logged in two steps, and no other
in between; what keeps it so in the code is the lock.

**RecoveryPipeline.**  It composes `BreakerOps`, `CapacityOps`,
`KillSwitchOps`, `CaseOps` and `DecisionOps` on one state: the case as the
registry has it, the breakers that arbitrator and executor share, the governor's
history, the policies, the experiment and the arm it recorded, the pending
obligations.  A worker runs the program of the integration test and keeps copies
(`run[w]`): the case as its last transition or lookup returned it, its diagnosis,
decision, arm and the time it captured.  `arbitrate` has no lock, so each of its
reads is a step (`SwitchGate` to `ObligationGate`); a verdict of safety does not
end it, since compliance is evaluated whatever safety found.  A call that holds
one lock throughout is one step.  `execute_action` is one step up to its dispatch
and one from the handler's answer: its interleavings are `ActionExecutor`'s.  Each
worker has an idempotency key of its own, so that its store plays no part here.
A worker whose call raises may try `execute_action` again or give up.  After an
unfreeze another run begins at DIAGNOSED without a transition.  `Start` counts an
attempt or not, as the caller of `transition_case` chooses.  `treated` and
`standing` are history: an action was dispatched for the case; what has blocked
the decision of a worker at every moment since its arbitration began.

**DecisionOps.**  Scores and confidences are in hundredths, as the code's are
two digits.  `RULE_T3_MODEL_VERSION_FRESHNESS` is left out: an artifact without
versions cannot be constructed.  Rules the engine does not know are complied with.

**EvidenceEngine.**  An evaluation is a step per case read (the ledger's lock is
taken for each), one that registers the claim (the engine's lock) and one that
logs it (no lock).  Every recovery is of one unit, so that sums are counts and
the lift is an exact fraction; DISPUTED, REFUNDED and WRITTEN_OFF are one state,
as the summary treats them alike.  An entry may be recorded at an earlier time
than others.  `made` and `met` are history: the claims registered; which cases
were confirmed at some time, and all the time, since an evaluation began.

**ComplianceScheduler.**  Every method holds the scheduler's lock from end to
end, so each is one step; what interleaves is which method is called with
which obligations.  The list of a case is a set: readers sort it by a key that
ends in the id, and an id occurs once (`TypeOK`).  `Settle` is what becomes of
one obligation.  The view of the case that `schedule_case_obligations` is given
is the caller's and may be old: it is a free Boolean.

**Reconciliation.**  A thread holds the handler's lock over four writes:
ledger entry with the ledger's audit record (one step, under the ledger's lock),
the record of the reconciliation, the mark.  Payments go to the ledger without
the handler's lock.  The summary is the code's, but where two entries of one
time are sorted by random ids, `TotalNetConfirmed` is the set of values either
order gives.  `Once` maps it to `ReconciledOnce`: the events of the entries in order
(`Bookings`), how often the log has each webhook as reconciled (`Reports`), the
answers.

## 3. Runs

| Run | Instance | What it shows |
|---|---|---|
| `circuit_breaker` | 3 callers, thresholds 2, one probe, timeout 1, clock 3 | counters fit the state in any order of reports; probes are limited up to strays; an open breaker waits for its timeout however old the times passed; `TimedGate` is implemented |
| `executor` | 2 threads, 2 keys, a conflicting request, a token that expires, 2 switches, 1 channel, clock 2 | at most one dispatch, one answer per key, audit and store agree, at most one request slips past an activation, a reservation made in time leaves its window within the limits whatever executor and arbitrator asked before, the abstract service is implemented; what was dispatched is logged in the end, unless its result was refused |
| `case_manager` | 3 threads, 1 case, 2 attempts, clock 2 | the trail follows the case, a freeze is not bypassed, a case only advances; `AuditedCases` is implemented |
| `scheduler` | 4 obligations, 2 of them mandatory, 2 times | mandatory ones prevail and are kept, a second resolution changes nothing, the log follows |
| `reconciliation` | 2 threads, 5 webhooks, 2 payments, a refund | one entry per webhook, audited in order; the summary depends on events, not on deliveries; `ReconciledOnce` is implemented |
| `pipeline` | 2 workers, 3 failures, an artifact of another provider, 2 further policies, 3 configurations of the experiment, 2 obligations, 1 switch, 1 breaker to trip, 3 interventions, clock 1 | nothing that blocks all the time is overlooked, what is held back is never treated, what the default provider recommends complies with the standard policy, the log tells why |
| `evidence` | 2 evaluators, 2 cases, a request of each verdict, 3 entries | claims are bounded by the ledger of their time, recovered revenue alone is not approved, every claim is logged |
| `probe_leak`, `frozen_execution`, `mandatory_lost`, `disputed_revenue`, `rolling_window` | the instance of the component's run | one violation each: the findings below |

*Bounds.*  The clock (`MaxTime`) is as long as it takes for a window or a timeout
to end and one more tick, so that an old time and an expired token both
happen.  Two threads are enough for every race of two calls under one lock; the
case manager and the breaker have three, so that two can race while a third
changes what they looked at.  Limits are 1 or 2, so that each is reached.  One
channel, one case and one case's obligations: others share no state with it but
lists kept apart by id.  `MaxEntries` bounds the payments and refunds, not the
webhooks.  The case manager's runs do not check deadlock: when its case is
terminal and the clock has ended the system has stopped, as it may; so do those
of the pipeline and of the evidence engine, whose events are bounded.
`MaxInterventions` bounds what the operator does in the pipeline: three are what
it takes to freeze a case, register its experiment anew and unfreeze it; the two
violations need one.  `MaxEvaluations` is two, so that one claim can take the
place of another.

*Symmetry* over threads or callers is used in runs of safety properties only, so
not in `executor`.

*Fairness.*  `FairSpec` of `ActionExecutor` is weak fairness of the steps of
each thread *while it holds the lock*: nothing there waits for anybody, and the
handler is taken to return.  Nothing is assumed of threads that wait, as
`RLock` promises no order.  It is used for `DispatchIsAudited` alone.

## 4. Findings

1. `probe_leak`: the arbitrator takes a half-open probe of the breaker that the
   executor asks next, and `release_probe` has no caller.  With one probe, which
   is the default, the execution that was just let in is refused and the channel
   stays half-open and saturated until somebody resets or trips the breaker.
   Gates 5 and 6 of the executor leave a probe likewise.
2. `frozen_execution`: between the arbitration and the dispatch nothing looks at
   the case; a case frozen in between has its action dispatched.
3. `mandatory_lost`: a mandatory obligation that lost a collision never becomes
   pending again, not even when alone; the plan lists it as scheduled.
4. `disputed_revenue`: a payment recorded after a dispute makes the summary
   recognise the disputed settlement again.
5. `rolling_window`: the governor purges at the time it is given, and the times go
   back: an executor's call captured its own before it waited, and the arbitrator
   purges between two calls at its own.  A window then holds more than its limits.
   What does hold is `TimelyWithinLimits`.

Code and documentation disagree in these places too.  The models do as the code
does; no property claims what the documentation says, and where one comes close to
it the comment says how far it goes.

- `ReportingState` (`evidence_engine.py:36`, `:44`):
  APPROVED stands for "confirmed settled revenue", DATA_PENDING for "unfinalized
  settlements".  `evaluate_window` asks for confirmed revenue only when there is
  gross revenue, so that a window in which nothing was recovered is APPROVED with
  nothing confirmed; and one confirmed case is enough, whatever else of the cohorts
  was paid and is not settled (`evidence_engine.py:236`).  `GrossAloneNotApproved`
  is what the code does test.
- INV-14 (`evidence_engine.py:118`) calls the registry permanent and append-only.
  It is a dict by metric and window (`evidence_engine.py:277`): each evaluation
  takes the place of the one before, and an older one may take that of a newer.
  The audit log has them all (`EveryClaimLogged`).
- INV-16 (`idempotency.py:6`): keys prevent "duplicate side-effects on retries".
  The `ExecutionResult` is built outside the `try` of the dispatch
  (`executor.py:205`): a handler's answer that makes none, because it is no dict or
  its error is no string, ends the call with nothing stored, and a retry performs
  the action again (`Refuse`).  `AtMostOnce`, `AuditAgreesWithStore`,
  `DispatchIsAudited` and the abstract service exempt exactly that.
- `schedule_case_obligations` "freezes" the optional obligations of a frozen case
  (`scheduler.py:133`), but what is COLLISION_RESOLVED is not frozen, and the
  resolution that follows makes one of them pending (`scheduler.py:208`).
- `unfreeze_case` "Unfreezes a previously FROZEN case" (`case_manager.py:290`): it
  looks before it has the lock (`:298`), and may abandon a case that another
  thread has unfrozen since.  It is no way round governance
  (`NoBypassOfGovernance`).
- "If scheduling/executing, ensure attempts are not already exhausted"
  (`case_manager.py:228`): guard 4 can never refuse, so that a case whose attempts
  are used up is scheduled, and executed if the caller does not count.  `TypeOK` and
  `CaseOnlyAdvances` bound the count, not the executions.

Of two more nothing says what is meant: an obligation defers from its time on
although its message says until; a breaker counts its timeout from the time of the
report that tripped it, which may be old, so that it half-opens early by the clock.

## 5. Proofs

The prover cannot instantiate an induction theorem, so what holds for every
length is shown for the least length at which it would fail (`Smallest`, from
the well-foundedness of the natural numbers).

`SafetyOpsProofs`: each operator on a breaker returns a breaker, those on a
history a history.  A sum exists, is unique, grows with its terms and when one is
appended (`SumsExist`, `SumsCompare`, `TotalAppend`); `Purge` leaves a suffix of
the history (`PurgeSuffix`).  `Follows` says that the governor still holds, of all
that was ever reserved, whatever is in the window of the latest time it was given:
purging at any time keeps it so (`PurgeFollows`), and so does a reservation
(`AppendFollows`), which therefore leaves a window that it is made in time for
within the limits (`RoomWithinLimits`).

`CircuitBreakerProofs`, from `BreakerAssumption` (the thresholds are positive,
the timeout a natural number) and for any finite or infinite set of callers:
`TypeCorrect`, `CountersFitState`, `ProbesLimited`, `StaysOpen` and `Refinement`,
that is, every property of the run `circuit_breaker`.  The inductive
invariant adds three parts to `TypeOK` and `BreakerConsistent`.  `TimeInv`: no
caller's time is ahead of the clock.  `QuietInv`: an open breaker's `tripped_at`
plus the timeout is `quietUntil`; with `TimeInv` it gives `StaysOpen`, since an
evaluation that half-opens at time n has n >= `quietUntil` and n <= `clock`.
`WindowInv`: the calls of a half-open window in flight hold a probe each but for
the strays; with the limit in `BreakerConsistent` it gives `ProbesLimited`.
`Refinement` needs `TimeInv` and `QuietInv` only: with them whatever a call finds at
its time is something `TimedGate` expects at the time of the clock (`CallFinds`), and
what a report makes of that is one of the gate's ways to leave (`SuccessFinds`,
`FailureFinds`).

`ActionExecutorProofs`, from `ExecutorAssumption` (amounts and bounds are
natural numbers, `None` is none of the values) and for any threads, requests,
tokens, switches and limits: `TypeCorrect`, `ExecutesAtMostOnce`,
`AnswersAgree`, `AuditComplete`, `KillSwitchStops` and `Refinement`.  None of
these is inductive alone.  The heart of the invariant is `LockInv`: exactly the
thread that holds the lock is past gate 2, so no two are.  `CallInv` says what
such a call has found and done at each gate, `StoreInv` that what was
dispatched is stored or about to be, `AnswerInv` that answers agree with the
store, `AuditInv` that the log lacks at most the entry about to be written,
`SlipInv` that once a request has slipped past an activation the call past
gate 3 is not a halted one.  `Refinement` needs them because an `Answer` of the
abstract service requires the request to have been performed and all earlier
answers of the key to agree.  `WindowHolds` has an invariant of its own beside
it, `WindowInv`: `Follows` of the governor's history, and that every timely
reservation made so far left its window within the limits.  It asks nothing of the
order of the times, and the arbitrator's purges are among its steps.

`RecoveryPipelineProofs`, from `PipelineAssumption` (the events have positive
amounts, the artifacts of other providers have the form of one, `None` is no
arm), `DecisionAssumption` (`MaxAttempts` is positive) and `BreakerAssumption`,
and for any workers, events, artifacts, policies, experiments, obligations and
switches: `TypeCorrect`, `HoldbackKept`, `NothingOverlooked`,
`RecommendationsComply` and `AuditTells`, that is, every property of the run
`pipeline`.  The invariant `IndInv` adds to `TypeOK`:
`CaseInv` and `DecisionInv`, that case, diagnosis and recommendation are of one
event, though the attempts have moved since the diagnosis (so a case that is
blocked is not recoverable, and the gateway is recommended only with a score of
at most 50 and never for a high risk); `AssignInv`, that the arm a run holds is
the one recorded, which is never replaced, and that it is TREATMENT once the run
proceeds; `LogInv`, what a run has logged by the step it is at; `StandingInv`,
that `standing` holds nothing that is not in the way at this moment, and so
nothing that a gate already passed (`Passed`) has found absent.  `TypeOK` needs
`DecisionInv`: that a recommendation has the form of an artifact rests on what
the case's tier says of the event.

`CaseManagerProofs`, from `CaseAssumption` (`MaxAttempts` is positive, `None` is
none of the values) and for any threads, cases and limits: `TypeCorrect`,
`TrailFollows`, `GovernanceKept`, `OnlyAdvances` and `Refinement`, that is, every property of
the run `case_manager`.  The invariant adds to `TypeOK`: `LockInv`, that a case's
lock is held by exactly the thread whose transition is not logged yet;
`TrailInv`, that the trail leads to the case or to where that entry starts, with
no later time; `VisitInv`, that the states a case has been in since its last
freeze include those on the `Way` to where it is.  `NoBypassOfGovernance` needs
the last for every state, not only for EXECUTING.  `Refinement` needs `LockInv` and
`TrailInv`: a transition finds the lock free, so the log has the one before, and what
`AppendAudit` writes is where the case is.

`ComplianceSchedulerProofs`, from `SchedulerAssumption` (ids are numbers, so that
they can be ordered) and for any set of obligations: `TypeCorrect`, `Prevail`,
`StableResolution`, `AuditFollows` and `NoneLost`, that is, every property of the
run `scheduler`.  The sort key orders the obligations of a time strictly
(`Trichotomy`, `Transitive`), so that a collision has a dominant one (`First`, by
the well-foundedness of the natural numbers).  Settling keeps the key and which
obligations are active (`SettleKeeps`), so that it finds the same rivals and the
same winners again (`SameRivals`, `SameDominant`) and resolving twice is resolving
once (`Idempotent`).  The invariant says that the store is then a fixed point
(`FixedInv`), from which `WinnersPrevail` follows.

`ReconciliationProofs`, from `WebhookAssumption` (what makes a webhook, and that
settlements, disputes, payments and refunds are different things) and for any
threads and events: `TypeCorrect`, `OneEntry`, `AuditOrdered`, `NetBounded`,
`EventsDecide` and `Refinement`, that is, every property of the run `reconciliation`.  The
invariant adds `LockInv`, that one thread at most works on a webhook, and on one
that is not processed; `OnceInv`, that a webhook has one entry if it is processed
or about to be marked, and none otherwise; `AnswerInv`, that what was answered for
a webhook is an entry of it; `EntryInv`, that every entry is the one its event
makes and every payment and refund has one; `OrderInv`, that as many records of
the log precede one of the ledger's as entries precede its entry; `ReconciledInv`,
what the log has of a webhook at each step of the thread that processes it.
`EventsDecide` looks at the entry the summary takes for the last: with `EntryInv`
it is of a payment, and then every known event confirms revenue and the last
confirmed entry counts, or it is of the last of the known events.  `NetBounded` needs that the maximum of the amounts exists
(`SequenceBounded`, `MaxOf`).  `Refinement` follows from `OnceInv`, which allows one
booking of a webhook, from `ReconciledInv`, which allows one report and that after
the booking, and from `AnswerInv`: what is answered was booked there.

`EvidenceEngineProofs`, from `EvidenceAssumption` (no case is twice in the cohorts
of a request, `None` is none of the values) and for any evaluators, cases, requests
and entries: `TypeCorrect`, `ClaimsBounded`, `GrossNotApproved` and `ClaimsLogged`,
that is, every property of the run `evidence`.  The bounds on a claim say nothing of
an evaluation that has not read all its cases, so the invariant bounds what was
counted so far by the positions of the cohorts before the next one to read
(`CountInv`, `Bounded`): each case read adds one to a count and to its bounds or to
neither (`BoundedNext`), and an entry recorded meanwhile only widens them
(`BoundedGrows`), since a recovered case stays recovered (`RecordProperties`).  When
all are read there are as many positions as cases (`AsManyPositions`).  `ClaimInv`:
an evaluation whose claim is registered has read all its cases, and the claim is
that of its counts.  `LogInv`: a claim was made as often as it was logged or waits
to be.

Only model-checked: the liveness property `DispatchIsAudited`, since liveness and
ENABLED are beyond the prover.  Every other property of a run that passes is a
theorem.  No module uses recursive operators.

## 6. Not modelled

Signatures, hash chains, how URLs are parsed, payloads and messages: no
property depends on them but through a verdict, which is modelled. The
simulators' histories and payloads: nothing reads them.
`IdempotencyStore.clear` and `CapacityGovernor.reset`: only tests call them.
Configuration (`foundation/config.py`): settings are validated when they are
loaded and never change; the sandbox guard takes the forbidden production domains
from it and the authorizer the signing secret. Entries that no handler makes: `record_entry`
and `record_confirmed_settlement` of the ledger are public, and called directly they
take a state INITIATED, or a loss with revenue that is confirmed; in the package only
the webhook handler records what is confirmed. Cases, experiments and metrics beside the one of an
instance: they share locks and lists with it, but no record.

## 7. Plan

Built: sections 2 to 5.  `IdempotentExecution`, `TimedGate`, `AuditedCases` and
`ReconciledOnce` say what a component promises with its locks taken away.  What is
left: the same for the scheduler (the resolution of a collision as a choice among
the obligations of a time) and for the evidence engine (a claim as an atomic look at
a ledger between two of its states), and for what the pipeline composes, where the
executor's gates are one step that `ActionExecutor` takes in several.
