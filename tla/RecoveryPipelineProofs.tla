----------------------- MODULE RecoveryPipelineProofs -----------------------
(***************************************************************************)
(* What the recovery loop keeps for any workers, failures, artifacts,      *)
(* policies, experiments, obligations and switches, and any thresholds and *)
(* limits.                                                                 *)
(*                                                                         *)
(* None of the properties is inductive.  A decision complies because the   *)
(* diagnosis it was made from is one of the same event; a case that was    *)
(* treated is in the TREATMENT arm because every arm a run holds is the    *)
(* one recorded, which is never replaced; what a gate has found absent     *)
(* stays absent from standing, because standing holds nothing that is not  *)
(* in the way at this moment.                                              *)
(***************************************************************************)
EXTENDS RecoveryPipeline, SafetyOpsProofs, TLAPS

\* The steps of a run that was told to proceed.
Proceeding == {"authorize", "start", "submit", "handler", "settle"}

Recoverable(e) == Diagnosis(e, 0).recoverable

\* The case is of the event, and blocked only if the event is.
CaseInv ==
    /\ case.amount = event.amount
    /\ case.tier = "BLOCKED" => ~Recoverable(event)

\* A diagnosis of the event: the gateway is recommended only with a score that
\* leaves half the confidence, and never for a high risk.
Sound(dx) ==
    /\ dx.recoverable = Recoverable(event)
    /\ dx.tier = "BLOCKED" => ~dx.recoverable
    /\ dx.channel = Gateway => dx.tier # "HIGH" /\ dx.score <= 50

\* What the default provider recommends for a case that is not blocked.
Advice(dx) == Recommendation([tier |-> "LOW", amount |-> event.amount], dx)

\* A run is of the event.
Decided(r) ==
    /\ r.view.amount = event.amount
    /\ r.view.tier = "BLOCKED" => ~Recoverable(event)
    /\ Sound(r.dx)
    /\ r.default => r.decision = Advice(r.dx)

DecisionInv == \A w \in Workers : run[w] # None => Decided(run[w])

\* The steps before a run has an arm.
Unassigned == {"evaluate", "decide", "assign"}

\* The arm a run holds is the one recorded; it proceeds only in TREATMENT.
Assigned(r) ==
    /\ r.arm # None => assigned = r.arm
    /\ r.step \notin Unassigned => r.arm # None
    /\ r.step \in Proceeding => r.arm = "TREATMENT"

AssignInv ==
    /\ \A w \in Workers : run[w] # None => Assigned(run[w])
    /\ treated => assigned = "TREATMENT"

\* What a run has logged by the step it is at.
Logged(r) ==
    /\ r.step \notin {"evaluate", "decide"} =>
          "DECISION_ARTIFACT_CREATED" \in r.logged
    /\ r.step \in {"obligations"} \cup Proceeding =>
          "POLICY_EVALUATED" \in r.logged
    /\ r.step \in Proceeding => "ARBITRATION_EVALUATED" \in r.logged

LogInv == \A w \in Workers : run[w] # None => Logged(run[w])

\* What the gates that a run has passed have found absent.
Passed(r) ==
    LET safe == \/ r.step \in {"policy", "obligations"} /\ r.safety = "PASS"
                \/ r.step = "authorize"
    IN  {b \in Blockers :
           \/ b = "switch" /\ (safe \/ r.step \in {"breaker", "capacity"})
           \/ b = "breaker" /\ (safe \/ r.step = "capacity")
           \/ b = "capacity" /\ safe
           \/ b = "policy" /\ r.step \in {"obligations", "authorize"}
           \/ b \in {"obligation", "arm"} /\ r.step = "authorize"}

\* Nothing stands that is not in the way now, or that a gate has found absent.
StandingInv ==
    \A w \in Workers : run[w] # None /\ run[w].step \in Arbitrating =>
        /\ standing[w] \subseteq BlockersOf(w)
        /\ standing[w] \cap Passed(run[w]) = {}

IndInv ==
    /\ TypeOK
    /\ CaseInv
    /\ DecisionInv
    /\ AssignInv
    /\ LogInv
    /\ StandingInv

USE DecisionAssumption, PipelineAssumption

-----------------------------------------------------------------------------
(* The decisions.                                                          *)

\* Whatever the attempts, a diagnosis is a result, and is sound.
LEMMA DiagnosisSound ==
    ASSUME NEW e, NEW n, e = event
    PROVE  Diagnosis(e, n) \in DiagnosisResult /\ Sound(Diagnosis(e, n))
BY DEF Diagnosis, DiagnosisResult, Sound, Recoverable, Finding, Unrecoverable,
       Tiers, Gateway, Internal

\* The recommendation depends on the case by its amount alone, if a blocked case
\* is of an event that cannot be recovered.
LEMMA RecommendationIsAdvice ==
    ASSUME NEW c \in CaseRecord, NEW dx \in DiagnosisResult,
           c.amount = event.amount,
           c.tier = "BLOCKED" => ~Recoverable(event), Sound(dx)
    PROVE  /\ Recommendation(c, dx) = Advice(dx)
           /\ Recommendation(c, dx) \in Decision
BY DEF Recommendation, Advice, Sound, Decision, DiagnosisResult, CaseRecord,
       Actions, Targets, Gateway, Internal

-----------------------------------------------------------------------------
(* The type invariant.                                                     *)

LEMMA TypeInit == Init => TypeOK
<1>. SUFFICES ASSUME Init PROVE TypeOK
  OBVIOUS
<1>1. case \in CaseRecord
  BY DEF Init, CaseRecord, States, Tiers
<1>2. breakers \in [Targets -> Breaker]
  BY NewBreakerType DEF Init
<1>3. history \in Seq(Reservation)
  BY DEF Init
<1>4. run \in [Workers -> Run \cup {None}]
  BY DEF Init
<1>5. policies \in [PolicyIds -> Policies \cup {StandardPolicy, None}]
  BY DEF Init
<1>6. standing \in [Workers -> SUBSET Blockers]
  BY DEF Init
<1>7. clock \in 0..MaxTime /\ interventions \in 0..MaxInterventions
  <2>1. clock = 0 /\ interventions = 0
    BY DEF Init
  <2>. QED  BY <2>1, PipelineAssumption
<1>8. treated \in BOOLEAN
  BY Zenon DEF Init
<1>9. /\ switches \subseteq Switches
      /\ obligations \subseteq Obligations
      /\ assigned \in Arms \cup {None}
      /\ event \in Events
      /\ experiment \in Configs
  BY DEF Init
<1>. QED  BY <1>1, <1>2, <1>3, <1>4, <1>5, <1>6, <1>7, <1>8, <1>9 DEF TypeOK

\* A transition leaves a case, and the worker's view of it.
LEMMA TransitionType ==
    ASSUME TypeOK, NEW w \in Workers, run[w] \in Run, NEW target \in States,
           NEW attempts \in 0..MaxAttempts, NEW next \in Steps,
           Transition(w, target, attempts, next)
    PROVE  /\ case' \in CaseRecord
           /\ run' \in [Workers -> Run \cup {None}]
<1>. DEFINE moved == [case EXCEPT !.state = target, !.attempts = attempts]
<1>1. moved \in CaseRecord
  BY DEF TypeOK, CaseRecord
<1>2. [run[w] EXCEPT !.view = moved, !.step = next] \in Run
  BY <1>1 DEF Run
<1>. QED  BY <1>1, <1>2 DEF Transition, Quit, TypeOK

\* A step that is not "none" is the step of a run.
LEMMA StepOfRun ==
    ASSUME TypeOK, NEW w \in Workers, NEW s \in Steps, Step(w) = s
    PROVE  /\ run[w] \in Run /\ run[w] # None
           /\ run[w].step = s
BY DEF TypeOK, Step, Steps, Arbitrating

\* What a worker's step leaves alone keeps its type.
LEMMA WorkingType ==
    ASSUME TypeOK, Working
    PROVE  /\ clock' \in 0..MaxTime
           /\ event' \in Events
           /\ switches' \subseteq Switches
           /\ policies' \in [PolicyIds -> Policies \cup {StandardPolicy, None}]
           /\ experiment' \in Configs
           /\ obligations' \subseteq Obligations
           /\ interventions' \in 0..MaxInterventions
           /\ standing' \in [Workers -> SUBSET Blockers]
<1>1. standing' \in [Workers -> SUBSET Blockers]
  BY DEF Working, Observe, TypeOK, BlockersOf
<1>. QED  BY <1>1 DEF Working, TypeOK, operatorVars

\* What the steps of a worker change has its type.
WorkType ==
    /\ case' \in CaseRecord
    /\ run' \in [Workers -> Run \cup {None}]
    /\ breakers' \in [Targets -> Breaker]
    /\ history' \in Seq(Reservation)
    /\ assigned' \in Arms \cup {None}
    /\ treated' \in BOOLEAN

\* The other components are as they were.
LEMMA SafetyVarsType ==
    ASSUME TypeOK, UNCHANGED safetyVars
    PROVE  breakers' \in [Targets -> Breaker] /\ history' \in Seq(Reservation)
BY DEF TypeOK, safetyVars

LEMMA ConcludeType ==
    ASSUME TypeOK, NEW w \in Workers, run[w] \in Run,
           NEW compliance, NEW entries \in SUBSET Entries,
           Conclude(w, compliance, entries)
    PROVE  run' \in [Workers -> Run \cup {None}]
<1>1. [run[w] EXCEPT !.step = "authorize",
                     !.logged = @ \cup entries \cup {"ARBITRATION_EVALUATED"}]
        \in Run
  BY DEF Run, Entries, Steps, Arbitrating
<1>. QED  BY <1>1 DEF Conclude, Quit, TypeOK

LEMMA WorkStep ==
    ASSUME TypeOK, CaseInv, DecisionInv, NEW w \in Workers, Work(w)
    PROVE  WorkType
<1>. USE DEF WorkType
<1>0. /\ treated \in BOOLEAN /\ assigned \in Arms \cup {None}
      /\ case \in CaseRecord
      /\ run \in [Workers -> Run \cup {None}]
      /\ breakers \in [Targets -> Breaker]
      /\ history \in Seq(Reservation)
      /\ clock \in 0..MaxTime /\ clock \in Nat
  BY DEF TypeOK
<1>1. CASE Diagnose(w)
  <2>. DEFINE dx == Diagnosis(event, case.attempts)
              seen == IF case.state = "OPEN"
                      THEN [case EXCEPT !.state = "DIAGNOSED", !.tier = dx.tier]
                      ELSE case
  <2>1. dx \in DiagnosisResult
    BY DiagnosisSound
  <2>2. seen \in CaseRecord
    BY <1>0, <2>1 DEF CaseRecord, DiagnosisResult, States
  <2>3. [step |-> "evaluate", view |-> seen, dx |-> dx, decision |-> None,
         default |-> FALSE, arm |-> None, policy |-> None, now |-> 0,
         safety |-> "PASS", logged |-> {}] \in Run
    <3>. HIDE DEF dx, seen
    <3>. QED  BY <2>1, <2>2, PipelineAssumption DEF Run, Steps, SafetyVerdicts
  <2>. QED  BY <1>1, <1>0, <2>2, <2>3, SafetyVarsType DEF Diagnose
<1>2. CASE StartEvaluation(w)
  <2>1. run[w] \in Run
    BY <1>2, StepOfRun DEF StartEvaluation, Steps
  <2>2. case.attempts \in 0..MaxAttempts
    BY <1>0 DEF CaseRecord
  <2>. QED
    BY <1>2, <1>0, <2>1, <2>2, TransitionType, SafetyVarsType
       DEF StartEvaluation, States, Steps
<1>3. CASE Decide(w)
  <2>1. run[w] \in Run /\ run[w] # None
    BY <1>3, StepOfRun DEF Decide, Steps
  <2>2. PICK a \in Artifacts(w) :
           run' = [run EXCEPT ![w].step = "assign",
                              ![w].decision = a.decision,
                              ![w].default = a.default,
                              ![w].logged = {"DECISION_ARTIFACT_CREATED"}]
    BY <1>3 DEF Decide
  <2>3. Recommendation(run[w].view, run[w].dx) \in Decision
    BY <2>1, RecommendationIsAdvice DEF DecisionInv, Decided, Run
  <2>4. a.decision \in Decision /\ a.default \in BOOLEAN
    <3>1. CASE a = [decision |-> Recommendation(run[w].view, run[w].dx),
                    default |-> TRUE]
      BY <2>3, <3>1
    <3>2. ASSUME NEW d \in Proposals, a = [decision |-> d, default |-> FALSE]
          PROVE  a.decision \in Decision /\ a.default \in BOOLEAN
      BY <3>2, PipelineAssumption
    <3>. QED  BY <3>1, <3>2 DEF Artifacts
  <2>5. [run[w] EXCEPT !.step = "assign", !.decision = a.decision,
                       !.default = a.default,
                       !.logged = {"DECISION_ARTIFACT_CREATED"}] \in Run
    BY <2>1, <2>4 DEF Run, Steps, Entries
  <2>. QED  BY <1>3, <1>0, <2>2, <2>5, SafetyVarsType DEF Decide
<1>4. CASE Assign(w)
  <2>1. run[w] \in Run
    BY <1>4, StepOfRun DEF Assign, Steps
  <2>2. Arm(w) \in Arms
    BY <1>0 DEF Arm, ArmOf, Arms
  <2>3. [run[w] EXCEPT !.step = "arbitrate", !.arm = Arm(w)] \in Run
    BY <2>1, <2>2 DEF Run, Steps
  <2>. QED
    BY <1>4, <1>0, <2>2, <2>3, SafetyVarsType DEF Assign, Quit
<1>5. ASSUME NEW p \in PolicyIds, NEW fresh \in BOOLEAN,
             Arbitrate(w, p, fresh)
      PROVE  WorkType
  <2>1. run[w] \in Run
    BY <1>5, StepOfRun DEF Arbitrate, Steps
  <2>2. [run[w] EXCEPT !.step = "switch", !.policy = p,
                       !.view = IF fresh THEN case ELSE @, !.now = clock]
          \in Run
    BY <1>0, <2>1 DEF Run, Steps, Arbitrating
  <2>. QED  BY <1>5, <1>0, <2>2, SafetyVarsType DEF Arbitrate
<1>6. ASSUME NEW s \in Steps, run[w] \in Run,
             \/ Goto(w, s)
             \/ \E v \in SafetyVerdicts : Verdict(w, v)
             \/ Quit(w)
             \/ UNCHANGED run
      PROVE  run' \in [Workers -> Run \cup {None}]
  BY <1>6, <1>0 DEF Goto, Verdict, Quit, Run, Steps, Arbitrating
<1>7. CASE SwitchGate(w)
  <2>1. run[w] \in Run
    BY <1>7, StepOfRun DEF SwitchGate, Steps, Arbitrating
  <2>. QED
    BY <1>7, <1>6, <1>0, <2>1, SafetyVarsType
       DEF SwitchGate, Steps, Arbitrating, SafetyVerdicts
<1>8. CASE BreakerGate(w)
  <2>1. run[w] \in Run
    BY <1>8, StepOfRun DEF BreakerGate, Steps, Arbitrating
  <2>2. run[w].now \in Nat
    BY <2>1, PipelineAssumption DEF Run
  <2>3. breakers' \in [Targets -> Breaker]
    BY <1>8, <1>0, <2>2, AdmitType DEF BreakerGate
  <2>. QED
    BY <1>8, <1>6, <1>0, <2>1, <2>3
       DEF BreakerGate, Steps, Arbitrating, SafetyVerdicts
<1>9. CASE CapacityGate(w)
  <2>1. run[w] \in Run
    BY <1>9, StepOfRun DEF CapacityGate, Steps, Arbitrating
  <2>2. run[w].now \in Nat
    BY <2>1, PipelineAssumption DEF Run
  <2>3. history' \in Seq(Reservation)
    BY <1>9, <1>0, <2>2, PurgeType DEF CapacityGate
  <2>. QED
    BY <1>9, <1>6, <1>0, <2>1, <2>3
       DEF CapacityGate, Steps, Arbitrating, SafetyVerdicts
<1>10. CASE PolicyGate(w)
  <2>1. run[w] \in Run
    BY <1>10, StepOfRun DEF PolicyGate, Steps, Arbitrating
  <2>. DEFINE entries == IF policies[run[w].policy] # None
                         THEN {"POLICY_EVALUATED"} ELSE {}
  <2>2. entries \in SUBSET Entries
    BY DEF Entries
  <2>3. [run[w] EXCEPT !.step = "obligations", !.logged = @ \cup entries]
          \in Run
    <3>1. run[w].logged \cup entries \in SUBSET Entries
      BY <2>1, <2>2 DEF Run
    <3>. HIDE DEF entries
    <3>. QED  BY <2>1, <3>1 DEF Run, Steps, Arbitrating
  <2>4. \/ run' = [run EXCEPT ![w].step = "obligations",
                              ![w].logged = @ \cup entries]
        \/ Conclude(w, "BLOCKED", entries)
    BY <1>10 DEF PolicyGate
  <2>. HIDE DEF entries
  <2>5. run' \in [Workers -> Run \cup {None}]
    BY <1>0, <2>1, <2>2, <2>3, <2>4, ConcludeType
  <2>. QED  BY <1>10, <1>0, <2>5, SafetyVarsType DEF PolicyGate
<1>11. CASE ObligationGate(w)
  <2>1. run[w] \in Run
    BY <1>11, StepOfRun DEF ObligationGate, Steps, Arbitrating
  <2>. QED
    BY <1>11, <1>0, <2>1, ConcludeType, SafetyVarsType DEF ObligationGate
<1>12. CASE Authorize(w)
  <2>1. run[w] \in Run
    BY <1>12, StepOfRun DEF Authorize, Steps, Arbitrating
  <2>2. case.attempts \in 0..MaxAttempts
    BY <1>0 DEF CaseRecord
  <2>. QED
    BY <1>12, <1>0, <2>1, <2>2, TransitionType, SafetyVarsType
       DEF Authorize, States, Steps
<1>13. ASSUME NEW counted \in BOOLEAN, Start(w, counted) PROVE WorkType
  <2>1. run[w] \in Run
    BY <1>13, StepOfRun DEF Start, Steps
  <2>. DEFINE n == IF counted THEN case.attempts + 1 ELSE case.attempts
  <2>2. CASE Exhausted(counted)
    BY <1>13, <1>0, <1>6, <2>1, <2>2, SafetyVarsType DEF Start, Steps
  <2>3. CASE ~Exhausted(counted)
    <3>1. n \in 0..MaxAttempts
      BY <1>0, <2>3, DecisionAssumption DEF CaseRecord, Exhausted
    <3>2. Transition(w, "EXECUTING", n, "submit")
      BY <1>13, <2>3 DEF Start
    <3>3. "EXECUTING" \in States /\ "submit" \in Steps
      BY DEF States, Steps
    <3>. HIDE DEF n
    <3>4. case' \in CaseRecord /\ run' \in [Workers -> Run \cup {None}]
      BY <2>1, <3>1, <3>2, <3>3, TransitionType
    <3>. QED  BY <1>13, <1>0, <3>4, SafetyVarsType DEF Start
  <2>. QED  BY <2>2, <2>3
<1>14. ASSUME NEW resolves \in BOOLEAN, Submit(w, resolves) PROVE WorkType
  <2>1. run[w] \in Run
    BY <1>14, StepOfRun DEF Submit, Steps
  <2>2. breakers' \in [Targets -> Breaker]
    BY <1>14, <1>0, AdmitType DEF Submit
  <2>3. run[w].view.amount \in Nat
    BY <2>1 DEF Run, CaseRecord
  <2>4. history' \in Seq(Reservation)
    BY <1>14, <1>0, <2>3, ReserveType DEF Submit
  <2>5. [run[w] EXCEPT !.step = "handler", !.now = clock] \in Run
    BY <1>0, <2>1 DEF Run, Steps
  <2>6. run' \in [Workers -> Run \cup {None}]
    BY <1>14, <1>0, <2>5 DEF Submit, Quit
  <2>7. treated' \in BOOLEAN
    BY <1>14, <1>0, Zenon DEF Submit
  <2>. QED  BY <1>14, <1>0, <2>2, <2>4, <2>6, <2>7 DEF Submit
<1>15. ASSUME NEW scenario \in {"SUCCESS", "DECLINED"},
              NEW resolves \in BOOLEAN, Respond(w, scenario, resolves)
       PROVE  WorkType
  <2>1. run[w] \in Run
    BY <1>15, StepOfRun DEF Respond, Steps
  <2>2. run[w].now \in Nat
    BY <2>1, PipelineAssumption DEF Run
  <2>3. breakers' \in [Targets -> Breaker]
    BY <1>15, <1>0, <2>2, RecordSuccessType, RecordFailureType DEF Respond
  <2>. QED  BY <1>15, <1>0, <1>6, <2>1, <2>3 DEF Respond, Steps
<1>16. CASE Settle(w)
  <2>1. run[w] \in Run
    BY <1>16, StepOfRun DEF Settle, Steps
  <2>2. case' \in CaseRecord
    BY <1>16, <1>0 DEF Settle, CaseRecord, States
  <2>. QED  BY <1>16, <1>0, <1>6, <2>1, <2>2, SafetyVarsType DEF Settle, Steps
<1>. QED
  BY <1>1, <1>2, <1>3, <1>4, <1>5, <1>7, <1>8, <1>9, <1>10, <1>11, <1>12,
     <1>13, <1>14, <1>15, <1>16
     DEF Work

LEMMA OperateType ==
    ASSUME TypeOK, Operate
    PROVE  TypeOK'
<1>0. /\ clock \in 0..MaxTime /\ clock \in Nat
      /\ case \in CaseRecord
      /\ breakers \in [Targets -> Breaker]
      /\ interventions \in Nat
  BY PipelineAssumption DEF TypeOK
<1>1. ASSUME Intervene, case' \in CaseRecord,
             breakers' \in [Targets -> Breaker],
             switches' \subseteq Switches,
             policies' \in [PolicyIds -> Policies \cup {StandardPolicy, None}],
             experiment' \in Configs,
             obligations' \subseteq Obligations
      PROVE  TypeOK'
  <2>1. interventions' \in 0..MaxInterventions
    BY <1>0, <1>1, PipelineAssumption DEF Intervene, TypeOK
  <2>2. standing' \in [Workers -> SUBSET Blockers]
    BY <1>1 DEF Intervene, Observe, BlockersOf
  <2>. QED  BY <1>1, <2>1, <2>2 DEF Intervene, TypeOK
<1>2. CASE FreezeCase
  BY <1>0, <1>1, <1>2 DEF FreezeCase, TypeOK, CaseRecord, States
<1>3. CASE UnfreezeCase
  BY <1>0, <1>1, <1>3 DEF UnfreezeCase, TypeOK, CaseRecord, States
<1>4. ASSUME NEW s \in Switches, FlipSwitch(s) PROVE TypeOK'
  BY <1>1, <1>4 DEF FlipSwitch, TypeOK
<1>5. ASSUME NEW c \in Trippable, TripBreaker(c) PROVE TypeOK'
  <2>1. breakers' \in [Targets -> Breaker]
    BY <1>0, <1>5, TripType DEF TripBreaker
  <2>. QED  BY <1>1, <1>5, <2>1 DEF TripBreaker, TypeOK
<1>6. ASSUME NEW p \in PolicyIds, NEW policy \in Policies,
             RegisterPolicy(p, policy)
      PROVE  TypeOK'
  BY <1>1, <1>6 DEF RegisterPolicy, TypeOK
<1>7. ASSUME NEW config \in Configs, RegisterExperiment(config) PROVE TypeOK'
  BY <1>1, <1>7 DEF RegisterExperiment, TypeOK
<1>8. ASSUME NEW o \in Obligations, SwapObligation(o) PROVE TypeOK'
  BY <1>1, <1>8 DEF SwapObligation, TypeOK
<1>. QED
  BY <1>2, <1>3, <1>4, <1>5, <1>6, <1>7, <1>8 DEF Operate

LEMMA WorkIsWorking ==
    ASSUME NEW w \in Workers, Work(w)
    PROVE  Working
BY DEF Work, Diagnose, StartEvaluation, Decide, Assign, Arbitrate, SwitchGate,
       BreakerGate, CapacityGate, PolicyGate, ObligationGate, Authorize, Start,
       Submit, Respond, Settle

LEMMA TypeStep ==
    ASSUME TypeOK, CaseInv, DecisionInv, [Next]_vars
    PROVE  TypeOK'
<1>1. ASSUME NEW w \in Workers, Work(w) PROVE TypeOK'
  <2>1. WorkType
    BY <1>1, WorkStep
  <2>2. Working
    BY <1>1, WorkIsWorking
  <2>. QED  BY <2>1, <2>2, WorkingType DEF WorkType, TypeOK
<1>2. CASE Operate
  BY <1>2, OperateType
<1>3. CASE Tick
  <2>1. clock' \in 0..MaxTime
    BY <1>3, PipelineAssumption DEF Tick, TypeOK
  <2>2. standing' \in [Workers -> SUBSET Blockers]
    BY <1>3 DEF Tick, Observe, BlockersOf
  <2>. QED
    BY <1>3, <2>1, <2>2 DEF Tick, TypeOK, operatorVars, safetyVars
<1>4. CASE UNCHANGED vars
  BY <1>4 DEF TypeOK, vars, operatorVars, safetyVars
<1>. QED  BY <1>1, <1>2, <1>3, <1>4 DEF Next

-----------------------------------------------------------------------------
(* The decisions comply.                                                   *)

\* A worker changes its own run only.
LEMMA OthersKeepTheirRun ==
    ASSUME TypeOK, NEW w \in Workers, Work(w), NEW u \in Workers, u # w
    PROVE  run'[u] = run[u]
BY DEF TypeOK, Work, Diagnose, StartEvaluation, Decide, Assign, Arbitrate,
       SwitchGate, BreakerGate, CapacityGate, PolicyGate, ObligationGate,
       Authorize, Start, Submit, Respond, Settle, Transition, Goto, Quit,
       Verdict, Conclude

\* The operator and the clock change neither a run nor the event.
LEMMA AsideKeeps ==
    ASSUME Operate \/ Tick
    PROVE  /\ UNCHANGED <<run, event, assigned, treated>>
           /\ Observe
BY DEF Operate, Tick, FreezeCase, UnfreezeCase, FlipSwitch, TripBreaker,
       RegisterPolicy, RegisterExperiment, SwapObligation, Intervene,
       operatorVars

LEMMA CaseStep ==
    ASSUME TypeOK, CaseInv, [Next]_vars
    PROVE  CaseInv'
<1>1. ASSUME event' = event, case'.amount = case.amount, case'.tier = case.tier
      PROVE  CaseInv'
  BY <1>1 DEF CaseInv, Recoverable
<1>2. case \in CaseRecord
  BY DEF TypeOK
<1>3. ASSUME NEW w \in Workers, Diagnose(w) PROVE CaseInv'
  <2>. DEFINE dx == Diagnosis(event, case.attempts)
  <2>1. Sound(dx)
    BY DiagnosisSound
  <2>2. event' = event
    BY <1>3 DEF Diagnose, Working, operatorVars
  <2>3. case' = IF case.state = "OPEN"
                THEN [case EXCEPT !.state = "DIAGNOSED", !.tier = dx.tier]
                ELSE case
    BY <1>3 DEF Diagnose
  <2>. HIDE DEF dx
  <2>. QED
    BY <1>2, <2>1, <2>2, <2>3 DEF CaseInv, CaseRecord, Sound, Recoverable
<1>4. ASSUME NEW w \in Workers, Work(w), ~Diagnose(w) PROVE CaseInv'
  <2>1. event' = event
    BY <1>4, WorkIsWorking DEF Working, operatorVars
  <2>2. case'.amount = case.amount /\ case'.tier = case.tier
    BY <1>2, <1>4
       DEF CaseRecord, Work, StartEvaluation, Decide, Assign, Arbitrate,
           SwitchGate, BreakerGate, CapacityGate, PolicyGate, ObligationGate,
           Authorize, Start, Submit, Respond, Settle, Transition
  <2>. QED  BY <1>1, <2>1, <2>2
<1>5. CASE Operate \/ Tick
  <2>1. event' = event
    BY <1>5, AsideKeeps
  <2>2. case'.amount = case.amount /\ case'.tier = case.tier
    BY <1>2, <1>5
       DEF CaseRecord, Operate, Tick, FreezeCase, UnfreezeCase, FlipSwitch,
           TripBreaker, RegisterPolicy, RegisterExperiment, SwapObligation
  <2>. QED  BY <1>1, <2>1, <2>2
<1>6. CASE UNCHANGED vars
  BY <1>1, <1>6 DEF vars, operatorVars
<1>. QED  BY <1>3, <1>4, <1>5, <1>6 DEF Next

\* Only the diagnosis is made by a worker that is doing nothing.
LEMMA WorkNeedsStep ==
    ASSUME NEW w \in Workers, Work(w), ~Diagnose(w)
    PROVE  Step(w) \in Steps
<1>1. CASE \/ StartEvaluation(w) \/ Decide(w) \/ Assign(w)
           \/ SwitchGate(w) \/ BreakerGate(w) \/ CapacityGate(w)
           \/ PolicyGate(w) \/ ObligationGate(w) \/ Authorize(w)
           \/ Settle(w)
  BY <1>1 DEF StartEvaluation, Decide, Assign, SwitchGate, BreakerGate,
              CapacityGate, PolicyGate, ObligationGate, Authorize, Settle,
              Steps, Arbitrating
<1>2. ASSUME NEW p \in PolicyIds, NEW fresh \in BOOLEAN,
             Arbitrate(w, p, fresh)
      PROVE  Step(w) \in Steps
  BY <1>2 DEF Arbitrate, Steps
<1>3. ASSUME NEW counted \in BOOLEAN, Start(w, counted)
      PROVE  Step(w) \in Steps
  BY <1>3 DEF Start, Steps
<1>4. ASSUME NEW resolves \in BOOLEAN, Submit(w, resolves)
      PROVE  Step(w) \in Steps
  BY <1>4 DEF Submit, Steps
<1>5. ASSUME NEW scenario \in {"SUCCESS", "DECLINED"},
             NEW resolves \in BOOLEAN, Respond(w, scenario, resolves)
      PROVE  Step(w) \in Steps
  BY <1>5 DEF Respond, Steps
<1>. QED  BY <1>1, <1>2, <1>3, <1>4, <1>5 DEF Work

\* What the steps after the diagnosis leave of a run that goes on.
LEMMA RunGoesOn ==
    ASSUME TypeOK, NEW w \in Workers, Work(w), ~Diagnose(w), run'[w] # None
    PROVE  /\ run[w] \in Run /\ run[w] # None
           /\ run'[w].dx = run[w].dx
           /\ run'[w].view \in {run[w].view, case, case'}
           /\ ~Decide(w) => /\ run'[w].decision = run[w].decision
                            /\ run'[w].default = run[w].default
           /\ ~Assign(w) => run'[w].arm = run[w].arm
<1>1. run[w] \in Run /\ run[w] # None
  <2>1. Step(w) \in Steps
    BY WorkNeedsStep
  <2>. QED  BY <2>1, StepOfRun
<1>. DEFINE Kept == /\ run'[w].dx = run[w].dx
                    /\ run'[w].view \in {run[w].view, case, case'}
                    /\ run'[w].decision = run[w].decision
                    /\ run'[w].default = run[w].default
            KeptArm == run'[w].arm = run[w].arm
<1>2. CASE StartEvaluation(w) \/ Authorize(w)
           \/ \E counted \in BOOLEAN : Start(w, counted)
  <2>1. PICK target \in States, n \in Int, next \in Steps :
           Transition(w, target, n, next)
    <3>1. CASE StartEvaluation(w)
      BY <3>1 DEF StartEvaluation, States, Steps, TypeOK, CaseRecord
    <3>2. CASE Authorize(w)
      BY <3>2 DEF Authorize, States, Steps, TypeOK, CaseRecord
    <3>3. ASSUME NEW counted \in BOOLEAN, Start(w, counted), ~Exhausted(counted)
          PROVE  \E n \in Int : Transition(w, "EXECUTING", n, "submit")
      BY <3>3 DEF Start, TypeOK, CaseRecord
    <3>4. ASSUME NEW counted \in BOOLEAN, Start(w, counted)
          PROVE  ~Exhausted(counted)
      BY <1>1, <3>4 DEF Start, Quit, TypeOK
    <3>. QED  BY <1>2, <3>1, <3>2, <3>3, <3>4 DEF States, Steps
  <2>2. run' = [run EXCEPT ![w].view = case', ![w].step = next]
    BY <1>1, <2>1 DEF Transition, Quit, TypeOK
  <2>. Kept /\ KeptArm
    BY <1>1, <2>2 DEF Run, TypeOK
  <2>. QED  BY <1>1
<1>3. CASE Decide(w)
  <2>1. /\ run'[w].dx = run[w].dx
        /\ run'[w].view = run[w].view
        /\ KeptArm
    BY <1>1, <1>3 DEF Decide, Run, TypeOK
  <2>. QED  BY <1>1, <1>3, <2>1
<1>4. CASE Assign(w)
  <2>1. Kept
    BY <1>1, <1>4 DEF Assign, Quit, Run, TypeOK
  <2>. QED  BY <1>1, <1>4, <2>1
<1>5. ASSUME NEW p \in PolicyIds, NEW fresh \in BOOLEAN,
             Arbitrate(w, p, fresh)
      PROVE  Kept /\ KeptArm
  BY <1>1, <1>5 DEF Arbitrate, Run, TypeOK
<1>6. CASE SwitchGate(w) \/ BreakerGate(w) \/ CapacityGate(w)
  <2>. Kept /\ KeptArm
    BY <1>1, <1>6
       DEF SwitchGate, BreakerGate, CapacityGate, Goto, Verdict, Run, TypeOK
  <2>. QED  BY <1>1
<1>7. CASE PolicyGate(w) \/ ObligationGate(w)
  <2>. Kept /\ KeptArm
    BY <1>1, <1>7
       DEF PolicyGate, ObligationGate, Conclude, Quit, Run, TypeOK
  <2>. QED  BY <1>1
<1>8. CASE \E resolves \in BOOLEAN : Submit(w, resolves)
  <2>. Kept /\ KeptArm
    BY <1>1, <1>8 DEF Submit, Quit, Run, TypeOK
  <2>. QED  BY <1>1
<1>9. CASE \/ \E scenario \in {"SUCCESS", "DECLINED"}, resolves \in BOOLEAN :
                Respond(w, scenario, resolves)
           \/ Settle(w)
  <2>. Kept /\ KeptArm
    BY <1>1, <1>9 DEF Respond, Settle, Goto, Quit, Run, TypeOK
  <2>. QED  BY <1>1
<1>. QED
  BY <1>1, <1>2, <1>3, <1>4, <1>5, <1>6, <1>7, <1>8, <1>9 DEF Work

LEMMA DecisionStep ==
    ASSUME TypeOK, CaseInv, DecisionInv, [Next]_vars
    PROVE  DecisionInv'
<1>0. CaseInv'
  BY CaseStep
<1>1. ASSUME event' = event,
             \A w \in Workers : run'[w] # None => Decided(run'[w])
      PROVE  DecisionInv'
  BY <1>1 DEF DecisionInv, Decided, Sound, Recoverable, Advice
<1>2. ASSUME NEW w \in Workers, Work(w) PROVE DecisionInv'
  <2>1. event' = event
    BY <1>2, WorkIsWorking DEF Working, operatorVars
  <2>2. ASSUME NEW u \in Workers, u # w, run'[u] # None
        PROVE  Decided(run'[u])
    BY <1>2, <2>2, OthersKeepTheirRun DEF DecisionInv
  <2>3. \A c \in {case, case'} :
           /\ c.amount = event.amount
           /\ c.tier = "BLOCKED" => ~Recoverable(event)
    BY <1>0, <2>1 DEF CaseInv, Recoverable
  <2>4. CASE Diagnose(w)
    <3>. DEFINE dx == Diagnosis(event, case.attempts)
    <3>1. Sound(dx)
      BY DiagnosisSound
    <3>2. run'[w].view = case' /\ run'[w].dx = dx /\ run'[w].default = FALSE
      BY <2>4 DEF Diagnose, TypeOK
    <3>3. Decided(run'[w])
      BY <2>3, <3>1, <3>2 DEF Decided
    <3>. QED  BY <1>1, <2>1, <2>2, <3>3
  <2>5. CASE Decide(w)
    <3>1. run[w] \in Run /\ run[w] # None
      BY <2>5, StepOfRun DEF Decide, Steps
    <3>2. Decided(run[w])
      BY <3>1 DEF DecisionInv
    <3>3. PICK a \in Artifacts(w) :
             run' = [run EXCEPT ![w].step = "assign",
                                ![w].decision = a.decision,
                                ![w].default = a.default,
                                ![w].logged = {"DECISION_ARTIFACT_CREATED"}]
      BY <2>5 DEF Decide
    <3>4. /\ run'[w].view = run[w].view /\ run'[w].dx = run[w].dx
          /\ run'[w].decision = a.decision /\ run'[w].default = a.default
      BY <3>1, <3>3 DEF TypeOK, Run
    <3>5. Recommendation(run[w].view, run[w].dx) = Advice(run[w].dx)
      BY <3>1, <3>2, RecommendationIsAdvice DEF Decided, Run
    <3>6. a.default => a.decision = Advice(run[w].dx)
      BY <3>5 DEF Artifacts
    <3>7. Decided(run'[w])
      BY <3>2, <3>4, <3>6 DEF Decided
    <3>. QED  BY <1>1, <2>1, <2>2, <3>7
  <2>6. CASE ~Diagnose(w) /\ ~Decide(w)
    <3>1. ASSUME run'[w] # None PROVE Decided(run'[w])
      <4>1. /\ run[w] # None
            /\ run'[w].dx = run[w].dx
            /\ run'[w].view \in {run[w].view, case, case'}
            /\ run'[w].decision = run[w].decision
            /\ run'[w].default = run[w].default
        BY <1>2, <2>6, <3>1, RunGoesOn
      <4>2. Decided(run[w])
        BY <4>1 DEF DecisionInv
      <4>. QED  BY <2>3, <4>1, <4>2 DEF Decided
    <3>. QED  BY <1>1, <2>1, <2>2, <3>1
  <2>. QED  BY <2>4, <2>5, <2>6
<1>3. CASE Operate \/ Tick
  BY <1>1, <1>3, AsideKeeps DEF DecisionInv
<1>4. CASE UNCHANGED vars
  BY <1>1, <1>4 DEF DecisionInv, vars, operatorVars
<1>. QED  BY <1>2, <1>3, <1>4 DEF Next

-----------------------------------------------------------------------------
(* The holdback and the audit log.                                         *)

\* arbitrate returns PROCEED only if nothing it has found is in the way.
LEMMA ProceedIsClear ==
    ASSUME NEW safety \in SafetyVerdicts,
           NEW compliance \in {"APPROVED", "BLOCKED", "DEFERRED"},
           NEW arm \in Arms,
           Outcome(safety, compliance, arm) = "PROCEED"
    PROVE  safety = "PASS" /\ compliance = "APPROVED" /\ arm = "TREATMENT"
BY DEF Outcome, SafetyVerdicts, Arms

\* The steps that change neither the arm nor the log of a run that goes on.
LEMMA RunProceeds ==
    ASSUME TypeOK, NEW w \in Workers, Work(w), run'[w] # None,
           ~Diagnose(w), ~Decide(w), ~Assign(w), ~PolicyGate(w),
           ~ObligationGate(w)
    PROVE  /\ assigned' = assigned
           /\ run'[w].arm = run[w].arm
           /\ run'[w].logged = run[w].logged
           /\ run'[w].step \in {"decide"} \cup (Steps \ Unassigned)
           /\ run'[w].step # "decide" => run[w].step \notin Unassigned
           /\ run'[w].step \in Proceeding => run[w].step \in Proceeding
           /\ run'[w].step # "obligations"
<1>1. run[w] \in Run /\ run[w] # None
  BY WorkNeedsStep, StepOfRun
<1>. DEFINE Goal == /\ assigned' = assigned
                    /\ run'[w].arm = run[w].arm
                    /\ run'[w].logged = run[w].logged
                    /\ run'[w].step \in {"decide"} \cup (Steps \ Unassigned)
                    /\ run'[w].step # "decide" => run[w].step \notin Unassigned
                    /\ run'[w].step \in Proceeding => run[w].step \in Proceeding
                    /\ run'[w].step # "obligations"
<1>. USE DEF Steps, Arbitrating, Unassigned, Proceeding
<1>2. CASE StartEvaluation(w)
  BY <1>1, <1>2 DEF StartEvaluation, Transition, Quit, Run, TypeOK, Step
<1>3. ASSUME NEW p \in PolicyIds, NEW fresh \in BOOLEAN,
             Arbitrate(w, p, fresh)
      PROVE  Goal
  BY <1>1, <1>3 DEF Arbitrate, Run, TypeOK, Step
<1>4. CASE SwitchGate(w) \/ BreakerGate(w) \/ CapacityGate(w)
  BY <1>1, <1>4
     DEF SwitchGate, BreakerGate, CapacityGate, Goto, Verdict, Run, TypeOK, Step
<1>5. CASE Authorize(w)
  BY <1>1, <1>5 DEF Authorize, Transition, Quit, Run, TypeOK, Step
<1>6. ASSUME NEW counted \in BOOLEAN, Start(w, counted) PROVE Goal
  BY <1>1, <1>6 DEF Start, Transition, Quit, Run, TypeOK, Step
<1>7. ASSUME NEW resolves \in BOOLEAN, Submit(w, resolves) PROVE Goal
  BY <1>1, <1>7 DEF Submit, Quit, Run, TypeOK, Step
<1>8. ASSUME NEW scenario \in {"SUCCESS", "DECLINED"},
             NEW resolves \in BOOLEAN, Respond(w, scenario, resolves)
      PROVE  Goal
  BY <1>1, <1>8 DEF Respond, Goto, Quit, Run, TypeOK, Step
<1>9. CASE Settle(w)
  BY <1>1, <1>9 DEF Settle, Quit, Run, TypeOK, Step
<1>. QED
  BY <1>2, <1>3, <1>4, <1>5, <1>6, <1>7, <1>8, <1>9 DEF Work

\* A run that a gate lets proceed is in TREATMENT, and passed everything.
LEMMA GateProceeds ==
    ASSUME TypeOK, AssignInv, NEW w \in Workers,
           PolicyGate(w) \/ ObligationGate(w), run'[w] # None
    PROVE  /\ run[w] \in Run /\ run[w] # None
           /\ assigned' = assigned
           /\ run'[w].arm = run[w].arm
           /\ run[w].step \in {"policy", "obligations"}
           /\ \/ /\ PolicyGate(w)
                 /\ Permitted(w)
                 /\ run'[w] = [run[w] EXCEPT !.step = "obligations",
                                 !.logged = @ \cup {"POLICY_EVALUATED"}]
              \/ /\ ObligationGate(w)
                 /\ run[w].step = "obligations"
                 /\ run[w].safety = "PASS" /\ run[w].arm = "TREATMENT"
                 /\ Due(run[w].now) = {}
                 /\ run'[w] = [run[w] EXCEPT !.step = "authorize",
                                 !.logged = @ \cup {"ARBITRATION_EVALUATED"}]
<1>1. /\ run[w] \in Run /\ run[w] # None
      /\ run[w].step \in {"policy", "obligations"}
  BY StepOfRun DEF PolicyGate, ObligationGate, Steps, Arbitrating
<1>2. run[w].arm \in Arms /\ run[w].safety \in SafetyVerdicts
  BY <1>1 DEF AssignInv, Assigned, Unassigned, Run
<1>3. assigned' = assigned
  BY DEF PolicyGate, ObligationGate
<1>4. CASE PolicyGate(w)
  <2>1. Permitted(w)
    <3>1. Outcome(run[w].safety, "BLOCKED", run[w].arm) # "PROCEED"
      BY <1>2, ProceedIsClear
    <3>. QED  BY <1>4, <3>1 DEF PolicyGate, Conclude, Quit, TypeOK
  <2>2. policies[run[w].policy] # None
    BY <2>1 DEF Permitted, Permits
  <2>3. run' = [run EXCEPT ![w].step = "obligations",
                           ![w].logged = @ \cup {"POLICY_EVALUATED"}]
    BY <1>4, <2>1, <2>2 DEF PolicyGate
  <2>4. /\ run'[w].arm = run[w].arm
        /\ run'[w] = [run[w] EXCEPT !.step = "obligations",
                        !.logged = @ \cup {"POLICY_EVALUATED"}]
    BY <1>1, <2>3 DEF TypeOK, Run
  <2>. QED  BY <1>1, <1>3, <1>4, <2>1, <2>4
<1>5. CASE ObligationGate(w)
  <2>. DEFINE verdict == IF Due(run[w].now) = {} THEN "APPROVED"
                                                ELSE "DEFERRED"
  <2>1. Conclude(w, verdict, {}) /\ Step(w) = "obligations"
    BY <1>5 DEF ObligationGate
  <2>2. verdict \in {"APPROVED", "DEFERRED"}
    OBVIOUS
  <2>3. verdict = "APPROVED" => Due(run[w].now) = {}
    OBVIOUS
  <2>. HIDE DEF verdict
  <2>4. Outcome(run[w].safety, verdict, run[w].arm) = "PROCEED"
    BY <2>1 DEF Conclude, Quit, TypeOK
  <2>5. /\ run[w].safety = "PASS" /\ run[w].arm = "TREATMENT"
        /\ Due(run[w].now) = {}
    BY <1>2, <2>2, <2>3, <2>4, ProceedIsClear
  <2>6. run'[w] = [run[w] EXCEPT !.step = "authorize",
                     !.logged = @ \cup {} \cup {"ARBITRATION_EVALUATED"}]
    BY <2>1 DEF Conclude, Quit, TypeOK
  <2>7. /\ run'[w].arm = run[w].arm
        /\ run'[w] = [run[w] EXCEPT !.step = "authorize",
                        !.logged = @ \cup {"ARBITRATION_EVALUATED"}]
    BY <1>1, <2>6 DEF Run
  <2>8. run[w].step = "obligations"
    BY <1>1, <2>1 DEF Step
  <2>. QED  BY <1>1, <1>3, <1>5, <2>5, <2>7, <2>8
<1>. QED  BY <1>4, <1>5

LEMMA AssignStep ==
    ASSUME TypeOK, AssignInv, [Next]_vars
    PROVE  AssignInv'
<1>0. None \notin Arms
  BY PipelineAssumption
<1>1. ASSUME NEW w \in Workers, Work(w) PROVE AssignInv'
  <2>1. assigned # None => assigned' = assigned
    BY <1>1
       DEF Work, Diagnose, StartEvaluation, Decide, Assign, Arm, Arbitrate,
           SwitchGate, BreakerGate, CapacityGate, PolicyGate, ObligationGate,
           Authorize, Start, Submit, Respond, Settle
  <2>2. run'[w] # None => Assigned(run[w])'
    <3>1. CASE Diagnose(w)
      BY <3>1 DEF Diagnose, Assigned, Unassigned, Proceeding, TypeOK
    <3>2. CASE Decide(w)
      <4>1. run[w] \in Run /\ run[w] # None /\ run[w].step = "decide"
        BY <3>2, StepOfRun DEF Decide, Steps
      <4>2. /\ run'[w].arm = run[w].arm /\ run'[w].step = "assign"
            /\ assigned' = assigned
        BY <3>2, <4>1 DEF Decide, TypeOK, Run
      <4>3. Assigned(run[w])
        BY <4>1 DEF AssignInv
      <4>. QED  BY <4>2, <4>3 DEF Assigned, Unassigned, Proceeding
    <3>3. CASE Assign(w)
      <4>1. run[w] \in Run /\ run[w] # None
        BY <3>3, StepOfRun DEF Assign, Steps
      <4>2. Arm(w) \in Arms
        BY DEF TypeOK, Arm, ArmOf, Arms
      <4>3. \/ run'[w] = None
            \/ /\ assigned' = Arm(w)
               /\ run'[w] = [run[w] EXCEPT !.step = "arbitrate",
                                           !.arm = Arm(w)]
        BY <3>3 DEF Assign, Quit, TypeOK
      <4>. QED
        BY <1>0, <4>1, <4>2, <4>3 DEF Assigned, Unassigned, Proceeding, Run
    <3>4. CASE PolicyGate(w) \/ ObligationGate(w)
      <4>1. ASSUME run'[w] # None PROVE Assigned(run[w])'
        <5>1. Assigned(run[w])
          BY <3>4, <4>1, GateProceeds DEF AssignInv
        <5>2. /\ run[w] \in Run /\ assigned' = assigned
              /\ run'[w].arm = run[w].arm
              /\ run[w].step \in {"policy", "obligations"}
          BY <3>4, <4>1, GateProceeds
        <5>3. \/ run'[w] = [run[w] EXCEPT !.step = "obligations",
                              !.logged = @ \cup {"POLICY_EVALUATED"}]
              \/ run[w].arm = "TREATMENT"
          BY <3>4, <4>1, GateProceeds
        <5>4. run'[w].step \in Proceeding => run[w].arm = "TREATMENT"
          BY <5>2, <5>3 DEF Proceeding, Run
        <5>. QED  BY <5>1, <5>2, <5>4 DEF Assigned, Unassigned
      <4>. QED  BY <4>1
    <3>5. CASE /\ ~Diagnose(w) /\ ~Decide(w) /\ ~Assign(w)
               /\ ~PolicyGate(w) /\ ~ObligationGate(w)
      <4>1. ASSUME run'[w] # None PROVE Assigned(run[w])'
        <5>1. Assigned(run[w])
          BY <1>1, <3>5, WorkNeedsStep, StepOfRun DEF AssignInv
        <5>. QED
          BY <1>1, <3>5, <4>1, <5>1, RunProceeds
             DEF Assigned, Unassigned, Proceeding
      <4>. QED  BY <4>1
    <3>. QED  BY <3>1, <3>2, <3>3, <3>4, <3>5
  <2>3. ASSUME NEW u \in Workers, u # w, run'[u] # None
        PROVE  Assigned(run[u])'
    <3>1. run'[u] = run[u] /\ Assigned(run[u])
      BY <1>1, <2>3, OthersKeepTheirRun DEF AssignInv
    <3>. QED  BY <2>1, <3>1 DEF Assigned
  <2>4. treated' => treated \/ Step(w) = "submit"
    BY <1>1
       DEF Work, Diagnose, StartEvaluation, Decide, Assign, Arbitrate,
           SwitchGate, BreakerGate, CapacityGate, PolicyGate, ObligationGate,
           Authorize, Start, Submit, Respond, Settle
  <2>5. treated' => assigned = "TREATMENT"
    <3>1. CASE treated
      BY <3>1 DEF AssignInv
    <3>2. CASE Step(w) = "submit"
      <4>1. run[w] # None /\ run[w].step = "submit"
        BY <3>2, StepOfRun DEF Steps
      <4>2. Assigned(run[w])
        BY <4>1 DEF AssignInv
      <4>. QED  BY <1>0, <4>1, <4>2 DEF Assigned, Proceeding, Arms
    <3>. QED  BY <2>4, <3>1, <3>2
  <2>6. treated' => assigned' = "TREATMENT"
    BY <1>0, <2>1, <2>5 DEF Arms
  <2>. QED  BY <2>2, <2>3, <2>6 DEF AssignInv
<1>2. CASE Operate \/ Tick
  BY <1>2, AsideKeeps DEF AssignInv, Assigned
<1>3. CASE UNCHANGED vars
  BY <1>3 DEF AssignInv, Assigned, vars
<1>. QED  BY <1>1, <1>2, <1>3 DEF Next

LEMMA LogStep ==
    ASSUME TypeOK, AssignInv, LogInv, [Next]_vars
    PROVE  LogInv'
<1>1. ASSUME NEW w \in Workers, Work(w) PROVE LogInv'
  <2>1. run'[w] # None => Logged(run'[w])
    <3>1. CASE Diagnose(w)
      BY <3>1 DEF Diagnose, Logged, Proceeding, TypeOK
    <3>2. CASE Decide(w)
      <4>1. run[w] \in Run
        BY <3>2, StepOfRun DEF Decide, Steps
      <4>2. /\ run'[w].step = "assign"
            /\ run'[w].logged = {"DECISION_ARTIFACT_CREATED"}
        BY <3>2, <4>1 DEF Decide, TypeOK, Run
      <4>. QED  BY <4>2 DEF Logged, Proceeding
    <3>3. CASE Assign(w)
      <4>1. run[w] \in Run /\ run[w] # None /\ run[w].step = "assign"
        BY <3>3, StepOfRun DEF Assign, Steps
      <4>2. \/ run'[w] = None
            \/ run'[w] = [run[w] EXCEPT !.step = "arbitrate", !.arm = Arm(w)]
        BY <3>3 DEF Assign, Quit, TypeOK
      <4>. QED  BY <4>1, <4>2 DEF LogInv, Logged, Proceeding, Run
    <3>4. CASE PolicyGate(w) \/ ObligationGate(w)
      <4>1. ASSUME run'[w] # None PROVE Logged(run'[w])
        <5>1. Logged(run[w])
          BY <3>4, <4>1, GateProceeds DEF LogInv
        <5>2. run[w] \in Run /\ run[w].step \in {"policy", "obligations"}
          BY <3>4, <4>1, GateProceeds
        <5>3. \/ run'[w] = [run[w] EXCEPT !.step = "obligations",
                              !.logged = @ \cup {"POLICY_EVALUATED"}]
              \/ /\ run[w].step = "obligations"
                 /\ run'[w] = [run[w] EXCEPT !.step = "authorize",
                                 !.logged = @ \cup {"ARBITRATION_EVALUATED"}]
          BY <3>4, <4>1, GateProceeds
        <5>4. \/ /\ run'[w].step = "obligations"
                 /\ run'[w].logged = run[w].logged \cup {"POLICY_EVALUATED"}
              \/ /\ run[w].step = "obligations"
                 /\ run'[w].step = "authorize"
                 /\ run'[w].logged = run[w].logged
                                       \cup {"ARBITRATION_EVALUATED"}
          BY <5>2, <5>3 DEF Run
        <5>5. /\ "DECISION_ARTIFACT_CREATED" \in run[w].logged
              /\ run[w].step = "obligations" =>
                    "POLICY_EVALUATED" \in run[w].logged
          BY <5>1, <5>2 DEF Logged
        <5>. QED  BY <5>4, <5>5 DEF Logged, Proceeding
      <4>. QED  BY <4>1
    <3>5. CASE /\ ~Diagnose(w) /\ ~Decide(w) /\ ~Assign(w)
               /\ ~PolicyGate(w) /\ ~ObligationGate(w)
      <4>1. ASSUME run'[w] # None PROVE Logged(run'[w])
        <5>1. Logged(run[w])
          BY <1>1, <3>5, WorkNeedsStep, StepOfRun DEF LogInv
        <5>. QED
          BY <1>1, <3>5, <4>1, <5>1, RunProceeds
             DEF Logged, Unassigned, Proceeding
      <4>. QED  BY <4>1
    <3>. QED  BY <3>1, <3>2, <3>3, <3>4, <3>5
  <2>2. ASSUME NEW u \in Workers, u # w, run'[u] # None
        PROVE  Logged(run'[u])
    BY <1>1, <2>2, OthersKeepTheirRun DEF LogInv
  <2>. QED  BY <2>1, <2>2 DEF LogInv
<1>2. CASE Operate \/ Tick
  BY <1>2, AsideKeeps DEF LogInv
<1>3. CASE UNCHANGED vars
  BY <1>3 DEF LogInv, vars
<1>. QED  BY <1>1, <1>2, <1>3 DEF Next

-----------------------------------------------------------------------------
(* What stands in the way.                                                 *)

\* Why each blocker is one.
LEMMA BlockersMeaning ==
    ASSUME NEW w
    PROVE  /\ "switch" \in BlockersOf(w) =>
                SafetyFrozen(w) \/ Halted(switches, RequestOf(w))
           /\ "breaker" \in BlockersOf(w) =>
                ~Admits(breakers[TargetOf(w)], run[w].now)
           /\ "capacity" \in BlockersOf(w) =>
                ~HasRoom(Purge(history, run[w].now), AmountOf(w))
           /\ "policy" \in BlockersOf(w) => ~Permitted(w)
           /\ "obligation" \in BlockersOf(w) => Due(run[w].now) # {}
           /\ "arm" \in BlockersOf(w) => run[w].arm # "TREATMENT"
           /\ BlockersOf(w) \subseteq Blockers
BY DEF BlockersOf, Blockers, Permitted, Due, Defers

\* A gate that lets a run go on has found absent what the run has passed since.
LEMMA GatesPass ==
    ASSUME TypeOK, AssignInv, NEW w \in Workers, Work(w), run'[w] # None,
           run'[w].step \in Arbitrating \ {"switch"}
    PROVE  /\ run[w].step \in Arbitrating
           /\ \A b \in Passed(run'[w]) :
                 b \in Passed(run[w]) \/ b \notin BlockersOf(w)
<1>. DEFINE Goal == /\ run[w].step \in Arbitrating
                    /\ \A b \in Passed(run'[w]) :
                          b \in Passed(run[w]) \/ b \notin BlockersOf(w)
<1>1. CASE SwitchGate(w)
  <2>1. run[w] \in Run /\ run[w].step = "switch"
    BY <1>1, StepOfRun DEF SwitchGate, Steps, Arbitrating
  <2>2. \/ run'[w].step = "policy" /\ run'[w].safety = "KILL_SWITCH_ACTIVE"
        \/ /\ run'[w].step = "breaker"
           /\ "switch" \notin BlockersOf(w)
    BY <1>1, <2>1, BlockersMeaning
       DEF SwitchGate, Verdict, Goto, Run, TypeOK
  <2>. QED  BY <2>1, <2>2 DEF Passed, Arbitrating
<1>2. CASE BreakerGate(w)
  <2>1. run[w] \in Run /\ run[w].step = "breaker"
    BY <1>2, StepOfRun DEF BreakerGate, Steps, Arbitrating
  <2>2. \/ run'[w].step = "policy" /\ run'[w].safety = "CIRCUIT_BROKEN"
        \/ /\ run'[w].step = "capacity"
           /\ "breaker" \notin BlockersOf(w)
    BY <1>2, <2>1, BlockersMeaning
       DEF BreakerGate, Verdict, Goto, Run, TypeOK
  <2>. QED  BY <2>1, <2>2 DEF Passed, Arbitrating
<1>3. CASE CapacityGate(w)
  <2>1. run[w] \in Run /\ run[w].step = "capacity"
    BY <1>3, StepOfRun DEF CapacityGate, Steps, Arbitrating
  <2>2. /\ run'[w].step = "policy"
        /\ \/ run'[w].safety = "CAPACITY_EXCEEDED"
           \/ "capacity" \notin BlockersOf(w)
    BY <1>3, <2>1, BlockersMeaning DEF CapacityGate, Verdict, Run, TypeOK
  <2>. QED  BY <2>1, <2>2 DEF Passed, Arbitrating
<1>4. CASE PolicyGate(w) \/ ObligationGate(w)
  <2>1. run[w] \in Run /\ run[w].step \in {"policy", "obligations"}
    BY <1>4, GateProceeds
  <2>2. CASE /\ PolicyGate(w)
             /\ Permitted(w)
             /\ run'[w] = [run[w] EXCEPT !.step = "obligations",
                             !.logged = @ \cup {"POLICY_EVALUATED"}]
    <3>1. run'[w].step = "obligations" /\ run'[w].safety = run[w].safety
      BY <2>1, <2>2 DEF Run
    <3>2. run[w].step = "policy"
      BY <2>1, <2>2 DEF PolicyGate, Step
    <3>3. "policy" \notin BlockersOf(w)
      BY <2>2, BlockersMeaning
    <3>. QED  BY <3>1, <3>2, <3>3 DEF Passed, Arbitrating
  <2>3. CASE /\ run[w].step = "obligations"
             /\ run[w].safety = "PASS" /\ run[w].arm = "TREATMENT"
             /\ Due(run[w].now) = {}
             /\ run'[w] = [run[w] EXCEPT !.step = "authorize",
                             !.logged = @ \cup {"ARBITRATION_EVALUATED"}]
    <3>1. "obligation" \notin BlockersOf(w) /\ "arm" \notin BlockersOf(w)
      BY <2>3, BlockersMeaning
    <3>. QED  BY <2>3, <3>1 DEF Passed, Arbitrating
  <2>. QED  BY <1>4, <2>2, <2>3, GateProceeds
<1>5. CASE Diagnose(w) \/ Decide(w) \/ Assign(w)
  <2>1. CASE Diagnose(w)
    BY <2>1 DEF Diagnose, TypeOK, Arbitrating
  <2>2. CASE Decide(w)
    <3>1. run[w] \in Run
      BY <2>2, StepOfRun DEF Decide, Steps
    <3>2. run'[w].step = "assign"
      BY <2>2, <3>1 DEF Decide, TypeOK, Run
    <3>. QED  BY <3>2 DEF Arbitrating
  <2>3. CASE Assign(w)
    <3>1. run[w] \in Run
      BY <2>3, StepOfRun DEF Assign, Steps
    <3>2. run'[w].step = "arbitrate"
      BY <2>3, <3>1 DEF Assign, Quit, TypeOK, Run
    <3>. QED  BY <3>2 DEF Arbitrating
  <2>. QED  BY <1>5, <2>1, <2>2, <2>3
<1>6. ASSUME NEW target, NEW n, NEW next \in {"decide", "start", "submit"},
             Transition(w, target, n, next) \/ Quit(w)
      PROVE  FALSE
  <2>1. run[w] \in Run /\ run[w] # None
    <3>1. Step(w) \in Steps \/ Diagnose(w)
      BY WorkNeedsStep
    <3>2. ~Diagnose(w)
      BY DEF Diagnose, TypeOK, Arbitrating
    <3>. QED  BY <3>1, <3>2, StepOfRun
  <2>2. run'[w].step = next
    BY <1>6, <2>1 DEF Transition, Quit, TypeOK, Run
  <2>. QED  BY <2>2 DEF Arbitrating
<1>11. CASE StartEvaluation(w) \/ Authorize(w)
  BY <1>6, <1>11 DEF StartEvaluation, Authorize
<1>12. ASSUME NEW counted \in BOOLEAN, Start(w, counted) PROVE FALSE
  BY <1>6, <1>12 DEF Start
<1>7. ASSUME NEW p \in PolicyIds, NEW fresh \in BOOLEAN,
             Arbitrate(w, p, fresh)
      PROVE  FALSE
  BY <1>7 DEF Arbitrate, TypeOK, Run, Step
<1>8. ASSUME NEW resolves \in BOOLEAN, Submit(w, resolves) PROVE FALSE
  BY <1>8 DEF Submit, Quit, TypeOK, Run, Step, Arbitrating
<1>9. ASSUME NEW scenario \in {"SUCCESS", "DECLINED"},
             NEW resolves \in BOOLEAN, Respond(w, scenario, resolves)
      PROVE  FALSE
  BY <1>9 DEF Respond, Goto, Quit, TypeOK, Run, Step, Arbitrating
<1>10. CASE Settle(w)
  BY <1>10 DEF Settle, Quit, TypeOK
<1>. QED
  BY <1>1, <1>2, <1>3, <1>4, <1>5, <1>7, <1>8, <1>9, <1>10, <1>11, <1>12
     DEF Work

\* standing never grows while an arbitration lasts.
LEMMA Observed ==
    ASSUME TypeOK, Observe, NEW w \in Workers, run'[w] # None,
           run'[w].step \in Arbitrating
    PROVE  /\ standing'[w] \subseteq BlockersOf(w)'
           /\ run[w] # None /\ run[w].step \in Arbitrating =>
                 standing'[w] \subseteq standing[w]
BY DEF Observe, Step, Arbitrating

LEMMA StandingStep ==
    ASSUME TypeOK, AssignInv, StandingInv, [Next]_vars
    PROVE  StandingInv'
<1>. DEFINE Goal(u) ==
              run'[u] # None /\ run'[u].step \in Arbitrating =>
                 /\ standing'[u] \subseteq BlockersOf(u)'
                 /\ standing'[u] \cap Passed(run'[u]) = {}
<1>1. ASSUME Observe, NEW u \in Workers, run'[u] = run[u]
      PROVE  Goal(u)
  BY <1>1, Observed DEF StandingInv
<1>2. ASSUME NEW w \in Workers, Work(w) PROVE StandingInv'
  <2>1. Observe
    BY <1>2, WorkIsWorking DEF Working
  <2>2. ASSUME run'[w] # None, run'[w].step \in Arbitrating
        PROVE  standing'[w] \cap Passed(run'[w]) = {}
    <3>1. CASE run'[w].step = "switch"
      BY <3>1 DEF Passed
    <3>2. CASE run'[w].step # "switch"
      <4>1. /\ run[w].step \in Arbitrating
            /\ \A b \in Passed(run'[w]) :
                  b \in Passed(run[w]) \/ b \notin BlockersOf(w)
        BY <1>2, <2>2, <3>2, GatesPass
      <4>2. run[w] # None
        <5>1. ~Diagnose(w)
          BY <2>2 DEF Diagnose, TypeOK, Arbitrating
        <5>. QED  BY <1>2, <5>1, WorkNeedsStep, StepOfRun
      <4>3. standing'[w] \subseteq standing[w]
        BY <2>1, <2>2, <4>1, <4>2, Observed
      <4>4. /\ standing[w] \subseteq BlockersOf(w)
            /\ standing[w] \cap Passed(run[w]) = {}
        BY <4>1, <4>2 DEF StandingInv
      <4>. QED  BY <4>1, <4>3, <4>4
    <3>. QED  BY <3>1, <3>2
  <2>3. Goal(w)
    BY <2>1, <2>2, Observed
  <2>4. ASSUME NEW u \in Workers, u # w PROVE Goal(u)
    BY <1>1, <1>2, <2>1, <2>4, OthersKeepTheirRun
  <2>. QED  BY <2>3, <2>4 DEF StandingInv
<1>3. CASE Operate \/ Tick
  BY <1>1, <1>3, AsideKeeps DEF StandingInv
<1>4. CASE UNCHANGED vars
  <2>1. \A w \in Workers : BlockersOf(w)' = BlockersOf(w)
    BY <1>4
       DEF vars, operatorVars, safetyVars, BlockersOf, TargetOf, AmountOf,
           SafetyFrozen, RequestOf
  <2>. QED  BY <1>4, <2>1 DEF StandingInv, vars
<1>. QED  BY <1>2, <1>3, <1>4 DEF Next

-----------------------------------------------------------------------------
(* The theorems.                                                           *)

LEMMA Inductive == Spec => []IndInv
<1>1. Init => IndInv
  <2>. SUFFICES ASSUME Init PROVE IndInv
    OBVIOUS
  <2>1. TypeOK
    BY TypeInit
  <2>2. CaseInv
    BY DEF Init, CaseInv
  <2>3. DecisionInv /\ AssignInv /\ LogInv /\ StandingInv
    BY DEF Init, DecisionInv, AssignInv, LogInv, StandingInv
  <2>. QED  BY <2>1, <2>2, <2>3 DEF IndInv
<1>2. IndInv /\ [Next]_vars => IndInv'
  BY TypeStep, CaseStep, DecisionStep, AssignStep, LogStep, StandingStep
     DEF IndInv
<1>. QED  BY <1>1, <1>2, PTL DEF Spec

\* The type invariant: no case and no view of one has more attempts than
\* max_attempts, although one worker reads the attempts of a case that another
\* moves, and every artifact, diagnosis and breaker has its form.
THEOREM TypeCorrect == Spec => []TypeOK
<1>1. IndInv => TypeOK
  BY DEF IndInv
<1>. QED  BY <1>1, Inductive, PTL

\* The holdback is never treated: ExperimentEngine.assign never replaces a
\* record, and arbitrate lets only TREATMENT proceed.
THEOREM HoldbackKept == Spec => []HoldbackNeverTreated
<1>1. IndInv => HoldbackNeverTreated
  BY DEF IndInv, AssignInv, HoldbackNeverTreated
<1>. QED  BY <1>1, Inductive, PTL

\* Nothing that is in the way from the call of arbitrate to its return is
\* overlooked, whatever the operator and the other workers do in between.
THEOREM NothingOverlooked == Spec => []NoBlockerOverlooked
<1>1. IndInv => NoBlockerOverlooked
  <2>. SUFFICES ASSUME IndInv, NEW w \in Workers, Step(w) = "authorize"
                PROVE  standing[w] = {}
    BY DEF NoBlockerOverlooked
  <2>1. run[w] # None /\ run[w].step = "authorize"
    BY StepOfRun DEF IndInv, Steps, Arbitrating
  <2>2. standing[w] \cap Passed(run[w]) = {}
    BY <2>1 DEF IndInv, StandingInv, Arbitrating
  <2>3. Passed(run[w]) = Blockers
    BY <2>1 DEF Passed, Blockers
  <2>. QED  BY <2>2, <2>3 DEF IndInv, TypeOK
<1>. QED  BY <1>1, Inductive, PTL

\* What the default provider recommends breaks no rule of the standard policy
\* that does not look at the attempts or the freeze of the case.
THEOREM RecommendationsComply == Spec => []RecommendationComplies
<1>1. IndInv => RecommendationComplies
  <2>. SUFFICES ASSUME IndInv, NEW w \in Workers, run[w] # None,
                       run[w].default, NEW rule \in StandardRules,
                       Violates(rule, run[w].view, run[w].dx, run[w].decision)
                PROVE  rule \in {"MAX_ATTEMPTS_LIMIT", "SAFETY_FREEZE_GUARD"}
    BY DEF RecommendationComplies, Violations, StandardPolicy
  <2>1. /\ run[w] \in Run
        /\ Decided(run[w])
        /\ event \in Events
    BY DEF IndInv, TypeOK, DecisionInv
  <2>2. /\ Sound(run[w].dx)
        /\ run[w].decision = Advice(run[w].dx)
        /\ run[w].view.amount = event.amount
        /\ run[w].view.tier = "BLOCKED" => ~run[w].dx.recoverable
    BY <2>1 DEF Decided, Sound
  <2>3. event.amount \in Nat \ {0}
    BY <2>1, PipelineAssumption
  <2>4. run[w].dx \in DiagnosisResult
    BY <2>1 DEF Run
  <2>. QED
    BY <2>2, <2>3, <2>4, DecisionAssumption
       DEF Violates, StandardRules, LacksConfidence, Advice, Recommendation,
           Sound, DiagnosisResult, Gateway, Internal
<1>. QED  BY <1>1, Inductive, PTL

\* The audit log of a run that was dispatched holds its decision, the
\* evaluation of a policy and the arbitration, and the case has an arm.
THEOREM AuditTells == Spec => []AuditTellsWhy
<1>1. IndInv => AuditTellsWhy
  <2>. SUFFICES ASSUME IndInv, NEW w \in Workers,
                       Step(w) \in {"handler", "settle"}
                PROVE  /\ {"DECISION_ARTIFACT_CREATED", "POLICY_EVALUATED",
                           "ARBITRATION_EVALUATED"} \subseteq run[w].logged
                       /\ assigned # None
    BY DEF AuditTellsWhy
  <2>1. run[w] # None /\ run[w].step \in {"handler", "settle"}
    BY StepOfRun DEF IndInv, Steps
  <2>2. Logged(run[w]) /\ Assigned(run[w])
    BY <2>1 DEF IndInv, LogInv, AssignInv
  <2>. QED
    BY <2>1, <2>2, PipelineAssumption
       DEF Logged, Assigned, Unassigned, Proceeding, Arms
<1>. QED  BY <1>1, Inductive, PTL

=============================================================================
