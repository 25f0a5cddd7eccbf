------------------------ MODULE ComplianceScheduler -------------------------
(***************************************************************************)
(* ComplianceScheduler (governance/scheduler.py): the obligations of one   *)
(* case.  Every method holds the scheduler's lock from its first read to   *)
(* its last write, so each is one step; what interleaves is which methods  *)
(* callers call, with obligations and a view of the case they got earlier. *)
(* The store keeps cases apart and its readers sort by a key that ends in  *)
(* the obligation's id, so the obligations of a case are a set.            *)
(***************************************************************************)
EXTENDS Integers, FiniteSets

CONSTANTS Incoming,  \* the ComplianceObligations callers may hand in
          None       \* no obligation

Ids == {o.id : o \in Incoming}

Ranks == 1..4  \* of the obligation types, as the sort key ranks them

Active == {"PENDING", "COLLISION_RESOLVED"}

Statuses == Active \cup {"SATISFIED", "EXPIRED", "FROZEN"}

\* A ComplianceObligation.  Of resolution_reason the model keeps the id of
\* the obligation that an obligation is subordinate to.
Obligation == [id : Ids, mandatory : BOOLEAN, rank : Ranks, time : Nat,
               status : Statuses, reason : Ids \cup {None}]

\* Ids are compared as strings: here they are numbers.
ASSUME SchedulerAssumption ==
    /\ Incoming \subseteq Obligation
    /\ Ids \subseteq Nat
    /\ None \notin Ids
    /\ \A o \in Incoming : o.status \in {"PENDING", "SATISFIED", "EXPIRED"}

VARIABLES store,    \* the obligations of the case
          logged,   \* logged[i]: the status in the last audit entry of i
          plan,     \* the ScheduledObligationPlan the last step returned
          brought,  \* history: the ids the last step brought new versions of
          resolved  \* history: it resolved the collisions

vars == <<store, logged, plan, brought, resolved>>

NoPlan == [scheduled |-> {}, collisions |-> {}]

Init ==
    /\ store = {}
    /\ logged = [i \in Ids |-> None]
    /\ plan = NoPlan
    /\ brought = {}
    /\ resolved = FALSE

-----------------------------------------------------------------------------
(* The methods, as functions of the set of obligations s.                  *)

\* Mutant: the old version of an obligation stays in the list.
PutBeside(s, batch) == s \cup batch

\* schedule_obligation: the new version of an obligation replaces the old.
Put(s, batch) ==
    {o \in s : \A b \in batch : b.id # o.id} \cup batch

\* Mutant: an obligation of higher rank prevails, mandatory or not.
PrecedesByRank(a, b) ==
    \/ a.rank < b.rank
    \/ a.rank = b.rank /\ a.id < b.id

\* The sort key, between obligations of one scheduled_time.
Precedes(a, b) ==
    \/ a.mandatory /\ ~b.mandatory
    \/ /\ a.mandatory = b.mandatory
       /\ \/ a.rank < b.rank
          \/ a.rank = b.rank /\ a.id < b.id

\* Mutant: what lost a collision takes no part in the next.
RivalsPending(s, o) ==
    {p \in s : p.id # o.id /\ p.time = o.time /\ p.status = "PENDING"}

\* The other active obligations of o's time.
Rivals(s, o) ==
    {p \in s : p.id # o.id /\ p.time = o.time /\ p.status \in Active}

\* The rival that all other rivals are subordinate to.
Dominant(s, o) ==
    CHOOSE p \in Rivals(s, o) :
        \A q \in Rivals(s, o) : p = q \/ Precedes(p, q)

Loses(s, o) ==
    o.status \in Active /\ \E p \in Rivals(s, o) : Precedes(p, o)

\* The dominant one of a collision is made pending if it is not.
Promoted(s, o) ==
    o.status = "COLLISION_RESOLVED" /\ Rivals(s, o) # {} /\ ~Loses(s, o)

\* What becomes of o when collisions are resolved.  Alone at its time it is
\* left as it is, pending or not.
Settle(s, o) ==
    CASE Loses(s, o)    -> [o EXCEPT !.status = "COLLISION_RESOLVED",
                                     !.reason = Dominant(s, o).id]
      [] Promoted(s, o) -> [o EXCEPT !.status = "PENDING", !.reason = None]
      [] OTHER          -> o

Resolve(s) == {Settle(s, o) : o \in s}

\* The plan that resolve_collisions returns for s.
PlanOf(s) ==
    LET active == {o \in s : o.status \in Active}
    IN  [scheduled  |-> {Settle(s, o) : o \in {a \in active : ~Loses(s, a)}},
         collisions |-> {Settle(s, o) : o \in {a \in active : Loses(s, a)}}]

\* Mutant: a promotion is not logged.
RewrittenLosers(s) == {Settle(s, o) : o \in {a \in s : Loses(s, a)}}

\* The obligations resolve_collisions writes anew, which it logs.
Rewritten(s) ==
    {Settle(s, o) : o \in {a \in s : Loses(s, a) \/ Promoted(s, a)}}

\* Mutant: the freeze does not spare what is mandatory.
FreezesAll(o) == o.status = "PENDING"

Freezes(o) == o.status = "PENDING" /\ ~o.mandatory

Frozen(o) == [o EXCEPT !.status = "FROZEN", !.reason = None]

\* freeze_case_obligations.
Freeze(s) == {IF Freezes(o) THEN Frozen(o) ELSE o : o \in s}

\* _record_audit_event, for every obligation written.
Log(log, written) ==
    [i \in Ids |-> IF \E o \in written : o.id = i
                   THEN (CHOOSE o \in written : o.id = i).status
                   ELSE log[i]]

LogFreeze(log, s) == Log(log, {Frozen(o) : o \in {a \in s : Freezes(a)}})

-----------------------------------------------------------------------------

ScheduleObligation(o) ==
    /\ store' = Put(store, {o})
    /\ logged' = Log(logged, {o})
    /\ brought' = {o.id}
    /\ resolved' = FALSE
    /\ plan' = NoPlan

ResolveCollisions ==
    /\ store' = Resolve(store)
    /\ logged' = Log(logged, Rewritten(store))
    /\ plan' = PlanOf(store)
    /\ brought' = {}
    /\ resolved' = TRUE

FreezeCaseObligations ==
    /\ store' = Freeze(store)
    /\ logged' = LogFreeze(logged, store)
    /\ brought' = {}
    /\ resolved' = FALSE
    /\ plan' = NoPlan

\* schedule_case_obligations with a batch of the case's obligations: it puts
\* them in the store, freezes if the case it is given is FROZEN, resolves.
ScheduleCaseObligations(batch, frozen) ==
    LET put  == Put(store, batch)
        log  == Log(logged, batch)
        kept == IF frozen THEN Freeze(put) ELSE put
    IN  /\ store' = Resolve(kept)
        /\ logged' = Log(IF frozen THEN LogFreeze(log, put) ELSE log,
                         Rewritten(kept))
        /\ plan' = PlanOf(kept)
        /\ brought' = {o.id : o \in batch}
        /\ resolved' = TRUE

\* At most two obligations in a batch, of different ids.
Batches ==
    {{}} \cup {b \in {{o, p} : o, p \in Incoming} :
                 \A o, p \in b : o.id = p.id => o = p}

Next ==
    \/ \E o \in Incoming : ScheduleObligation(o)
    \/ ResolveCollisions
    \/ FreezeCaseObligations
    \/ \E b \in Batches, frozen \in BOOLEAN : ScheduleCaseObligations(b, frozen)

Spec == Init /\ [][Next]_vars

-----------------------------------------------------------------------------
(* Properties.                                                             *)

Pending == {o \in store : o.status = "PENDING"}

\* The type invariant: an id names one obligation.
TypeOK ==
    /\ store \subseteq Obligation
    /\ \A o, p \in store : o.id = p.id => o = p
    /\ logged \in [Ids -> Statuses \cup {None}]
    /\ plan.scheduled \subseteq Obligation
    /\ plan.collisions \subseteq Obligation
    /\ brought \subseteq Ids
    /\ resolved \in BOOLEAN

\* Once collisions are resolved one obligation of a time is pending at most: no
\* mandatory one yields to an optional one, nor one type to a lower one.  One
\* that is subordinate to a rival still active names a pending obligation of
\* its own time.
WinnersPrevail ==
    resolved =>
        \A o \in store :
            /\ o.status = "PENDING" =>
                  \A p \in Rivals(store, o) :
                      /\ p.status # "PENDING"
                      /\ p.mandatory => o.mandatory
                      /\ p.mandatory = o.mandatory => o.rank <= p.rank
            /\ o.status = "COLLISION_RESOLVED" /\ Rivals(store, o) # {} =>
                  \E p \in Pending : p.id = o.reason /\ p.time = o.time

\* Resolving collisions again changes nothing, whatever sequence of calls led
\* to the obligations: the second plan is the first.
ResolutionIsStable ==
    /\ Resolve(Resolve(store)) = Resolve(store)
    /\ PlanOf(Resolve(store)) = PlanOf(store)

\* The audit trail of an obligation ends in the status it has.
AuditFollowsStatus ==
    \A o \in store : logged[o.id] = o.status

\* No mandatory obligation is ever frozen or lost: a step that does not bring
\* a new version of an obligation keeps what it says, and its status too when
\* it is settled.
ObligationsKept ==
    [][\A o \in store :
          \/ o.id \in brought'
          \/ \E p \in store' :
                /\ p.id = o.id /\ p.time = o.time
                /\ p.mandatory = o.mandatory /\ p.rank = o.rank
                /\ o.status \notin Active => p.status = o.status
                /\ p.status = "FROZEN" /\ o.status # "FROZEN" =>
                      ~o.mandatory /\ o.status = "PENDING"]_vars

\* Mandatory obligations are not discarded: one that a plan lists as
\* scheduled is pending, so that get_pending_obligations returns it.
MandatoryStaysPending ==
    \A o \in plan.scheduled : o.mandatory => o.status = "PENDING"

=============================================================================
