--------------------- MODULE ComplianceSchedulerProofs ----------------------
(***************************************************************************)
(* What the scheduler keeps for any obligations, handed in in any order.   *)
(*                                                                         *)
(* The sort key orders the obligations of a time strictly (Trichotomy),    *)
(* so each collision has one dominant obligation (DominantFirst).          *)
(* Resolving keeps what the key is made of and which obligations are       *)
(* active (SettleKeeps), hence it leaves the same winners when it is done  *)
(* again (Idempotent): the properties follow from store being its fixed    *)
(* point.                                                                  *)
(***************************************************************************)
EXTENDS ComplianceScheduler, TLAPS, WellFoundedInduction

\* A list of obligations in which an id occurs once.
Keyed(s) ==
    /\ s \subseteq Obligation
    /\ \A o, p \in s : o.id = p.id => o = p

\* What the scheduler never changes of an obligation.
Same(o, p) ==
    /\ p.id = o.id /\ p.time = o.time
    /\ p.mandatory = o.mandatory /\ p.rank = o.rank

-----------------------------------------------------------------------------
(* The sort key.                                                           *)

LEMMA Smallest ==
    ASSUME NEW T \in SUBSET Nat, T # {}
    PROVE  \E m \in T : \A n \in T : m <= n
<1>. DEFINE Less == {p \in Nat \X Nat : p[1] < p[2]}
<1>1. IsWellFoundedOn(Less, Nat)
  BY NatLessThanWellFounded DEF OpToRel
<1>2. \E m \in T : \A n \in T : ~(<<n, m>> \in Less)
  BY <1>1, WFMin
<1>3. \A m, n \in T : ~(<<n, m>> \in Less) => m <= n
  OBVIOUS
<1>. QED  BY <1>2, <1>3

LEMMA KeyType ==
    ASSUME NEW o \in Obligation
    PROVE  o.id \in Nat /\ o.rank \in Nat /\ o.mandatory \in BOOLEAN
<1>1. o.id \in Ids /\ o.rank \in 1..4 /\ o.mandatory \in BOOLEAN
  BY DEF Obligation, Ranks
<1>2. o.id \in Nat
  BY <1>1, SchedulerAssumption
<1>3. \A n \in 1..4 : n \in Nat
  OBVIOUS
<1>. QED  BY <1>1, <1>2, <1>3

\* The key by cases of what is mandatory.
LEMMA KeyCases ==
    ASSUME NEW a \in Obligation, NEW b \in Obligation
    PROVE  /\ a.mandatory /\ ~b.mandatory => Precedes(a, b)
           /\ ~a.mandatory /\ b.mandatory => ~Precedes(a, b)
           /\ (a.mandatory <=> b.mandatory) =>
                 (Precedes(a, b) <=> \/ a.rank < b.rank
                                     \/ a.rank = b.rank /\ a.id < b.id)
<1>1. a.mandatory \in BOOLEAN /\ b.mandatory \in BOOLEAN
  BY KeyType
<1>2. (a.mandatory <=> b.mandatory) <=> (a.mandatory = b.mandatory)
  BY <1>1, Zenon
<1>. QED  BY <1>2, Zenon DEF Precedes

LEMMA Trichotomy ==
    ASSUME NEW a \in Obligation, NEW b \in Obligation
    PROVE  /\ a.id # b.id => Precedes(a, b) \/ Precedes(b, a)
           /\ ~(Precedes(a, b) /\ Precedes(b, a))
BY KeyType, KeyCases

LEMMA Transitive ==
    ASSUME NEW a \in Obligation, NEW b \in Obligation, NEW c \in Obligation,
           Precedes(a, b), Precedes(b, c)
    PROVE  Precedes(a, c)
BY KeyType, KeyCases

\* Obligations of which one is mandatory if any is have a first: the one of
\* the smallest id among those of the smallest rank.
LEMMA FirstOfAKind ==
    ASSUME NEW s, Keyed(s), s # {},
           \A a, b \in s : a.mandatory <=> b.mandatory
    PROVE  \E p \in s : \A q \in s : p = q \/ Precedes(p, q)
<1>1. PICK r \in Nat : (\E o \in s : o.rank = r) /\ \A o \in s : r <= o.rank
  <2>. DEFINE ranks == {o.rank : o \in s}
  <2>1. ranks \in SUBSET Nat /\ ranks # {}
    BY KeyType DEF Keyed
  <2>2. \E m \in ranks : \A n \in ranks : m <= n
    <3>. HIDE DEF ranks
    <3>. QED  BY <2>1, Smallest
  <2>. QED  BY <2>1, <2>2
<1>2. PICK p \in s : /\ p.rank = r
                     /\ \A o \in s : o.rank = r => p.id <= o.id
  <2>. DEFINE ids == {o.id : o \in {a \in s : a.rank = r}}
  <2>1. ids \in SUBSET Nat /\ ids # {}
    BY <1>1, KeyType DEF Keyed
  <2>2. \E m \in ids : \A n \in ids : m <= n
    <3>. HIDE DEF ids
    <3>. QED  BY <2>1, Smallest
  <2>. QED  BY <2>1, <2>2
<1>3. ASSUME NEW q \in s, q # p PROVE Precedes(p, q)
  <2>1. /\ p \in Obligation /\ q \in Obligation
        /\ p.id # q.id
    BY <1>3 DEF Keyed
  <2>2. /\ p.id \in Nat /\ p.rank \in Nat
        /\ q.id \in Nat /\ q.rank \in Nat
    BY <2>1, KeyType
  <2>3. p.rank < q.rank \/ (p.rank = q.rank /\ p.id < q.id)
    BY <1>1, <1>2, <2>1, <2>2
  <2>4. p.mandatory <=> q.mandatory
    OBVIOUS
  <2>. QED  BY <2>1, <2>3, <2>4, KeyCases
<1>. QED  BY <1>3

LEMMA First ==
    ASSUME NEW s, Keyed(s), s # {}
    PROVE  \E p \in s : \A q \in s : p = q \/ Precedes(p, q)
<1>. DEFINE must == {o \in s : o.mandatory}
<1>2. CASE must = {}
  <2>1. \A a, b \in s : a.mandatory <=> b.mandatory
    BY <1>2
  <2>. QED  BY <2>1, FirstOfAKind
<1>3. CASE must # {}
  <2>1. Keyed(must) /\ \A a, b \in must : a.mandatory <=> b.mandatory
    BY DEF Keyed
  <2>2. PICK p \in must : \A q \in must : p = q \/ Precedes(p, q)
    BY <1>3, <2>1, FirstOfAKind
  <2>3. \A q \in s \ must : Precedes(p, q)
    BY KeyCases DEF Keyed
  <2>. QED  BY <2>2, <2>3
<1>. QED  BY <1>2, <1>3

-----------------------------------------------------------------------------
(* Resolving.                                                              *)

\* A collision has one dominant obligation, which exists.
LEMMA DominantFirst ==
    ASSUME NEW s, Keyed(s), NEW o \in s, Rivals(s, o) # {}
    PROVE  /\ Dominant(s, o) \in Rivals(s, o)
           /\ \A q \in Rivals(s, o) :
                 Dominant(s, o) = q \/ Precedes(Dominant(s, o), q)
<1>1. Keyed(Rivals(s, o))
  BY DEF Keyed, Rivals
<1>2. \E p \in Rivals(s, o) :
         \A q \in Rivals(s, o) : p = q \/ Precedes(p, q)
  BY <1>1, First
<1>. QED  BY <1>2 DEF Dominant

LEMMA SettleCases ==
    ASSUME NEW s, NEW o
    PROVE  /\ Loses(s, o) =>
                 Settle(s, o) = [o EXCEPT !.status = "COLLISION_RESOLVED",
                                          !.reason = Dominant(s, o).id]
           /\ Promoted(s, o) =>
                 Settle(s, o) = [o EXCEPT !.status = "PENDING",
                                          !.reason = None]
           /\ ~Loses(s, o) /\ ~Promoted(s, o) => Settle(s, o) = o
<1>1. ~(Loses(s, o) /\ Promoted(s, o))
  BY DEF Promoted
<1>. HIDE DEF Loses, Promoted, Dominant
<1>2. CASE Loses(s, o)
  BY <1>1, <1>2, Zenon DEF Settle
<1>3. CASE ~Loses(s, o)
  BY <1>3 DEF Settle
<1>. QED  BY <1>1, <1>2, <1>3

\* Settling keeps the key, the time and whether an obligation is active, and
\* leaves alone what is not.
LEMMA SettleKeeps ==
    ASSUME NEW s, Keyed(s), NEW o \in s
    PROVE  /\ Settle(s, o) \in Obligation
           /\ Same(o, Settle(s, o))
           /\ Settle(s, o).status \in Active <=> o.status \in Active
           /\ o.status \notin Active => Settle(s, o) = o
           /\ Loses(s, o) => Settle(s, o).status = "COLLISION_RESOLVED"
           /\ Promoted(s, o) => Settle(s, o).status = "PENDING"
           /\ ~Loses(s, o) /\ ~Promoted(s, o) => Settle(s, o) = o
<1>1. o \in Obligation
  BY DEF Keyed
<1>2. CASE Loses(s, o)
  <2>. DEFINE d == Dominant(s, o)
  <2>1. d.id \in Ids
    <3>1. Rivals(s, o) # {}
      BY <1>2 DEF Loses
    <3>2. d \in Obligation
      BY <3>1, DominantFirst DEF Rivals, Keyed
    <3>. QED  BY <3>2 DEF Obligation
  <2>2. Settle(s, o) = [o EXCEPT !.status = "COLLISION_RESOLVED",
                                 !.reason = d.id]
    BY <1>2, SettleCases
  <2>3. o.status \in Active
    BY <1>2 DEF Loses
  <2>4. ~Promoted(s, o)
    BY <1>2 DEF Promoted
  <2>. HIDE DEF d
  <2>. QED
    BY <1>1, <1>2, <2>1, <2>2, <2>3, <2>4
       DEF Obligation, Same, Statuses, Active
<1>3. CASE Promoted(s, o)
  <2>1. /\ ~Loses(s, o)
        /\ o.status \in Active
    BY <1>3 DEF Promoted, Active
  <2>2. Settle(s, o) = [o EXCEPT !.status = "PENDING", !.reason = None]
    BY <1>3, SettleCases
  <2>. QED
    BY <1>1, <1>3, <2>1, <2>2 DEF Obligation, Same, Statuses, Active
<1>4. CASE ~Loses(s, o) /\ ~Promoted(s, o)
  <2>1. Settle(s, o) = o
    BY <1>4, SettleCases
  <2>. QED  BY <1>1, <1>4, <2>1 DEF Same
<1>. QED  BY <1>2, <1>3, <1>4

LEMMA ResolveKeyed ==
    ASSUME NEW s, Keyed(s)
    PROVE  Keyed(Resolve(s))
BY SettleKeeps DEF Keyed, Resolve, Same

\* The key alone decides who precedes whom.
LEMMA SamePrecedes ==
    ASSUME NEW a, NEW b, NEW c, NEW d, Same(a, c), Same(b, d)
    PROVE  Precedes(c, d) = Precedes(a, b)
BY DEF Same, Precedes

\* The rivals of an obligation are the same ones after resolving, and so are
\* the winners.
LEMMA SameRivals ==
    ASSUME NEW s, Keyed(s), NEW o \in s
    PROVE  /\ Rivals(Resolve(s), Settle(s, o))
                 = {Settle(s, p) : p \in Rivals(s, o)}
           /\ Loses(Resolve(s), Settle(s, o)) <=> Loses(s, o)
<1>1. \A p \in s : Settle(s, p) \in Rivals(Resolve(s), Settle(s, o))
                      <=> p \in Rivals(s, o)
  BY SettleKeeps DEF Rivals, Resolve, Same
<1>2. Rivals(Resolve(s), Settle(s, o)) = {Settle(s, p) : p \in Rivals(s, o)}
  BY <1>1 DEF Rivals, Resolve
<1>3. \A p \in Rivals(s, o) :
         Precedes(Settle(s, p), Settle(s, o)) = Precedes(p, o)
  BY SettleKeeps, SamePrecedes DEF Rivals
<1>4. Settle(s, o).status \in Active <=> o.status \in Active
  BY SettleKeeps
<1>. QED  BY <1>2, <1>3, <1>4 DEF Loses

LEMMA SameDominant ==
    ASSUME NEW s, Keyed(s), NEW o \in s, Loses(s, o)
    PROVE  Dominant(Resolve(s), Settle(s, o)).id = Dominant(s, o).id
<1>. DEFINE r == Resolve(s)
            x == Settle(s, o)
            d == Dominant(s, o)
            e == Dominant(r, x)
<1>1. Keyed(r) /\ x \in r
  BY ResolveKeyed DEF Resolve
<1>2. Rivals(s, o) # {}
  BY DEF Loses
<1>3. Rivals(r, x) = {Settle(s, p) : p \in Rivals(s, o)}
  BY SameRivals
<1>4. /\ d \in Rivals(s, o)
      /\ \A q \in Rivals(s, o) : d = q \/ Precedes(d, q)
  BY <1>2, DominantFirst
<1>5. /\ e \in Rivals(r, x)
      /\ \A q \in Rivals(r, x) : e = q \/ Precedes(e, q)
  BY <1>1, <1>2, <1>3, DominantFirst
<1>6. PICK f \in Rivals(s, o) : e = Settle(s, f)
  BY <1>3, <1>5
<1>7. d \in s /\ f \in s
  BY <1>4, <1>6 DEF Rivals
<1>8. Settle(s, d) \in Rivals(r, x)
  BY <1>3, <1>4
<1>9. Same(d, Settle(s, d)) /\ Same(f, e)
  BY <1>6, <1>7, SettleKeeps
<1>10. e = Settle(s, d) \/ Precedes(e, Settle(s, d))
  BY <1>5, <1>8
<1>11. d = f \/ Precedes(d, f)
  BY <1>4, <1>6
<1>12. CASE e = Settle(s, d)
  BY <1>9, <1>12 DEF Same
<1>13. CASE Precedes(e, Settle(s, d)) /\ Precedes(d, f)
  <2>1. Precedes(f, d)
    BY <1>9, <1>13, SamePrecedes
  <2>. QED  BY <1>7, <1>13, <2>1, Trichotomy DEF Keyed
<1>14. CASE d = f
  BY <1>6, <1>9, <1>14 DEF Same
<1>. QED  BY <1>10, <1>11, <1>12, <1>13, <1>14

\* An obligation that was settled stays as it is.
LEMMA SettledStays ==
    ASSUME NEW s, Keyed(s), NEW o \in s
    PROVE  Settle(Resolve(s), Settle(s, o)) = Settle(s, o)
<1>. DEFINE r == Resolve(s)
            x == Settle(s, o)
<1>1. Keyed(r) /\ x \in r
  BY ResolveKeyed DEF Resolve
<1>2. Loses(r, x) <=> Loses(s, o)
  BY SameRivals
<1>3. CASE Loses(s, o)
  <2>1. x = [o EXCEPT !.status = "COLLISION_RESOLVED",
                      !.reason = Dominant(s, o).id]
    BY <1>3, SettleCases
  <2>2. Settle(r, x) = [x EXCEPT !.status = "COLLISION_RESOLVED",
                                 !.reason = Dominant(s, o).id]
    <3>1. Loses(r, x) /\ Dominant(r, x).id = Dominant(s, o).id
      BY <1>2, <1>3, SameDominant
    <3>. HIDE DEF r, x
    <3>2. Settle(r, x) = [x EXCEPT !.status = "COLLISION_RESOLVED",
                                   !.reason = Dominant(r, x).id]
      BY <3>1, SettleCases
    <3>. QED  BY <3>1, <3>2, Zenon
  <2>3. o \in Obligation
    BY DEF Keyed
  <2>. QED  BY <2>1, <2>2, <2>3 DEF Obligation
<1>4. CASE ~Loses(s, o)
  <2>1. ~Promoted(r, x)
    <3>1. SUFFICES ASSUME Promoted(r, x) PROVE FALSE
      OBVIOUS
    <3>2. x.status = "COLLISION_RESOLVED" /\ Rivals(r, x) # {}
      BY <3>1 DEF Promoted
    <3>3. Rivals(s, o) # {}
      BY <3>2, SameRivals
    <3>4. ~Promoted(s, o)
      BY <3>2, SettleKeeps
    <3>5. x = o
      BY <1>4, <3>4, SettleKeeps
    <3>. QED  BY <1>4, <3>2, <3>3, <3>4, <3>5 DEF Promoted
  <2>. QED  BY <1>1, <1>2, <1>4, <2>1, SettleKeeps
<1>. QED  BY <1>3, <1>4

LEMMA Idempotent ==
    ASSUME NEW s, Keyed(s)
    PROVE  /\ Resolve(Resolve(s)) = Resolve(s)
           /\ PlanOf(Resolve(s)) = PlanOf(s)
<1>. DEFINE r == Resolve(s)
            Wins(u) == {a \in {b \in u : b.status \in Active} : ~Loses(u, a)}
            Lost(u) == {a \in {b \in u : b.status \in Active} : Loses(u, a)}
<1>1. r = {Settle(s, o) : o \in s}
  BY DEF Resolve
<1>2. \A x \in r : Settle(r, x) = x
  BY <1>1, SettledStays
<1>3. /\ Wins(r) = {Settle(s, o) : o \in Wins(s)}
      /\ Lost(r) = {Settle(s, o) : o \in Lost(s)}
  <2>1. \A o \in s : Settle(s, o).status \in Active <=> o.status \in Active
    BY SettleKeeps
  <2>2. \A o \in s : Loses(r, Settle(s, o)) <=> Loses(s, o)
    BY SameRivals
  <2>. HIDE DEF r
  <2>. QED  BY <1>1, <2>1, <2>2
<1>4. \A A \in SUBSET r : {Settle(r, x) : x \in A} = A
  <2>. HIDE DEF r
  <2>. QED  BY <1>2
<1>5. Resolve(r) = r
  BY <1>4 DEF Resolve
<1>6. PlanOf(r) = PlanOf(s)
  <2>1. \A u : PlanOf(u) = [scheduled  |-> {Settle(u, o) : o \in Wins(u)},
                            collisions |-> {Settle(u, o) : o \in Lost(u)}]
    BY DEF PlanOf
  <2>2. Wins(r) \in SUBSET r /\ Lost(r) \in SUBSET r
    OBVIOUS
  <2>3. /\ {Settle(r, x) : x \in Wins(r)} = {Settle(s, o) : o \in Wins(s)}
        /\ {Settle(r, x) : x \in Lost(r)} = {Settle(s, o) : o \in Lost(s)}
    BY <1>3, <1>4, <2>2
  <2>. HIDE DEF r, Wins, Lost
  <2>. QED  BY <2>1, <2>3
<1>. QED  BY <1>5, <1>6

-----------------------------------------------------------------------------
(* The other methods, and what each logs.                                  *)

Logs == [Ids -> Statuses \cup {None}]

\* The audit trail of each obligation of s ends in its status.
Audited(log, s) == \A o \in s : log[o.id] = o.status

LEMMA PutKeyed ==
    ASSUME NEW s, Keyed(s), NEW batch, Keyed(batch)
    PROVE  /\ Keyed(Put(s, batch))
           /\ \A o \in Put(s, batch) :
                 \/ o \in batch
                 \/ o \in s /\ \A b \in batch : b.id # o.id
BY DEF Keyed, Put

LEMMA FrozenKeeps ==
    ASSUME NEW o \in Obligation
    PROVE  /\ Frozen(o) \in Obligation /\ Same(o, Frozen(o))
           /\ Frozen(o).status = "FROZEN"
BY DEF Frozen, Obligation, Same, Statuses, Active

LEMMA FreezeKeyed ==
    ASSUME NEW s, Keyed(s)
    PROVE  Keyed(Freeze(s))
<1>1. \A o \in s : /\ Frozen(o) \in Obligation
                   /\ Frozen(o).id = o.id
  BY FrozenKeeps DEF Keyed, Same
<1>. QED  BY <1>1 DEF Keyed, Freeze

\* What is written is logged, and the log of the rest is kept.
LEMMA LogWritten ==
    ASSUME NEW log \in Logs, NEW written, Keyed(written)
    PROVE  /\ Log(log, written) \in Logs
           /\ \A o \in written : Log(log, written)[o.id] = o.status
           /\ \A i \in Ids : (\A o \in written : o.id # i) =>
                 Log(log, written)[i] = log[i]
<1>. DEFINE At(i) == CHOOSE o \in written : o.id = i
<1>1. \A i \in Ids : (\E o \in written : o.id = i) =>
         At(i) \in written /\ At(i).id = i
  OBVIOUS
<1>2. \A o \in written : o.id \in Ids /\ o.status \in Statuses
  BY DEF Keyed, Obligation
<1>3. \A o \in written : At(o.id) = o
  BY <1>1, <1>2 DEF Keyed
<1>4. Log(log, written) = [i \in Ids |-> IF \E o \in written : o.id = i
                                         THEN At(i).status ELSE log[i]]
  BY DEF Log
<1>. HIDE DEF At
<1>5. Log(log, written) \in Logs
  BY <1>1, <1>2, <1>4 DEF Logs
<1>6. \A o \in written : Log(log, written)[o.id] = o.status
  BY <1>2, <1>3, <1>4
<1>7. \A i \in Ids : (\A o \in written : o.id # i) =>
         Log(log, written)[i] = log[i]
  BY <1>4
<1>. QED  BY <1>5, <1>6, <1>7

\* The log follows when what changes is written: s becomes r.
LEMMA LogFollows ==
    ASSUME NEW log \in Logs, NEW s, Keyed(s), Audited(log, s),
           NEW r, Keyed(r), NEW written, Keyed(written),
           \A o \in r : \/ o \in written
                        \/ o \in s /\ \A b \in written : b.id # o.id
    PROVE  Log(log, written) \in Logs /\ Audited(Log(log, written), r)
<1>1. \A o \in r : o.id \in Ids
  BY DEF Keyed, Obligation
<1>2. Log(log, written) \in Logs
  BY LogWritten
<1>3. ASSUME NEW o \in r PROVE Log(log, written)[o.id] = o.status
  <2>1. CASE o \in written
    BY <2>1, LogWritten
  <2>2. CASE o \in s /\ \A b \in written : b.id # o.id
    <3>1. o.id \in Ids /\ \A b \in written : b.id # o.id
      BY <1>1, <2>2
    <3>2. Log(log, written)[o.id] = log[o.id]
      <4>1. \A i \in Ids : (\A b \in written : b.id # i) =>
               Log(log, written)[i] = log[i]
        BY LogWritten
      <4>. QED  BY <3>1, <4>1
    <3>. QED  BY <2>2, <3>2 DEF Audited
  <2>. QED  BY <2>1, <2>2
<1>. QED  BY <1>2, <1>3 DEF Audited

LEMMA PutAudited ==
    ASSUME NEW log \in Logs, NEW s, Keyed(s), Audited(log, s),
           NEW batch, Keyed(batch)
    PROVE  Log(log, batch) \in Logs /\ Audited(Log(log, batch), Put(s, batch))
BY PutKeyed, LogFollows

LEMMA FreezeAudited ==
    ASSUME NEW log \in Logs, NEW s, Keyed(s), Audited(log, s)
    PROVE  LogFreeze(log, s) \in Logs /\ Audited(LogFreeze(log, s), Freeze(s))
<1>. DEFINE written == {Frozen(o) : o \in {a \in s : Freezes(a)}}
<1>1. \A o \in s : Frozen(o) \in Obligation /\ Frozen(o).id = o.id
  BY FrozenKeeps DEF Keyed, Same
<1>2. Keyed(written)
  BY <1>1 DEF Keyed
<1>3. \A o \in Freeze(s) : \/ o \in written
                           \/ o \in s /\ \A b \in written : b.id # o.id
  BY <1>1 DEF Keyed, Freeze
<1>. HIDE DEF written
<1>4. Log(log, written) \in Logs /\ Audited(Log(log, written), Freeze(s))
  BY <1>2, <1>3, FreezeKeyed, LogFollows
<1>. QED  BY <1>4 DEF LogFreeze, written

LEMMA ResolveAudited ==
    ASSUME NEW log \in Logs, NEW s, Keyed(s), Audited(log, s)
    PROVE  /\ Log(log, Rewritten(s)) \in Logs
           /\ Audited(Log(log, Rewritten(s)), Resolve(s))
<1>1. \A o \in s : Settle(s, o) \in Obligation /\ Settle(s, o).id = o.id
  BY SettleKeeps DEF Same
<1>2. Keyed(Rewritten(s))
  BY <1>1 DEF Keyed, Rewritten
<1>3. \A o \in Resolve(s) :
         \/ o \in Rewritten(s)
         \/ o \in s /\ \A b \in Rewritten(s) : b.id # o.id
  <2>. SUFFICES ASSUME NEW o \in s, Settle(s, o) \notin Rewritten(s)
                PROVE  /\ Settle(s, o) \in s
                       /\ \A b \in Rewritten(s) : b.id # Settle(s, o).id
    BY DEF Resolve
  <2>1. ~Loses(s, o) /\ ~Promoted(s, o)
    BY DEF Rewritten
  <2>2. Settle(s, o) = o
    BY <2>1, SettleKeeps
  <2>3. \A a \in s : Loses(s, a) \/ Promoted(s, a) => a.id # o.id
    BY <2>1 DEF Keyed
  <2>. QED  BY <1>1, <2>2, <2>3 DEF Rewritten
<1>. QED  BY <1>2, <1>3, ResolveKeyed, LogFollows

-----------------------------------------------------------------------------
(* The invariant.                                                          *)

\* When collisions are resolved, resolving changes nothing.
FixedInv == resolved => Resolve(store) = store

IndInv == TypeOK /\ FixedInv /\ AuditFollowsStatus

LEMMA TypeFacts ==
    TypeOK <=> /\ Keyed(store) /\ logged \in Logs
               /\ plan.scheduled \subseteq Obligation
               /\ plan.collisions \subseteq Obligation
               /\ brought \subseteq Ids
               /\ resolved \in BOOLEAN
BY DEF TypeOK, Keyed, Logs

LEMMA PlanType ==
    ASSUME NEW s, Keyed(s)
    PROVE  /\ PlanOf(s).scheduled \subseteq Obligation
           /\ PlanOf(s).collisions \subseteq Obligation
BY SettleKeeps DEF PlanOf

LEMMA BatchKeyed ==
    /\ \A o \in Incoming : Keyed({o})
    /\ \A b \in Batches : Keyed(b)
BY SchedulerAssumption DEF Batches, Keyed

\* The store, the log and the plan of a call that resolves s.
LEMMA Resolving ==
    ASSUME NEW s, Keyed(s), NEW log \in Logs, Audited(log, s),
           store' = Resolve(s), logged' = Log(log, Rewritten(s)),
           plan' = PlanOf(s), brought' \subseteq Ids,
           resolved' = TRUE
    PROVE  IndInv'
<1>1. Keyed(store') /\ Resolve(store') = store'
  BY ResolveKeyed, Idempotent
<1>2. logged' \in Logs /\ Audited(logged', store')
  BY ResolveAudited
<1>3. TypeOK'
  <2>1. /\ plan'.scheduled \subseteq Obligation
        /\ plan'.collisions \subseteq Obligation
    BY PlanType
  <2>. QED  BY <1>1, <1>2, <2>1 DEF TypeOK, Keyed, Logs
<1>. QED  BY <1>1, <1>2, <1>3 DEF IndInv, FixedInv, AuditFollowsStatus, Audited

\* The same of a call that does not.
LEMMA NotResolving ==
    ASSUME Keyed(store'), logged' \in Logs, Audited(logged', store'),
           plan' = NoPlan, brought' \subseteq Ids,
           resolved' = FALSE
    PROVE  IndInv'
BY DEF IndInv, TypeOK, FixedInv, AuditFollowsStatus, Audited, Keyed, Logs,
       NoPlan

LEMMA Step ==
    ASSUME IndInv, [Next]_vars
    PROVE  IndInv'
<1>1. Keyed(store) /\ logged \in Logs /\ Audited(logged, store)
  BY TypeFacts DEF IndInv, AuditFollowsStatus, Audited
<1>2. ASSUME NEW o \in Incoming, ScheduleObligation(o) PROVE IndInv'
  <2>1. Keyed({o}) /\ o.id \in Ids
    BY BatchKeyed DEF Ids
  <2>. QED
    BY <1>1, <1>2, <2>1, PutKeyed, PutAudited, NotResolving
       DEF ScheduleObligation
<1>3. ASSUME ResolveCollisions PROVE IndInv'
  BY <1>1, <1>3, Resolving DEF ResolveCollisions
<1>4. ASSUME FreezeCaseObligations PROVE IndInv'
  BY <1>1, <1>4, FreezeKeyed, FreezeAudited, NotResolving
     DEF FreezeCaseObligations
<1>5. ASSUME NEW b \in Batches, NEW frozen \in BOOLEAN,
             ScheduleCaseObligations(b, frozen)
      PROVE  IndInv'
  <2>. DEFINE put  == Put(store, b)
              log  == Log(logged, b)
              kept == IF frozen THEN Freeze(put) ELSE put
              then == IF frozen THEN LogFreeze(log, put) ELSE log
  <2>1. Keyed(b)
    BY BatchKeyed
  <2>2. Keyed(put) /\ log \in Logs /\ Audited(log, put)
    BY <1>1, <2>1, PutKeyed, PutAudited
  <2>3. Keyed(kept) /\ then \in Logs /\ Audited(then, kept)
    <3>. HIDE DEF put, log
    <3>. QED  BY <2>2, FreezeKeyed, FreezeAudited
  <2>4. brought' \subseteq Ids
    BY <1>5, <2>1 DEF ScheduleCaseObligations, Keyed, Obligation
  <2>5. /\ store' = Resolve(kept) /\ logged' = Log(then, Rewritten(kept))
        /\ plan' = PlanOf(kept) /\ resolved' = TRUE
    BY <1>5 DEF ScheduleCaseObligations
  <2>. HIDE DEF kept, then
  <2>. QED  BY <2>3, <2>4, <2>5, Resolving
<1>6. CASE UNCHANGED vars
  BY <1>6 DEF vars, IndInv, TypeOK, FixedInv, AuditFollowsStatus
<1>. QED  BY <1>2, <1>3, <1>4, <1>5, <1>6 DEF Next

LEMMA Inductive == Spec => []IndInv
<1>1. Init => IndInv
  <2>. SUFFICES ASSUME Init PROVE IndInv
    OBVIOUS
  <2>1. TypeOK
    BY DEF Init, TypeOK, NoPlan
  <2>2. FixedInv /\ AuditFollowsStatus
    BY DEF Init, FixedInv, AuditFollowsStatus
  <2>. QED  BY <2>1, <2>2 DEF IndInv
<1>2. IndInv /\ [Next]_vars => IndInv'
  BY Step
<1>. QED  BY <1>1, <1>2, PTL DEF Spec

-----------------------------------------------------------------------------
(* The theorems.                                                           *)

\* The type invariant: an id names one obligation, and the rival that an
\* obligation is subordinate to exists.
THEOREM TypeCorrect == Spec => []TypeOK
<1>1. IndInv => TypeOK
  BY DEF IndInv
<1>. QED  BY <1>1, Inductive, PTL

\* The audit trail of every obligation ends in its status.
THEOREM AuditFollows == Spec => []AuditFollowsStatus
<1>1. IndInv => AuditFollowsStatus
  BY DEF IndInv
<1>. QED  BY <1>1, Inductive, PTL

\* Resolving again changes neither obligations nor plan, whatever was called
\* before.
THEOREM StableResolution == Spec => []ResolutionIsStable
<1>1. IndInv => ResolutionIsStable
  BY TypeFacts, Idempotent DEF IndInv, ResolutionIsStable
<1>. QED  BY <1>1, Inductive, PTL

\* Of the obligations of a time at most one is pending when collisions are
\* resolved, and nothing that should prevail yields to it.
THEOREM Prevail == Spec => []WinnersPrevail
<1>1. IndInv => WinnersPrevail
  <2>. SUFFICES ASSUME IndInv, resolved, NEW o \in store
                PROVE  /\ o.status = "PENDING" =>
                             \A p \in Rivals(store, o) :
                                 /\ p.status # "PENDING"
                                 /\ p.mandatory => o.mandatory
                                 /\ p.mandatory = o.mandatory =>
                                       o.rank <= p.rank
                       /\ o.status = "COLLISION_RESOLVED"
                             /\ Rivals(store, o) # {} =>
                             \E p \in Pending :
                                 p.id = o.reason /\ p.time = o.time
    BY DEF WinnersPrevail
  <2>1. Keyed(store) /\ Resolve(store) = store
    BY TypeFacts DEF IndInv, FixedInv
  \* Each obligation is what settling makes of it.
  <2>2. \A a \in store : Settle(store, a) = a
    <3>1. \A a \in store : Settle(store, a) \in store
      BY <2>1 DEF Resolve
    <3>2. \A a \in store : Settle(store, a).id = a.id
      BY <2>1, SettleKeeps DEF Same
    <3>. QED  BY <2>1, <3>1, <3>2 DEF Keyed
  <2>3. \A a \in store : /\ Loses(store, a) => a.status = "COLLISION_RESOLVED"
                         /\ ~Promoted(store, a)
    <3>1. \A a \in store :
             /\ Loses(store, a) => a.status = "COLLISION_RESOLVED"
             /\ Promoted(store, a) => a.status = "PENDING"
      BY <2>1, <2>2, SettleKeeps
    <3>. QED  BY <3>1 DEF Promoted
  <2>4. ASSUME o.status = "PENDING", NEW p \in Rivals(store, o)
        PROVE  /\ p.status # "PENDING"
               /\ p.mandatory => o.mandatory
               /\ p.mandatory = o.mandatory => o.rank <= p.rank
    <3>1. /\ p \in store /\ p.id # o.id /\ p.status \in Active
          /\ o \in Rivals(store, p)
      BY <2>4 DEF Rivals, Active
    <3>2. o \in Obligation /\ p \in Obligation
      BY <2>1, <3>1 DEF Keyed
    <3>3. ~Precedes(p, o)
      <4>1. ~Loses(store, o)
        BY <2>3, <2>4
      <4>. QED  BY <2>4, <4>1 DEF Loses, Active
    <3>4. Precedes(o, p)
      BY <3>1, <3>2, <3>3, Trichotomy
    <3>5. p.status # "PENDING"
      <4>1. Loses(store, p)
        BY <3>1, <3>4 DEF Loses
      <4>. QED  BY <2>3, <3>1, <4>1
    <3>6. p.mandatory => o.mandatory
      BY <3>2, <3>4, KeyCases
    <3>7. ASSUME p.mandatory = o.mandatory PROVE o.rank <= p.rank
      BY <3>2, <3>4, <3>7, KeyType, KeyCases
    <3>. QED  BY <3>5, <3>6, <3>7
  <2>5. ASSUME o.status = "COLLISION_RESOLVED", Rivals(store, o) # {}
        PROVE  \E p \in Pending : p.id = o.reason /\ p.time = o.time
    <3>. DEFINE d == Dominant(store, o)
    <3>1. Loses(store, o)
      <4>1. ~Promoted(store, o)
        BY <2>3
      <4>. QED  BY <2>5, <4>1 DEF Promoted
    <3>2. /\ d \in Rivals(store, o)
          /\ \A q \in Rivals(store, o) : d = q \/ Precedes(d, q)
      BY <2>1, <2>5, DominantFirst
    <3>. HIDE DEF d
    <3>3. d \in store /\ d.time = o.time /\ d.status \in Active /\ d.id # o.id
      BY <3>2 DEF Rivals
    <3>4. o \in Obligation /\ \A q \in store : q \in Obligation
      BY <2>1 DEF Keyed
    <3>5. Precedes(d, o)
      BY <3>1, <3>2, <3>3, <3>4, Transitive DEF Loses, Rivals
    <3>6. ~Loses(store, d)
      <4>. SUFFICES ASSUME NEW r \in Rivals(store, d) PROVE ~Precedes(r, d)
        BY DEF Loses
      <4>1. r = o \/ r \in Rivals(store, o)
        BY <2>1, <3>3 DEF Rivals, Keyed
      <4>2. r = o \/ Precedes(d, r)
        BY <3>2, <4>1 DEF Rivals
      <4>. QED  BY <3>3, <3>4, <3>5, <4>2, Trichotomy DEF Rivals
    <3>7. o \in Rivals(store, d)
      BY <2>5, <3>3 DEF Rivals, Active
    <3>8. d.status = "PENDING"
      <4>1. ~Promoted(store, d)
        BY <2>3, <3>3
      <4>2. Rivals(store, d) # {}
        BY <3>7
      <4>. QED  BY <3>3, <3>6, <4>1, <4>2 DEF Promoted, Active
    <3>9. d.id = o.reason
      <4>1. Settle(store, o) = [o EXCEPT !.status = "COLLISION_RESOLVED",
                                         !.reason = d.id]
        BY <3>1, SettleCases DEF d
      <4>2. o = [o EXCEPT !.status = "COLLISION_RESOLVED", !.reason = d.id]
        BY <2>2, <4>1
      <4>. QED  BY <3>4, <4>2 DEF Obligation
    <3>. QED  BY <3>3, <3>8, <3>9 DEF Pending
  <2>. QED  BY <2>4, <2>5
<1>. QED  BY <1>1, Inductive, PTL

\* p is what a call made of o: it says the same, keeps the status of what is
\* settled and freezes only what is optional and pending.
Kept(o, p) ==
    /\ Same(o, p)
    /\ o.status \notin Active => p.status = o.status
    /\ p.status = "FROZEN" /\ o.status # "FROZEN" =>
          ~o.mandatory /\ o.status = "PENDING"

KeptIn(o, s) == \E p \in s : Kept(o, p)

LEMMA FreezeKept ==
    ASSUME NEW s, Keyed(s), NEW o \in s
    PROVE  KeptIn(o, Freeze(s))
<1>1. o \in Obligation
  BY DEF Keyed
<1>2. CASE Freezes(o)
  <2>1. Frozen(o) \in Freeze(s)
    BY <1>2 DEF Freeze
  <2>2. Kept(o, Frozen(o))
    BY <1>1, <1>2, FrozenKeeps DEF Kept, Freezes, Active
  <2>. QED  BY <2>1, <2>2 DEF KeptIn
<1>3. CASE ~Freezes(o)
  <2>1. o \in Freeze(s)
    BY <1>3 DEF Freeze
  <2>2. Kept(o, o)
    BY DEF Kept, Same
  <2>. QED  BY <2>1, <2>2 DEF KeptIn
<1>. QED  BY <1>2, <1>3

\* Resolving keeps what a freeze left of o.
LEMMA ResolveKept ==
    ASSUME NEW s, Keyed(s), NEW o, KeptIn(o, s)
    PROVE  KeptIn(o, Resolve(s))
<1>. PICK q \in s : Kept(o, q)
  BY DEF KeptIn
<1>1. Settle(s, q) \in Resolve(s)
  BY DEF Resolve
<1>2. /\ Same(q, Settle(s, q))
      /\ Settle(s, q).status \in Active <=> q.status \in Active
      /\ q.status \notin Active => Settle(s, q) = q
  BY SettleKeeps
<1>3. Kept(o, Settle(s, q))
  BY <1>2 DEF Kept, Same, Active
<1>. QED  BY <1>1, <1>3 DEF KeptIn

\* No call loses an obligation, freezes a mandatory one or reopens one that
\* is settled, unless it brings a new version of it.
THEOREM NoneLost == Spec => ObligationsKept
<1>1. IndInv /\ [Next]_vars =>
         [\A o \in store :
             \/ o.id \in brought'
             \/ \E p \in store' :
                   /\ p.id = o.id /\ p.time = o.time
                   /\ p.mandatory = o.mandatory /\ p.rank = o.rank
                   /\ o.status \notin Active => p.status = o.status
                   /\ p.status = "FROZEN" /\ o.status # "FROZEN" =>
                         ~o.mandatory /\ o.status = "PENDING"]_vars
  <2>. SUFFICES ASSUME IndInv, Next, NEW o \in store, o.id \notin brought'
                PROVE  KeptIn(o, store')
    BY DEF Kept, KeptIn, Same
  <2>1. Keyed(store) /\ KeptIn(o, store)
    BY TypeFacts DEF IndInv, KeptIn, Kept, Same
  <2>2. ASSUME NEW i \in Incoming, ScheduleObligation(i)
        PROVE  KeptIn(o, store')
    <3>1. o \in store'
      BY <2>2 DEF ScheduleObligation, Put
    <3>. QED  BY <3>1 DEF KeptIn, Kept, Same
  <2>3. CASE ResolveCollisions
    BY <2>1, <2>3, ResolveKept DEF ResolveCollisions
  <2>4. CASE FreezeCaseObligations
    BY <2>1, <2>4, FreezeKept DEF FreezeCaseObligations
  <2>5. ASSUME NEW b \in Batches, NEW frozen \in BOOLEAN,
               ScheduleCaseObligations(b, frozen)
        PROVE  KeptIn(o, store')
    <3>. DEFINE put  == Put(store, b)
                kept == IF frozen THEN Freeze(put) ELSE put
    <3>1. o \in put /\ Keyed(put)
      BY <2>1, <2>5, BatchKeyed, PutKeyed DEF ScheduleCaseObligations, Put
    <3>2. Keyed(kept) /\ KeptIn(o, kept)
      <4>. HIDE DEF put
      <4>1. KeptIn(o, put)
        BY <3>1 DEF KeptIn, Kept, Same
      <4>. QED  BY <3>1, <4>1, FreezeKeyed, FreezeKept
    <3>3. store' = Resolve(kept)
      BY <2>5 DEF ScheduleCaseObligations
    <3>. HIDE DEF kept
    <3>. QED  BY <3>2, <3>3, ResolveKept
  <2>. QED  BY <2>2, <2>3, <2>4, <2>5 DEF Next
<1>. QED  BY <1>1, Inductive, PTL DEF Spec, ObligationsKept

=============================================================================
