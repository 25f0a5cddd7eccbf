------------------------ MODULE ActionExecutorProofs ------------------------
(***************************************************************************)
(* What ActionExecutor does for any number of threads, requests, tokens    *)
(* and switches and any values of the limits: its type invariant, the      *)
(* safety of the idempotency store, of the audit log and of the kill       *)
(* switch, what the governor enforces whatever times it is given, and that *)
(* it implements the at-most-once service.                                 *)
(*                                                                         *)
(* All but the window follow from one inductive invariant; the window has  *)
(* its own beside it (WindowInv).  The heart is LockInv: a call past gate  *)
(* 2 is the call of the thread that holds _execution_lock, so no two are   *)
(* past it.  The other parts say what such a call has found and done so    *)
(* far, and what that means for the store, the log and the switches.       *)
(***************************************************************************)
EXTENDS ActionExecutor, SafetyOpsProofs, TLAPS,
        FiniteSetTheorems, SequenceTheorems

USE DEF serviceVars, windowVars

\* A call is past gate 2 exactly if its thread holds the lock.
LockInv ==
    \A t \in Threads :
        /\ lock = t <=> pc[t] \in Gates \cup Sent
        /\ pc[t] # "idle" => request[t] \in Requests

\* What a call past gate 2 has found and done.
CallInv ==
    \A t \in Threads :
        LET k == request[t].key
        IN  /\ pc[t] \in Gates =>
                  store[k] = None /\ performed[k] = <<>>
            /\ pc[t] \in {"response", "record"} =>
                  store[k] = None /\ performed[k] = <<request[t]>>
            /\ pc[t] \in {"record", "audit"} => status[t] \in Outcomes
            /\ pc[t] = "audit" => store[k] = ResultOf(t)

\* What is in the store was performed, and what was performed is in the
\* store unless its call is still finishing.
StoreInv ==
    \A k \in Keys :
        /\ store[k] # None =>
              store[k].request.key = k /\ performed[k] = <<store[k].request>>
        /\ performed[k] # <<>> =>
              \/ store[k] # None
              \/ \E t \in Threads : /\ pc[t] \in {"response", "record"}
                                    /\ request[t].key = k

\* An answer agrees with the store.
AnswerInv ==
    \A a \in answered :
        LET result == store[a.request.key]
        IN  /\ result # None
            /\ result.request = a.request
            /\ result.outcome = a.outcome

\* The log has one entry for each result in the store but for the one whose
\* call is about to write it.
AuditInv ==
    /\ \A i, j \in DOMAIN audit : audit[i].key = audit[j].key => i = j
    /\ \A i \in DOMAIN audit :
          /\ store[audit[i].key] # None
          /\ \A t \in Threads :
                pc[t] = "audit" => request[t].key # audit[i].key
    /\ \A k \in Keys :
          store[k] # None =>
              \/ Audited(k)
              \/ \E t \in Threads : pc[t] = "audit" /\ request[t].key = k

\* Once a halted request has slipped through since the last activation, the
\* call that is past gate 3 is not halted.
SlipInv ==
    /\ slipped \in {0, 1}
    /\ slipped = 1 =>
          \A t \in Threads :
              pc[t] \in Gates \ {"switch"} => ~Halted(switches, request[t])

\* The inductive invariant.
IndInv ==
    /\ TypeOK
    /\ LockInv
    /\ CallInv
    /\ StoreInv
    /\ AnswerInv
    /\ AuditInv
    /\ SlipInv

-----------------------------------------------------------------------------
(* The initial states.                                                     *)

LEMMA InitIndInv == Init => IndInv
<1>. SUFFICES ASSUME Init PROVE IndInv
  OBVIOUS
<1>. USE DEF Init
<1>1. TypeOK
  BY NewBreakerType, EmptySeq DEF TypeOK, PCs
<1>2. LockInv
  BY ExecutorAssumption DEF LockInv, Gates, Sent
<1>3. CallInv
  BY DEF CallInv, Gates
<1>4. StoreInv /\ AnswerInv /\ AuditInv
  BY DEF StoreInv, AnswerInv, AuditInv
<1>5. SlipInv
  BY DEF SlipInv
<1>. QED  BY <1>1, <1>2, <1>3, <1>4, <1>5 DEF IndInv

-----------------------------------------------------------------------------
(* The type invariant.                                                     *)

\* The request of a call that is not idle, and its fields.
LEMMA RequestType ==
    ASSUME TypeOK, LockInv, NEW t \in Threads, pc[t] # "idle"
    PROVE  /\ request[t] \in Requests
           /\ request[t].key \in Keys
           /\ request[t].channel \in Channels
           /\ request[t].amount \in Nat
           /\ now[t] \in Nat
BY ExecutorAssumption DEF TypeOK, LockInv, Keys, Channels

\* Every step keeps the types.
LEMMA TypeStep == IndInv /\ [Next]_vars => TypeOK'
<1>. SUFFICES ASSUME IndInv, [Next]_vars PROVE TypeOK'
  OBVIOUS
<1>. USE DEF IndInv
<1>f. ASSUME NEW t \in Threads, Finish(t)
      PROVE  /\ pc' \in [Threads -> PCs]
             /\ request' \in [Threads -> Requests \cup {None}]
             /\ now' \in [Threads -> Nat]
             /\ status' \in [Threads -> Outcomes \cup {None}]
  BY <1>f DEF TypeOK, Finish, Goto, PCs
<1>l. ASSUME NEW t \in Threads, Leave(t)
      PROVE  /\ Finish(t)
             /\ lock' \in Threads \cup {None}
  BY <1>l DEF Leave
<1>1. ASSUME NEW t \in Threads, NEW r \in Requests, NEW k \in Tokens,
             Call(t, r, k)
      PROVE  TypeOK'
  BY <1>1 DEF TypeOK, Call, Goto, PCs, safetyVars, ghostVars
<1>2. ASSUME NEW t \in Threads, Enter(t) PROVE TypeOK'
  BY <1>2 DEF TypeOK, Enter, Goto, PCs, Gates, safetyVars, ghostVars
<1>3. ASSUME NEW t \in Threads, Replay(t) PROVE TypeOK'
  <2>1. store[request[t].key] \in Result /\ request[t] \in Requests
    BY <1>3, RequestType DEF Replay, TypeOK
  <2>2. answered' \subseteq [request : Requests, outcome : Outcomes]
    BY <1>3, <2>1 DEF Replay, TypeOK, Result
  <2>. QED  BY <1>3, <1>f, <2>2 DEF TypeOK, Replay, safetyVars
<1>4. ASSUME NEW t \in Threads, Conflict(t) PROVE TypeOK'
  BY <1>4, <1>f DEF TypeOK, Conflict, safetyVars, ghostVars
<1>5. ASSUME NEW t \in Threads, SwitchGate(t) PROVE TypeOK'
  <2>1. CASE Stopped(t)
    BY <1>5, <2>1, <1>l, <1>f DEF TypeOK, SwitchGate, safetyVars, ghostVars
  <2>2. CASE ~Stopped(t)
    BY <1>5, <2>2 DEF TypeOK, SwitchGate, Goto, PCs, Gates, safetyVars,
                      ghostVars
  <2>. QED  BY <2>1, <2>2
<1>6. ASSUME NEW t \in Threads, BreakerGate(t) PROVE TypeOK'
  <2>. DEFINE c == request[t].channel
  <2>1. c \in Channels /\ now[t] \in Nat
    BY <1>6, RequestType DEF BreakerGate
  <2>2. Admit(breakers[c], now[t]) \in Breaker
    BY <2>1, AdmitType DEF TypeOK
  <2>3. breakers' \in [Channels -> Breaker]
    BY <1>6, <2>1, <2>2 DEF BreakerGate, TypeOK
  <2>4. CASE Admits(breakers[c], now[t])
    BY <1>6, <2>3, <2>4 DEF TypeOK, BreakerGate, Goto, PCs, Gates, ghostVars
  <2>5. CASE ~Admits(breakers[c], now[t])
    BY <1>6, <2>3, <2>5, <1>l, <1>f DEF TypeOK, BreakerGate, ghostVars
  <2>. QED  BY <2>4, <2>5
<1>7. ASSUME NEW t \in Threads, NEW resolves \in BOOLEAN,
             EgressGate(t, resolves)
      PROVE  TypeOK'
  <2>1. CASE request[t].url \in SafeUrls /\ resolves
    BY <1>7, <2>1 DEF TypeOK, EgressGate, Goto, PCs, Gates, safetyVars,
                      ghostVars
  <2>2. CASE ~(request[t].url \in SafeUrls /\ resolves)
    BY <1>7, <2>2, <1>l, <1>f DEF TypeOK, EgressGate, safetyVars, ghostVars
  <2>. QED  BY <2>1, <2>2
<1>8. ASSUME NEW t \in Threads, CapacityGate(t) PROVE TypeOK'
  <2>1. request[t].amount \in Nat /\ now[t] \in Nat
    BY <1>8, RequestType DEF CapacityGate
  <2>2. history' \in Seq(Reservation)
    BY <1>8, <2>1, ReserveType DEF CapacityGate, TypeOK
  <2>3. latest' \in Nat
    BY <1>8, <2>1 DEF CapacityGate, Later, TypeOK
  <2>. DEFINE room == HasRoom(Purge(history, now[t]), request[t].amount)
              r == [at |-> now[t], amount |-> request[t].amount]
  <2>4. CASE room
    <3>1. r \in Reservation
      BY <2>1 DEF Reservation
    <3>2. reserved' = Append(reserved, r)
      BY <1>8, <2>4 DEF CapacityGate
    <3>3. /\ reserved' \in Seq(Reservation)
          /\ DOMAIN reserved' = 1..(Len(reserved) + 1)
          /\ DOMAIN reserved = 1..Len(reserved) /\ Len(reserved) \in Nat
      <4>. HIDE DEF r
      <4>1. reserved \in Seq(Reservation)
        BY DEF TypeOK
      <4>. QED  BY <3>1, <3>2, <4>1, AppendProperties
    <3>4. timely' \subseteq DOMAIN reserved'
      BY <1>8, <2>4, <3>3 DEF CapacityGate, TypeOK
    <3>. QED  BY <1>8, <2>2, <2>3, <2>4, <3>3, <3>4
              DEF TypeOK, CapacityGate, Goto, PCs, Gates
  <2>5. CASE ~room
    BY <1>8, <2>2, <2>3, <2>5, <1>l, <1>f DEF TypeOK, CapacityGate
  <2>. QED  BY <2>4, <2>5
<1>9. ASSUME NEW t \in Threads, Dispatch(t) PROVE TypeOK'
  <2>1. request[t] \in Requests /\ request[t].key \in Keys
    BY <1>9, RequestType DEF Dispatch
  <2>2. performed' \in [Keys -> Seq(Requests)]
    BY <1>9, <2>1, AppendProperties DEF Dispatch, TypeOK
  <2>. QED  BY <1>9, <2>2 DEF TypeOK, Dispatch, Goto, PCs, Sent, safetyVars
<1>10. ASSUME NEW t \in Threads, NEW s \in Outcomes, Respond(t, s)
       PROVE  TypeOK'
  <2>. DEFINE c == request[t].channel
  <2>1. c \in Channels /\ now[t] \in Nat
    BY <1>10, RequestType DEF Respond
  <2>2. /\ RecordSuccess(breakers[c], now[t]) \in Breaker
        /\ RecordFailure(breakers[c], now[t]) \in Breaker
    BY <2>1, RecordSuccessType, RecordFailureType DEF TypeOK
  <2>3. breakers' \in [Channels -> Breaker]
    BY <1>10, <2>1, <2>2 DEF Respond, TypeOK
  <2>. QED  BY <1>10, <2>3 DEF TypeOK, Respond, StatusOf, Goto, PCs, Sent,
                               ghostVars
<1>11. ASSUME NEW t \in Threads, Record(t) PROVE TypeOK'
  <2>1. request[t] \in Requests /\ now[t] \in Nat /\ status[t] \in Outcomes
    BY <1>11, RequestType DEF Record, CallInv
  <2>2. store' \in [Keys -> Result \cup {None}]
    BY <1>11, <2>1 DEF Record, Stored, ResultOf, Result, TypeOK
  <2>. QED  BY <1>11, <2>2 DEF TypeOK, Record, Goto, PCs, Sent, safetyVars,
                               ghostVars
<1>12. ASSUME NEW t \in Threads, Audit(t) PROVE TypeOK'
  <2>1. /\ request[t] \in Requests /\ request[t].key \in Keys
        /\ now[t] \in Nat /\ status[t] \in Outcomes
    BY <1>12, RequestType DEF Audit, CallInv
  <2>2. EntryOf(t) \in Entry
    BY <2>1 DEF EntryOf, Entry
  <2>3. audit' \in Seq(Entry)
    BY <1>12, <2>2, AppendProperties DEF Audit, Logged, TypeOK
  <2>4. answered' \subseteq [request : Requests, outcome : Outcomes]
    BY <1>12, <2>1 DEF Audit, TypeOK
  <2>. QED  BY <1>12, <1>l, <1>f, <2>3, <2>4 DEF TypeOK, Audit, safetyVars
<1>13. ASSUME NEW t \in Threads, Refuse(t) PROVE TypeOK'
  <2>1. request[t].key \in Keys
    BY <1>13, RequestType DEF Refuse
  <2>2. performed' \in [Keys -> Seq(Requests)]
    BY <1>13, <2>1, EmptySeq DEF Refuse, TypeOK
  <2>. QED  BY <1>13, <1>l, <1>f, <2>2 DEF TypeOK, Refuse, safetyVars
<1>14. ASSUME NEW c \in Channels, NEW n \in 0..clock, ArbitrateBreaker(c, n)
       PROVE  TypeOK'
  <2>1. n \in Nat
    BY DEF TypeOK
  <2>2. Admit(breakers[c], n) \in Breaker
    BY <2>1, AdmitType DEF TypeOK
  <2>. QED  BY <1>14, <2>2 DEF TypeOK, ArbitrateBreaker, callVars, ghostVars
<1>15. ASSUME NEW n \in 0..clock, ArbitrateCapacity(n) PROVE TypeOK'
  <2>1. n \in Nat
    BY DEF TypeOK
  <2>2. Purge(history, n) \in Seq(Reservation)
    BY <2>1, PurgeType DEF TypeOK
  <2>. QED  BY <1>15, <2>1, <2>2 DEF TypeOK, ArbitrateCapacity, Later, callVars
<1>16. ASSUME NEW s \in Switches, Activate(s) \/ Deactivate(s) PROVE TypeOK'
  BY <1>16 DEF TypeOK, Activate, Deactivate, callVars, ghostVars
<1>17. ASSUME ResetSwitches PROVE TypeOK'
  BY <1>17 DEF TypeOK, ResetSwitches, callVars, ghostVars
<1>18. ASSUME ResetBreakers PROVE TypeOK'
  BY <1>18, NewBreakerType DEF TypeOK, ResetBreakers, Reset, callVars,
                               ghostVars
<1>19. ASSUME Tick PROVE TypeOK'
  BY <1>19 DEF TypeOK, Tick, callVars, safetyVars, ghostVars
<1>20. ASSUME UNCHANGED vars PROVE TypeOK'
  BY <1>20 DEF TypeOK, vars, callVars, safetyVars, ghostVars
<1>. QED
  BY <1>1, <1>2, <1>3, <1>4, <1>5, <1>6, <1>7, <1>8, <1>9, <1>10, <1>11,
     <1>12, <1>13, <1>14, <1>15, <1>16, <1>17, <1>18, <1>19, <1>20
     DEF Next, Proceed

-----------------------------------------------------------------------------
(* The lock.                                                               *)

\* Every step keeps the lock with the call past gate 2.
LEMMA LockStep == IndInv /\ [Next]_vars => LockInv'
<1>. SUFFICES ASSUME IndInv, [Next]_vars PROVE LockInv'
  OBVIOUS
<1>. USE DEF IndInv
\* A thread that takes the lock found it free.
<1>1. ASSUME NEW t \in Threads, NEW r \in Requests, NEW k \in Tokens,
             Call(t, r, k)
      PROVE  LockInv'
  BY <1>1 DEF LockInv, TypeOK, Call, Goto, Gates, Sent
<1>2. ASSUME NEW t \in Threads, Enter(t) PROVE LockInv'
  BY <1>2, ExecutorAssumption DEF LockInv, TypeOK, Enter, LockFree, Goto,
                                  Gates, Sent
\* A thread that leaves gives it back ...
<1>3. ASSUME NEW t \in Threads, pc[t] \in Gates \cup Sent, Leave(t)
      PROVE  LockInv'
  BY <1>3, ExecutorAssumption DEF LockInv, TypeOK, Leave, Finish, Goto,
                                  Gates, Sent
\* ... unless it never had it.
<1>4. ASSUME NEW t \in Threads, pc[t] = "waiting", Finish(t), UNCHANGED lock
      PROVE  LockInv'
  BY <1>4 DEF LockInv, TypeOK, Finish, Goto, Gates, Sent
\* In between it keeps it.
<1>5. ASSUME NEW t \in Threads, NEW g \in Gates \cup Sent,
             pc[t] \in Gates \cup Sent, Goto(t, g),
             UNCHANGED <<lock, request>>
      PROVE  LockInv'
  BY <1>5 DEF LockInv, TypeOK, Goto, Gates, Sent
<1>6. ASSUME UNCHANGED <<lock, callVars>> PROVE LockInv'
  BY <1>6 DEF LockInv, callVars
<1>7. ASSUME NEW t \in Threads, Proceed(t) PROVE LockInv'
  <2>1. CASE Enter(t)
    BY <1>2, <2>1
  <2>2. CASE Replay(t) \/ Conflict(t)
    BY <1>4, <2>2 DEF Replay, Conflict
  <2>3. CASE SwitchGate(t)
    BY <1>3, <1>5, <2>3 DEF SwitchGate, Gates
  <2>4. CASE BreakerGate(t)
    BY <1>3, <1>5, <2>4 DEF BreakerGate, Gates
  <2>5. CASE \E resolves \in BOOLEAN : EgressGate(t, resolves)
    BY <1>3, <1>5, <2>5 DEF EgressGate, Gates
  <2>6. CASE CapacityGate(t)
    BY <1>3, <1>5, <2>6 DEF CapacityGate, Gates
  <2>7. CASE Dispatch(t)
    BY <1>5, <2>7 DEF Dispatch, Gates, Sent
  <2>8. CASE \E s \in Outcomes : Respond(t, s)
    BY <1>5, <2>8 DEF Respond, Sent
  <2>9. CASE Record(t)
    BY <1>5, <2>9 DEF Record, Sent
  <2>10. CASE Audit(t) \/ Refuse(t)
    BY <1>3, <2>10 DEF Audit, Refuse, Sent
  <2>. QED
    BY <1>7, <2>1, <2>2, <2>3, <2>4, <2>5, <2>6, <2>7, <2>8, <2>9, <2>10
       DEF Proceed
<1>8. ASSUME NEW s \in Switches, Activate(s) \/ Deactivate(s) PROVE LockInv'
  BY <1>6, <1>8 DEF Activate, Deactivate
<1>9. ASSUME ResetSwitches \/ ResetBreakers \/ Tick \/ UNCHANGED vars
      PROVE  LockInv'
  BY <1>6, <1>9 DEF ResetSwitches, ResetBreakers, Tick, vars
<1>10. ASSUME NEW n, \/ ArbitrateCapacity(n)
                     \/ \E c \in Channels : ArbitrateBreaker(c, n)
       PROVE  LockInv'
  BY <1>6, <1>10 DEF ArbitrateCapacity, ArbitrateBreaker
<1>. QED  BY <1>1, <1>7, <1>8, <1>9, <1>10 DEF Next

\* Two calls past gate 2 are one, and none is when the lock is free.
LEMMA Exclusive ==
    ASSUME LockInv, NEW t \in Threads
    PROVE  /\ \A u \in Threads : pc[t] \in Gates \cup Sent
                               /\ pc[u] \in Gates \cup Sent => t = u
           /\ lock = None => pc[t] \notin Gates \cup Sent
BY ExecutorAssumption DEF LockInv

\* The steps of a call before its dispatch, and those of the arbitrator, the
\* operator and the clock, leave what was performed, stored, answered and
\* logged.
Quiet == UNCHANGED <<store, performed, answered, audit>>

\* Of the calls, such a step moves one: away, or on to the next gate.
Moves(t) ==
    \/ /\ pc' = [pc EXCEPT ![t] = "idle"]
       /\ request' = [request EXCEPT ![t] = None]
       /\ status' = [status EXCEPT ![t] = None]
       /\ now' = [now EXCEPT ![t] = 0]
    \/ /\ pc[t] = "idle"
       /\ pc' = [pc EXCEPT ![t] = "waiting"]
       /\ \E r \in Requests : request' = [request EXCEPT ![t] = r]
       /\ \E n \in Nat : now' = [now EXCEPT ![t] = n]
       /\ UNCHANGED status
    \/ /\ pc[t] \in Gates
       /\ \E g \in Gates \ {"switch"} : pc' = [pc EXCEPT ![t] = g]
       /\ UNCHANGED <<request, now, status>>
    \/ /\ pc[t] = "waiting"
       /\ pc' = [pc EXCEPT ![t] = "switch"]
       /\ UNCHANGED <<request, now, status>>
       /\ lock = None
       /\ store[request[t].key] = None

\* The steps of a call that are quiet.
QuietCall(t) ==
    \/ Enter(t) \/ Conflict(t) \/ SwitchGate(t) \/ BreakerGate(t)
    \/ CapacityGate(t)
    \/ \E resolves \in BOOLEAN : EgressGate(t, resolves)
    \/ \E r \in Requests, k \in Tokens : Call(t, r, k)

\* A quiet step of a call does not come from a call that was dispatched.
LEMMA QuietCallMoves ==
    ASSUME IndInv, NEW t \in Threads, QuietCall(t)
    PROVE  Quiet /\ Moves(t) /\ pc[t] \notin Sent
<1>. USE DEF Quiet, Moves, Goto, Gates, Sent, safetyVars, ghostVars
<1>1. CASE Enter(t)
  <2>1. lock = None
    BY <1>1 DEF Enter, LockFree
  <2>. QED  BY <1>1, <2>1 DEF Enter
<1>2. CASE Conflict(t)
  BY <1>2 DEF Conflict, Finish
<1>3. CASE SwitchGate(t)
  BY <1>3 DEF SwitchGate, Leave, Finish
<1>4. CASE BreakerGate(t)
  BY <1>4 DEF BreakerGate, Leave, Finish
<1>5. CASE \E resolves \in BOOLEAN : EgressGate(t, resolves)
  BY <1>5 DEF EgressGate, Leave, Finish
<1>6. CASE CapacityGate(t)
  BY <1>6 DEF CapacityGate, Leave, Finish
<1>7. ASSUME NEW r \in Requests, NEW k \in Tokens, Call(t, r, k)
      PROVE  Quiet /\ Moves(t) /\ pc[t] \notin Sent
  BY <1>7 DEF Call, IndInv, TypeOK
<1>. QED  BY <1>1, <1>2, <1>3, <1>4, <1>5, <1>6, <1>7 DEF QuietCall

\* The steps of the arbitrator, of the operator and of the clock.
Aside ==
    \/ \E c \in Channels, n \in 0..clock : ArbitrateBreaker(c, n)
    \/ \E n \in 0..clock : ArbitrateCapacity(n)
    \/ \E s \in Switches : Activate(s) \/ Deactivate(s)
    \/ ResetSwitches
    \/ ResetBreakers
    \/ Tick
    \/ UNCHANGED vars

LEMMA AsideMovesNone ==
    ASSUME Aside
    PROVE  Quiet /\ UNCHANGED <<lock, pc, request, now, status>>
BY DEF Aside, Quiet, ArbitrateBreaker, ArbitrateCapacity, Activate, Deactivate,
       ResetSwitches, ResetBreakers, Tick, vars, callVars, safetyVars, ghostVars

\* A step is quiet, or one of the six that leave something behind.
LEMMA StepKinds ==
    ASSUME [Next]_vars
    PROVE  \/ Aside
           \/ \E t \in Threads :
                 \/ QuietCall(t)
                 \/ Replay(t)
                 \/ Dispatch(t)
                 \/ \E s \in Outcomes : Respond(t, s)
                 \/ Refuse(t)
                 \/ Record(t)
                 \/ Audit(t)
BY DEF Next, Proceed, Aside, QuietCall

-----------------------------------------------------------------------------
(* What a call has found and done, and the store.                          *)

\* When the lock is free, a key without a result was never performed.
LEMMA FreeMeansFinished ==
    ASSUME IndInv, lock = None, NEW k \in Keys, store[k] = None
    PROVE  performed[k] = <<>>
<1>1. \A t \in Threads : pc[t] \notin {"response", "record"}
  BY Exclusive DEF IndInv, Sent
<1>. QED  BY <1>1 DEF IndInv, StoreInv

\* A quiet move of one call keeps what is said of all.
LEMMA CallStepQuiet ==
    ASSUME IndInv, Quiet, NEW t \in Threads, Moves(t)
    PROVE  CallInv'
<1>. SUFFICES ASSUME NEW u \in Threads
              PROVE  LET k == request'[u].key
                     IN  /\ pc'[u] \in Gates =>
                               store[k] = None /\ performed[k] = <<>>
                         /\ pc'[u] \in {"response", "record"} =>
                               /\ store[k] = None
                               /\ performed[k] = <<request'[u]>>
                         /\ pc'[u] \in {"record", "audit"} =>
                               status'[u] \in Outcomes
                         /\ pc'[u] = "audit" =>
                               store[k] = [request |-> request'[u],
                                           outcome |-> status'[u],
                                           at |-> now'[u]]
  BY DEF CallInv, Quiet, ResultOf
<1>1. CASE u # t
  <2>1. /\ pc'[u] = pc[u] /\ request'[u] = request[u]
        /\ status'[u] = status[u] /\ now'[u] = now[u]
    BY <1>1 DEF Moves, IndInv, TypeOK
  <2>. QED  BY <2>1 DEF IndInv, CallInv, ResultOf
<1>2. CASE u = t
  <2>1. CASE pc'[t] \in {"idle", "waiting"}
    BY <1>2, <2>1 DEF Gates
  <2>2. CASE pc[t] \in Gates /\ pc'[t] \in Gates /\ request'[t] = request[t]
    BY <1>2, <2>2 DEF IndInv, CallInv, Gates
  <2>3. CASE /\ pc[t] = "waiting" /\ pc'[t] = "switch"
             /\ request'[t] = request[t] /\ lock = None
             /\ store[request[t].key] = None
    <3>1. request[t].key \in Keys
      BY <2>3, RequestType DEF IndInv
    <3>2. performed[request[t].key] = <<>>
      BY <2>3, <3>1, FreeMeansFinished
    <3>. QED  BY <1>2, <2>3, <3>2
  <2>. QED  BY <2>1, <2>2, <2>3 DEF Moves, IndInv, TypeOK
<1>. QED  BY <1>1, <1>2

LEMMA CallStep == IndInv /\ [Next]_vars => CallInv'
<1>. SUFFICES ASSUME IndInv, [Next]_vars PROVE CallInv'
  OBVIOUS
<1>1. ASSUME Aside PROVE CallInv'
  BY <1>1, AsideMovesNone DEF IndInv, CallInv, ResultOf, Quiet
<1>2. ASSUME NEW t \in Threads, QuietCall(t) PROVE CallInv'
  BY <1>2, QuietCallMoves, CallStepQuiet
<1>3. ASSUME NEW t \in Threads, Replay(t) PROVE CallInv'
  BY <1>3 DEF IndInv, TypeOK, CallInv, ResultOf, Replay, Finish, Goto, Gates
\* The calls of other threads are not past gate 2.
<1>4. ASSUME NEW t \in Threads, pc[t] \in Gates \cup Sent
      PROVE  \A u \in Threads \ {t} : pc[u] \notin Gates \cup Sent
  BY <1>4, Exclusive DEF IndInv
<1>5. ASSUME NEW t \in Threads, Dispatch(t) PROVE CallInv'
  <2>1. /\ store[request[t].key] = None
        /\ performed[request[t].key] = <<>>
        /\ request[t].key \in Keys
    BY <1>5, RequestType DEF Dispatch, IndInv, CallInv, Gates
  <2>2. performed'[request[t].key] = <<request[t]>>
    BY <1>5, <2>1 DEF Dispatch, IndInv, TypeOK
  <2>. QED
    BY <1>4, <1>5, <2>1, <2>2
       DEF IndInv, TypeOK, CallInv, Dispatch, Goto, Gates, Sent
<1>6. ASSUME NEW t \in Threads, NEW s \in Outcomes, Respond(t, s)
      PROVE  CallInv'
  BY <1>4, <1>6 DEF IndInv, TypeOK, CallInv, ResultOf, Respond, StatusOf,
                    Goto, Gates, Sent, ghostVars
<1>7. ASSUME NEW t \in Threads, Record(t) PROVE CallInv'
  <2>1. request[t].key \in Keys
    BY <1>7, RequestType DEF Record, IndInv
  <2>2. store'[request[t].key] = ResultOf(t)
    BY <1>7, <2>1 DEF Record, Stored, IndInv, TypeOK
  <2>. QED
    BY <1>4, <1>7, <2>2 DEF IndInv, TypeOK, CallInv, ResultOf, Record, Goto,
                            Gates, Sent, ghostVars
<1>8. ASSUME NEW t \in Threads, Audit(t) PROVE CallInv'
  BY <1>8 DEF IndInv, TypeOK, CallInv, ResultOf, Audit, Leave, Finish, Goto,
              Gates
<1>9. ASSUME NEW t \in Threads, Refuse(t) PROVE CallInv'
  BY <1>4, <1>9 DEF IndInv, TypeOK, CallInv, Refuse, Leave, Finish, Goto,
                    Gates, Sent
<1>. QED  BY <1>1, <1>2, <1>3, <1>5, <1>6, <1>7, <1>8, <1>9, StepKinds

\* A step that leaves the store and what was performed, and no call that was
\* dispatched and not recorded.
LEMMA StoreStepSame ==
    ASSUME StoreInv, UNCHANGED <<store, performed>>,
           \A t \in Threads :
               pc[t] \in {"response", "record"} =>
                   /\ pc'[t] \in {"response", "record"}
                   /\ request'[t] = request[t]
    PROVE  StoreInv'
BY DEF StoreInv

LEMMA StoreStep == IndInv /\ [Next]_vars => StoreInv'
<1>. SUFFICES ASSUME IndInv, [Next]_vars PROVE StoreInv'
  OBVIOUS
<1>1. ASSUME Aside PROVE StoreInv'
  BY <1>1, AsideMovesNone, StoreStepSame DEF IndInv, Quiet
<1>2. ASSUME NEW t \in Threads, QuietCall(t) PROVE StoreInv'
  BY <1>2, QuietCallMoves, StoreStepSame
     DEF IndInv, TypeOK, Quiet, Moves, Sent
<1>3. ASSUME NEW t \in Threads, Replay(t) PROVE StoreInv'
  BY <1>3, StoreStepSame DEF IndInv, TypeOK, Replay, Finish, Goto
<1>4. ASSUME NEW t \in Threads, Dispatch(t) PROVE StoreInv'
  <2>1. request[t].key \in Keys
    BY <1>4, RequestType DEF Dispatch, IndInv
  <2>2. store[request[t].key] = None
    BY <1>4 DEF Dispatch, IndInv, CallInv, Gates
  <2>3. \A k \in Keys \ {request[t].key} : performed'[k] = performed[k]
    BY <1>4, <2>1 DEF Dispatch, IndInv, TypeOK
  <2>4. /\ store' = store
        /\ pc'[t] = "response" /\ request' = request
        /\ \A u \in Threads \ {t} : pc'[u] = pc[u]
        /\ pc[t] = "dispatch"
    BY <1>4 DEF Dispatch, Goto, IndInv, TypeOK
  <2>. QED  BY <2>1, <2>2, <2>3, <2>4 DEF IndInv, StoreInv
<1>5. ASSUME NEW t \in Threads, NEW s \in Outcomes, Respond(t, s)
      PROVE  StoreInv'
  BY <1>5, StoreStepSame DEF IndInv, TypeOK, Respond, Goto, ghostVars
<1>6. ASSUME NEW t \in Threads, Record(t) PROVE StoreInv'
  <2>. DEFINE k == request[t].key
  <2>1. k \in Keys /\ performed[k] = <<request[t]>>
    BY <1>6, RequestType DEF Record, IndInv, CallInv
  <2>2. store' = [store EXCEPT ![k] = ResultOf(t)]
    BY <1>6 DEF Record, Stored
  <2>3. /\ store'[k].request = request[t]
        /\ store'[k] \in Result
        /\ store'[k] # None
    BY <1>6, <2>1, <2>2, RequestType, ExecutorAssumption
       DEF Record, IndInv, TypeOK, CallInv, ResultOf, Result
  <2>4. \A j \in Keys \ {k} : store'[j] = store[j]
    BY <2>1, <2>2 DEF IndInv, TypeOK
  <2>5. /\ performed' = performed /\ request' = request
        /\ \A u \in Threads \ {t} : pc'[u] = pc[u]
    BY <1>6 DEF Record, Goto, IndInv, TypeOK, ghostVars
  <2>. QED  BY <2>1, <2>3, <2>4, <2>5 DEF IndInv, StoreInv
<1>7. ASSUME NEW t \in Threads, Audit(t) PROVE StoreInv'
  BY <1>7, StoreStepSame DEF IndInv, TypeOK, Audit, Leave, Finish, Goto
\* The key of a refused result has no result and counts as not performed.
<1>8. ASSUME NEW t \in Threads, Refuse(t) PROVE StoreInv'
  <2>. DEFINE k == request[t].key
  <2>1. k \in Keys /\ store[k] = None
    BY <1>8, RequestType DEF Refuse, IndInv, CallInv
  <2>2. /\ performed'[k] = <<>>
        /\ \A j \in Keys \ {k} : performed'[j] = performed[j]
    BY <1>8, <2>1 DEF Refuse, IndInv, TypeOK
  <2>3. /\ store' = store
        /\ \A u \in Threads \ {t} : /\ pc'[u] = pc[u]
                                    /\ request'[u] = request[u]
    BY <1>8 DEF Refuse, Leave, Finish, Goto, IndInv, TypeOK
  <2>. QED  BY <2>1, <2>2, <2>3 DEF IndInv, StoreInv
<1>. QED  BY <1>1, <1>2, <1>3, <1>4, <1>5, <1>6, <1>7, <1>8, StepKinds

-----------------------------------------------------------------------------
(* The answers.                                                            *)

\* A result stays in the store, and what is not in it is not answered.
LEMMA AnswerStep == IndInv /\ [Next]_vars => AnswerInv'
<1>. SUFFICES ASSUME IndInv, [Next]_vars PROVE AnswerInv'
  OBVIOUS
<1>1. ASSUME UNCHANGED <<store, answered>> PROVE AnswerInv'
  BY <1>1 DEF IndInv, AnswerInv
\* An answer that says what the store says may be added.
<1>2. ASSUME NEW r, NEW o, UNCHANGED store,
             answered' = answered \cup {[request |-> r, outcome |-> o]},
             store[r.key] # None,
             store[r.key].request = r, store[r.key].outcome = o
      PROVE  AnswerInv'
  BY <1>2 DEF IndInv, AnswerInv
<1>3. ASSUME Aside PROVE AnswerInv'
  BY <1>1, <1>3, AsideMovesNone DEF Quiet
<1>4. ASSUME NEW t \in Threads, QuietCall(t) PROVE AnswerInv'
  BY <1>1, <1>4, QuietCallMoves DEF Quiet
<1>5. ASSUME NEW t \in Threads, Replay(t) PROVE AnswerInv'
  BY <1>2, <1>5 DEF Replay, Matches
<1>6. ASSUME NEW t \in Threads, Dispatch(t) PROVE AnswerInv'
  BY <1>1, <1>6 DEF Dispatch
<1>7. ASSUME NEW t \in Threads, NEW s \in Outcomes, Respond(t, s)
      PROVE  AnswerInv'
  BY <1>1, <1>7 DEF Respond, ghostVars
<1>8. ASSUME NEW t \in Threads, Record(t) PROVE AnswerInv'
  <2>1. store[request[t].key] = None
    BY <1>8 DEF Record, IndInv, CallInv
  <2>2. store' = [store EXCEPT ![request[t].key] = ResultOf(t)]
    BY <1>8 DEF Record, Stored
  <2>3. answered' = answered
    BY <1>8 DEF Record, ghostVars
  <2>4. \A a \in answered : store'[a.request.key] = store[a.request.key]
    BY <2>1, <2>2 DEF IndInv, TypeOK, AnswerInv, Keys
  <2>. QED  BY <2>3, <2>4 DEF IndInv, AnswerInv
<1>9. ASSUME NEW t \in Threads, Audit(t) PROVE AnswerInv'
  <2>1. request[t].key \in Keys
    BY <1>9, RequestType DEF Audit, IndInv
  <2>2. store[request[t].key] = ResultOf(t)
    BY <1>9 DEF Audit, IndInv, CallInv
  <2>3. store[request[t].key] # None
    BY <1>9, <2>2, RequestType, ExecutorAssumption
       DEF Audit, IndInv, CallInv, ResultOf, Result
  <2>. QED  BY <1>2, <1>9, <2>2, <2>3 DEF Audit, ResultOf
<1>10. ASSUME NEW t \in Threads, Refuse(t) PROVE AnswerInv'
  BY <1>1, <1>10 DEF Refuse
<1>. QED  BY <1>3, <1>4, <1>5, <1>6, <1>7, <1>8, <1>9, <1>10, StepKinds

-----------------------------------------------------------------------------
(* The audit log.                                                          *)

LEMMA AuditStep == IndInv /\ [Next]_vars => AuditInv'
<1>. SUFFICES ASSUME IndInv, [Next]_vars PROVE AuditInv'
  OBVIOUS
\* A step that neither records nor logs, and no call that has recorded and
\* not logged.
<1>1. ASSUME UNCHANGED <<store, audit>>,
             \A t \in Threads :
                 /\ pc[t] = "audit" <=> pc'[t] = "audit"
                 /\ pc[t] = "audit" => request'[t] = request[t]
      PROVE  AuditInv'
  <2>1. \A k : Audited(k)' <=> Audited(k)
    BY <1>1 DEF Audited
  <2>. QED  BY <1>1, <2>1 DEF IndInv, AuditInv
<1>2. ASSUME Aside PROVE AuditInv'
  BY <1>1, <1>2, AsideMovesNone DEF Quiet
<1>3. ASSUME NEW t \in Threads, QuietCall(t) PROVE AuditInv'
  BY <1>1, <1>3, QuietCallMoves
     DEF IndInv, TypeOK, Quiet, Moves, Sent, Gates
<1>4. ASSUME NEW t \in Threads, Replay(t) PROVE AuditInv'
  BY <1>1, <1>4 DEF IndInv, TypeOK, Replay, Finish, Goto
<1>5. ASSUME NEW t \in Threads, Dispatch(t) PROVE AuditInv'
  BY <1>1, <1>5 DEF IndInv, TypeOK, Dispatch, Goto
<1>6. ASSUME NEW t \in Threads, NEW s \in Outcomes, Respond(t, s)
      PROVE  AuditInv'
  BY <1>1, <1>6 DEF IndInv, TypeOK, Respond, Goto
\* What is recorded had no entry, and its call is about to write one.
<1>7. ASSUME NEW t \in Threads, Record(t) PROVE AuditInv'
  <2>. DEFINE k == request[t].key
  <2>1. k \in Keys /\ store[k] = None
    BY <1>7, RequestType DEF Record, IndInv, CallInv
  <2>2. store' = [store EXCEPT ![k] = ResultOf(t)]
    BY <1>7 DEF Record, Stored
  <2>3. /\ audit' = audit /\ request' = request
        /\ pc'[t] = "audit"
        /\ \A u \in Threads \ {t} : pc'[u] = pc[u]
    BY <1>7 DEF Record, Goto, IndInv, TypeOK
  <2>4. \A j \in Keys \ {k} : store'[j] = store[j]
    BY <2>1, <2>2 DEF IndInv, TypeOK
  <2>5. \A i \in DOMAIN audit : audit[i].key \in Keys \ {k}
    <3>. TAKE i \in DOMAIN audit
    <3>1. audit[i] \in Entry
      BY ElementOfSeq DEF IndInv, TypeOK
    <3>2. store[audit[i].key] # None
      BY DEF IndInv, AuditInv
    <3>. QED  BY <2>1, <3>1, <3>2 DEF Entry
  <2>6. \A j \in Keys \ {k} : Audited(j)' <=> Audited(j)
    BY <2>3, <2>4 DEF Audited
  <2>7. pc[t] # "audit"
    BY <1>7 DEF Record
  <2>. QED  BY <2>3, <2>4, <2>5, <2>6, <2>7 DEF IndInv, AuditInv
\* The entry written is the first for its key.
<1>8. ASSUME NEW t \in Threads, Audit(t) PROVE AuditInv'
  <2>k. PICK k \in Keys : k = request[t].key
    BY <1>8, RequestType DEF Audit, IndInv
  <2>. DEFINE n == Len(audit) + 1
  <2>1. /\ store[k] = ResultOf(t) /\ store[k] # None
        /\ EntryOf(t) \in Entry
    BY <1>8, <2>k, RequestType, ExecutorAssumption
       DEF Audit, IndInv, CallInv, ResultOf, Result, EntryOf, Entry
  <2>2. audit' = Append(audit, EntryOf(t)) /\ store' = store
    BY <1>8 DEF Audit, Logged
  <2>3. /\ Len(audit) \in Nat
        /\ DOMAIN audit = 1..Len(audit)
        /\ DOMAIN audit' = 1..n
        /\ \A i \in DOMAIN audit : audit'[i] = audit[i]
        /\ audit'[n] = EntryOf(t)
    BY <2>1, <2>2, AppendProperties DEF IndInv, TypeOK
  <2>. HIDE DEF n
  <2>4. DOMAIN audit' = DOMAIN audit \cup {n} /\ n \notin DOMAIN audit
    BY <2>3 DEF n
  <2>5. audit'[n].key = k
    BY <2>k, <2>3 DEF EntryOf
  <2>6. \A i \in DOMAIN audit : audit[i].key # k
    BY <1>8, <2>k DEF Audit, IndInv, AuditInv
  <2>7. /\ pc'[t] # "audit"
        /\ pc[t] = "audit"
        /\ \A u \in Threads \ {t} : /\ pc'[u] = pc[u]
                                    /\ request'[u] = request[u]
                                    /\ pc[u] # "audit"
    BY <1>8, Exclusive DEF Audit, Leave, Finish, Goto, IndInv, TypeOK, Sent
  <2>8. Audited(k)'
    <3>1. store'[k] # None /\ n \in DOMAIN audit'
      BY <2>1, <2>2, <2>4
    <3>2. audit'[n] = [key |-> k, outcome |-> store'[k].outcome,
                       at |-> store'[k].at]
      <4>1. EntryOf(t) = [key |-> k, outcome |-> store[k].outcome,
                          at |-> store[k].at]
        BY <2>k, <2>1 DEF EntryOf, ResultOf
      <4>. QED  BY <2>2, <2>3, <4>1, Zenon
    <3>. QED  BY <3>1, <3>2 DEF Audited
  <2>9. \A j \in Keys : Audited(j) => Audited(j)'
    BY <2>2, <2>3, <2>4, Zenon DEF Audited
  <2>10. \A i, j \in DOMAIN audit' :
            audit'[i].key = audit'[j].key => i = j
    <3>1. \A i, j \in DOMAIN audit : audit[i].key = audit[j].key => i = j
      BY DEF IndInv, AuditInv
    <3>. SUFFICES ASSUME NEW i \in DOMAIN audit', NEW j \in DOMAIN audit',
                         audit'[i].key = audit'[j].key
                  PROVE  i = j
      OBVIOUS
    <3>2. CASE i \in DOMAIN audit /\ j \in DOMAIN audit
      BY <2>3, <3>1, <3>2, Zenon
    <3>3. CASE i = n /\ j = n
      BY <3>3
    <3>4. CASE i = n /\ j \in DOMAIN audit
      BY <2>3, <2>5, <2>6, <3>4, Zenon
    <3>5. CASE i \in DOMAIN audit /\ j = n
      BY <2>3, <2>5, <2>6, <3>5, Zenon
    <3>. QED  BY <2>4, <3>2, <3>3, <3>4, <3>5
  <2>11. \A i \in DOMAIN audit' : store'[audit'[i].key] # None
    BY <2>1, <2>2, <2>3, <2>4, <2>5, Zenon DEF IndInv, AuditInv
  <2>12. \A u \in Threads : pc'[u] # "audit"
    BY <2>7
  <2>13. \A j \in Keys : store'[j] # None => Audited(j)'
    <3>. SUFFICES ASSUME NEW j \in Keys, store'[j] # None
                  PROVE  Audited(j)'
      OBVIOUS
    <3>1. \/ Audited(j)
          \/ \E u \in Threads : pc[u] = "audit" /\ request[u].key = j
      BY <2>2, Zenon DEF IndInv, AuditInv
    <3>2. CASE Audited(j)
      BY <2>9, <3>2
    <3>3. CASE \E u \in Threads : pc[u] = "audit" /\ request[u].key = j
      <4>1. j = k
        BY <2>k, <2>7, <3>3
      <4>. QED  BY <2>8, <4>1
    <3>. QED  BY <3>1, <3>2, <3>3
  <2>. QED  BY <2>10, <2>11, <2>12, <2>13 DEF AuditInv
<1>9. ASSUME NEW t \in Threads, Refuse(t) PROVE AuditInv'
  BY <1>1, <1>9 DEF IndInv, TypeOK, Refuse, Leave, Finish, Goto
<1>. QED  BY <1>2, <1>3, <1>4, <1>5, <1>6, <1>7, <1>8, <1>9, StepKinds

-----------------------------------------------------------------------------
(* The kill switch.                                                        *)

\* A call that passes gate 3 is not halted, and an activation starts anew.
LEMMA SlipStep == IndInv /\ [Next]_vars => SlipInv'
<1>. SUFFICES ASSUME IndInv, [Next]_vars PROVE SlipInv'
  OBVIOUS
<1>. DEFINE Past(g) == g \in Gates \ {"switch"}
\* Steps after which every call past gate 3 was so before, with the switches
\* that are still active a part of those before.
<1>1. ASSUME UNCHANGED slipped, switches' \subseteq switches,
             \A u \in Threads :
                 Past(pc'[u]) => Past(pc[u]) /\ request'[u] = request[u]
      PROVE  SlipInv'
  BY <1>1 DEF IndInv, SlipInv, Halted
<1>2. ASSUME NEW s \in Switches, Activate(s) PROVE SlipInv'
  BY <1>2 DEF Activate, SlipInv
<1>3. ASSUME NEW s \in Switches, Deactivate(s) PROVE SlipInv'
  BY <1>1, <1>3 DEF Deactivate, callVars, ghostVars
<1>4. ASSUME ResetSwitches \/ ResetBreakers \/ Tick \/ UNCHANGED vars
      PROVE  SlipInv'
  BY <1>1, <1>4 DEF ResetSwitches, ResetBreakers, Tick, vars, callVars,
                    safetyVars, ghostVars
\* A call that ends, or moves from gate 4 on.
<1>5. ASSUME NEW t \in Threads, UNCHANGED <<slipped, switches>>,
             \/ Finish(t)
             \/ \E g \in PCs : Goto(t, g) /\ (Past(g) => Past(pc[t]))
                               /\ UNCHANGED request
      PROVE  SlipInv'
  BY <1>1, <1>5 DEF IndInv, TypeOK, Finish, Goto, Gates
<1>6. ASSUME NEW t \in Threads, SwitchGate(t) PROVE SlipInv'
  <2>1. CASE Stopped(t)
    BY <1>5, <1>6, <2>1 DEF SwitchGate, Leave, safetyVars, ghostVars
  <2>2. CASE ~Stopped(t)
    BY <1>6, <2>2 DEF SwitchGate, Stopped, Goto, IndInv, TypeOK, SlipInv,
                      safetyVars, ghostVars
  <2>. QED  BY <2>1, <2>2
\* The call that slips through was the only one past gate 3.
<1>7. ASSUME NEW t \in Threads, Dispatch(t) PROVE SlipInv'
  <2>1. \A u \in Threads : ~Past(pc'[u])
    BY <1>7, Exclusive DEF Dispatch, Goto, IndInv, TypeOK, Gates
  <2>2. slipped' \in {0, 1}
    BY <1>7 DEF Dispatch, IndInv, SlipInv, Gates
  <2>. QED  BY <2>1, <2>2 DEF SlipInv
<1>8. ASSUME NEW t \in Threads, NEW r \in Requests, NEW k \in Tokens,
             Call(t, r, k)
      PROVE  SlipInv'
  BY <1>1, <1>8 DEF Call, Goto, IndInv, TypeOK, Gates, safetyVars, ghostVars
<1>9. ASSUME NEW t \in Threads,
             \/ Enter(t) \/ Replay(t) \/ Conflict(t)
             \/ BreakerGate(t) \/ CapacityGate(t)
             \/ \E resolves \in BOOLEAN : EgressGate(t, resolves)
             \/ \E s \in Outcomes : Respond(t, s)
             \/ Refuse(t) \/ Record(t) \/ Audit(t)
      PROVE  SlipInv'
  <2>1. UNCHANGED <<slipped, switches>>
    BY <1>9 DEF Enter, Replay, Conflict, BreakerGate, EgressGate,
                CapacityGate, Respond, Refuse, Record, Audit, safetyVars,
                ghostVars
  <2>2. \/ Finish(t)
        \/ \E g \in PCs : Goto(t, g) /\ (Past(g) => Past(pc[t]))
                          /\ UNCHANGED request
    BY <1>9 DEF Enter, Replay, Conflict, BreakerGate, EgressGate,
                CapacityGate, Respond, Refuse, Record, Audit, Leave, PCs,
                Gates, Sent
  <2>. QED  BY <1>5, <2>1, <2>2
<1>10. ASSUME NEW n, \/ ArbitrateCapacity(n)
                     \/ \E c \in Channels : ArbitrateBreaker(c, n)
       PROVE  SlipInv'
  BY <1>1, <1>10 DEF ArbitrateCapacity, ArbitrateBreaker, callVars, ghostVars
<1>. QED
  BY <1>2, <1>3, <1>4, <1>6, <1>7, <1>8, <1>9, <1>10 DEF Next, Proceed

-----------------------------------------------------------------------------
(* The capacity governor.                                                  *)

\* The history has every reservation that a window can see which ends no
\* earlier than the governor's latest time.
WindowInv ==
    /\ Follows(history, reserved, latest)
    /\ TimelyWithinLimits

LEMMA InitWindowInv == Init => WindowInv
<1>. SUFFICES ASSUME Init PROVE WindowInv
  OBVIOUS
<1>1. Follows(<<>>, <<>>, 0)
  <2>1. SubSeq(<<>>, 1, 0) = <<>>
    BY SubSeqEmpty
  <2>2. 0 + 1 = 1 /\ Len(<<>>) = 0 /\ 0 \in 0..0
    OBVIOUS
  <2>. QED  BY <2>1, <2>2 DEF Follows
<1>. QED  BY <1>1 DEF WindowInv, Init, TimelyWithinLimits

\* Gate 6 may be given a time before the latest.  What it purges then no later
\* window sees, and only a reservation at the latest time itself is timely.
LEMMA WindowStep == IndInv /\ WindowInv /\ [Next]_vars => WindowInv'
<1>. SUFFICES ASSUME IndInv, WindowInv, [Next]_vars PROVE WindowInv'
  OBVIOUS
<1>t. /\ reserved \in Seq(Reservation) /\ Len(reserved) \in Nat
      /\ DOMAIN reserved = 1..Len(reserved)
      /\ timely \subseteq 1..Len(reserved) /\ latest \in Nat
  BY DEF IndInv, TypeOK
<1>1. CASE UNCHANGED <<history, windowVars>>
  BY <1>1 DEF WindowInv, Follows, TimelyWithinLimits
<1>2. ASSUME NEW n \in Nat
      PROVE  /\ Later(n) \in Nat /\ latest <= Later(n) /\ n <= Later(n)
             /\ n >= latest => Later(n) = n
             /\ Follows(Purge(history, n), reserved, Later(n))
  <2>1. /\ Later(n) \in Nat /\ latest <= Later(n) /\ n <= Later(n)
        /\ n >= latest => Later(n) = n
    BY <1>t DEF Later
  <2>. QED  BY <1>t, <2>1, PurgeFollows DEF WindowInv
<1>3. ASSUME NEW n \in 0..clock, ArbitrateCapacity(n) PROVE WindowInv'
  <2>1. n \in Nat
    BY DEF IndInv, TypeOK
  <2>2. Follows(history', reserved', latest')
    BY <1>2, <1>3, <2>1 DEF ArbitrateCapacity
  <2>3. TimelyWithinLimits'
    BY <1>3 DEF ArbitrateCapacity, WindowInv, TimelyWithinLimits
  <2>. QED  BY <2>2, <2>3 DEF WindowInv
<1>4. ASSUME NEW t \in Threads, CapacityGate(t) PROVE WindowInv'
  <2>. DEFINE live == Purge(history, now[t])
              r == [at |-> now[t], amount |-> request[t].amount]
              n == Len(reserved)
  <2>1. /\ request[t].amount \in Nat /\ now[t] \in Nat /\ r \in Reservation
        /\ r.at = now[t] /\ r.amount = request[t].amount
    BY <1>4, RequestType DEF CapacityGate, IndInv, Reservation
  <2>2. latest' = Later(now[t])
    BY <1>4 DEF CapacityGate
  <2>3. Follows(live, reserved, Later(now[t]))
    BY <1>2, <2>1
  <2>4. CASE HasRoom(live, request[t].amount)
    <3>1. /\ history' = Append(live, r)
          /\ reserved' = Append(reserved, r)
          /\ timely' = IF now[t] >= latest THEN timely \cup {n + 1} ELSE timely
      BY <1>4, <2>4 DEF CapacityGate, Reserve
    <3>. HIDE DEF live, r
    <3>2. Follows(history', reserved', latest')
      BY <1>t, <1>2, <2>1, <2>2, <2>3, <3>1, AppendFollows
    <3>3. /\ Append(reserved, r)[n + 1] = r
          /\ \A i \in 1..n : Append(reserved, r)[i] = reserved[i]
      BY <1>t, <2>1, AppendProperties
    <3>4. ASSUME NEW i \in timely
          PROVE  WithinLimits(reserved', i, reserved'[i].at - WindowSeconds)
      <4>1. i \in 1..n /\ i \in 0..n
        BY <1>t
      <4>2. WithinLimits(reserved, i, reserved[i].at - WindowSeconds)
        BY DEF WindowInv, TimelyWithinLimits
      <4>3. reserved'[i].at = reserved[i].at
        BY <3>1, <3>3, <4>1
      <4>. QED  BY <1>t, <2>1, <3>1, <4>1, <4>2, <4>3, LimitsPrefix
    <3>5. ASSUME now[t] >= latest
          PROVE  WithinLimits(reserved', n + 1,
                              reserved'[n + 1].at - WindowSeconds)
      <4>1. Follows(live, reserved, now[t])
        BY <1>2, <2>1, <2>3, <3>5
      <4>2. HasRoom(live, r.amount)
        BY <2>1, <2>4
      <4>3. WithinLimits(Append(reserved, r), n + 1, now[t] - WindowSeconds)
        BY <1>t, <2>1, <4>1, <4>2, RoomWithinLimits
      <4>. QED  BY <2>1, <3>1, <3>3, <4>3
    <3>6. TimelyWithinLimits'
      BY <3>1, <3>4, <3>5 DEF TimelyWithinLimits
    <3>. QED  BY <3>2, <3>6 DEF WindowInv
  <2>5. CASE ~HasRoom(live, request[t].amount)
    <3>1. history' = live /\ UNCHANGED <<reserved, timely>>
      BY <1>4, <2>5 DEF CapacityGate, Reserve
    <3>2. TimelyWithinLimits'
      BY <3>1 DEF WindowInv, TimelyWithinLimits
    <3>. QED  BY <2>2, <2>3, <3>1, <3>2 DEF WindowInv
  <2>. QED  BY <2>4, <2>5
\* The other steps leave the governor.
<1>5. ASSUME NEW t \in Threads, Proceed(t), ~CapacityGate(t)
      PROVE  UNCHANGED <<history, windowVars>>
  BY <1>5 DEF Proceed, Enter, Replay, Conflict, SwitchGate, BreakerGate,
              EgressGate, Dispatch, Respond, Refuse, Record, Audit,
              safetyVars, ghostVars
<1>6. ASSUME NEW t \in Threads, NEW r \in Requests, NEW k \in Tokens,
             Call(t, r, k)
      PROVE  UNCHANGED <<history, windowVars>>
  BY <1>6 DEF Call, safetyVars, ghostVars
<1>7. ASSUME \/ \E c \in Channels, n \in 0..clock : ArbitrateBreaker(c, n)
             \/ \E s \in Switches : Activate(s) \/ Deactivate(s)
             \/ ResetSwitches \/ ResetBreakers \/ Tick \/ UNCHANGED vars
      PROVE  UNCHANGED <<history, windowVars>>
  BY <1>7 DEF ArbitrateBreaker, Activate, Deactivate, ResetSwitches,
              ResetBreakers, Tick, vars, safetyVars, ghostVars
<1>. QED  BY <1>1, <1>3, <1>4, <1>5, <1>6, <1>7 DEF Next

-----------------------------------------------------------------------------
(* The theorems.                                                           *)

LEMMA Inductive == Spec => []IndInv
<1>1. IndInv /\ [Next]_vars => IndInv'
  BY TypeStep, LockStep, CallStep, StoreStep, AnswerStep, AuditStep, SlipStep
     DEF IndInv
<1>. QED  BY <1>1, InitIndInv, PTL DEF Spec

\* Every variable keeps its type: no counter of a breaker falls below zero,
\* and what is stored and logged is of a request that was made.
THEOREM TypeCorrect == Spec => []TypeOK
BY Inductive, PTL DEF IndInv

\* The action of a key is dispatched at most once unless the result of a
\* dispatch was refused, and the result recorded for the key is of the request
\* that was dispatched.
THEOREM ExecutesAtMostOnce == Spec => []AtMostOnce
<1>1. IndInv => AtMostOnce
  <2>. SUFFICES ASSUME IndInv, NEW k \in Keys
                PROVE  /\ Len(performed[k]) <= 1
                       /\ store[k] # None =>
                             performed[k] = <<store[k].request>>
    BY DEF AtMostOnce
  <2>1. \/ performed[k] = <<>>
        \/ \E r : performed[k] = <<r>>
    <3>1. CASE store[k] # None
      BY <3>1 DEF IndInv, StoreInv
    <3>2. CASE store[k] = None /\ performed[k] # <<>>
      <4>1. PICK t \in Threads : /\ pc[t] \in {"response", "record"}
                                 /\ request[t].key = k
        BY <3>2 DEF IndInv, StoreInv
      <4>. QED  BY <4>1 DEF IndInv, CallInv
    <3>. QED  BY <3>1, <3>2
  <2>2. Len(performed[k]) <= 1
    <3>1. CASE performed[k] = <<>>
      BY <3>1
    <3>2. ASSUME NEW r, performed[k] = <<r>> PROVE Len(performed[k]) <= 1
      BY <3>2
    <3>. QED  BY <2>1, <3>1, <3>2
  <2>. QED  BY <2>2 DEF IndInv, StoreInv
<1>. QED  BY <1>1, Inductive, PTL

\* Two callers that are given a result for one key are given the same result
\* of the same request.
THEOREM AnswersAgree == Spec => []OneAnswerPerKey
<1>1. IndInv => OneAnswerPerKey
  <2>. SUFFICES ASSUME IndInv, NEW a \in answered, NEW b \in answered,
                       a.request.key = b.request.key
                PROVE  a = b
    BY DEF OneAnswerPerKey
  <2>1. a.request = b.request /\ a.outcome = b.outcome
    BY DEF IndInv, AnswerInv
  <2>2. /\ a \in [request : Requests, outcome : Outcomes]
        /\ b \in [request : Requests, outcome : Outcomes]
    BY DEF IndInv, TypeOK
  <2>. QED  BY <2>1, <2>2
<1>. QED  BY <1>1, Inductive, PTL

\* What was dispatched and not refused is in the store and in the log with one
\* outcome, but for what the thread with the lock is finishing, and nothing is
\* logged twice.
THEOREM AuditComplete == Spec => []AuditAgreesWithStore
<1>1. IndInv => AuditAgreesWithStore
  <2>. SUFFICES ASSUME IndInv PROVE AuditAgreesWithStore
    OBVIOUS
  <2>1. ASSUME NEW k \in Keys, performed[k] # <<>>
        PROVE  \/ Audited(k)
               \/ \E t \in Threads : /\ lock = t
                                     /\ pc[t] \in Sent
                                     /\ request[t].key = k
    BY <2>1 DEF IndInv, StoreInv, AuditInv, LockInv, Sent
  <2>2. \A i, j \in DOMAIN audit : audit[i].key = audit[j].key => i = j
    BY DEF IndInv, AuditInv
  <2>. QED  BY <2>1, <2>2 DEF AuditAgreesWithStore
<1>. QED  BY <1>1, Inductive, PTL

\* After an activation at most one request that is halted is dispatched.
THEOREM KillSwitchStops == Spec => []SlippedAtMostOne
<1>1. IndInv => SlippedAtMostOne
  BY DEF IndInv, SlipInv, SlippedAtMostOne
<1>. QED  BY <1>1, Inductive, PTL

\* The governor holds with every reservation it makes at a time no earlier
\* than those it was given before: the window that ends then is within its
\* limits, whoever asked it and whatever was purged in between.
THEOREM WindowHolds == Spec => []TimelyWithinLimits
<1>1. Spec => [](IndInv /\ WindowInv)
  BY Inductive, InitWindowInv, WindowStep, PTL DEF Spec
<1>. QED  BY <1>1, PTL DEF WindowInv

\* A dispatch performs a request of the abstract service, the two steps that
\* return a result answer it and a refused result is forgotten; every other
\* step is invisible there.
LEMMA StepImplements == IndInv /\ [Next]_vars => [Service!Next]_(Service!vars)
<1>. SUFFICES ASSUME IndInv, [Next]_vars
              PROVE  [Service!Next]_(Service!vars)
  OBVIOUS
<1>1. ASSUME UNCHANGED <<performed, answered>>
      PROVE  [Service!Next]_(Service!vars)
  BY <1>1 DEF Service!vars
<1>2. ASSUME NEW t \in Threads, Dispatch(t) PROVE Service!Next
  <2>1. request[t] \in Requests
    BY <1>2, RequestType DEF Dispatch, IndInv
  <2>2. performed[request[t].key] = <<>>
    BY <1>2 DEF Dispatch, IndInv, CallInv, Gates
  <2>3. performed' = [performed EXCEPT ![request[t].key] = <<request[t]>>]
    BY <1>2, <2>2 DEF Dispatch
  <2>4. Service!Perform(request[t])
    BY <1>2, <2>2, <2>3 DEF Dispatch, Service!Perform
  <2>. QED  BY <2>1, <2>4 DEF Service!Next
\* An answer that the store gives agrees with those given before.
<1>3. ASSUME NEW r \in Requests, NEW o \in Outcomes,
             store[r.key] # None,
             store[r.key].request = r, store[r.key].outcome = o,
             answered' = answered \cup {[request |-> r, outcome |-> o]},
             UNCHANGED performed
      PROVE  Service!Next
  <2>1. performed[r.key] = <<r>>
    BY <1>3 DEF IndInv, StoreInv, Keys
  <2>2. \A a \in answered : a.request.key = r.key => a.outcome = o
    BY <1>3 DEF IndInv, AnswerInv
  <2>3. Service!Answer(r, o)
    BY <1>3, <2>1, <2>2 DEF Service!Answer
  <2>. QED  BY <2>3 DEF Service!Next
<1>4. ASSUME NEW t \in Threads, Replay(t) PROVE Service!Next
  <2>1. request[t] \in Requests /\ request[t].key \in Keys
    BY <1>4, RequestType DEF Replay, IndInv
  <2>2. store[request[t].key] \in Result
    BY <1>4, <2>1 DEF Replay, IndInv, TypeOK
  <2>. QED  BY <1>3, <1>4, <2>1, <2>2 DEF Replay, Matches, Result
<1>5. ASSUME NEW t \in Threads, Audit(t) PROVE Service!Next
  <2>1. request[t] \in Requests /\ now[t] \in Nat
    BY <1>5, RequestType DEF Audit, IndInv
  <2>2. status[t] \in Outcomes /\ store[request[t].key] = ResultOf(t)
    BY <1>5 DEF Audit, IndInv, CallInv
  <2>3. store[request[t].key] # None
    BY <2>1, <2>2, ExecutorAssumption DEF ResultOf, Result
  <2>. QED  BY <1>3, <1>5, <2>1, <2>2, <2>3 DEF Audit, ResultOf
<1>6. ASSUME NEW t \in Threads, NEW s \in Outcomes, Respond(t, s)
      PROVE  UNCHANGED <<performed, answered>>
  BY <1>6 DEF Respond, ghostVars
<1>7. ASSUME NEW t \in Threads, Record(t)
      PROVE  UNCHANGED <<performed, answered>>
  BY <1>7 DEF Record, ghostVars
<1>8. ASSUME NEW t \in Threads, Refuse(t) PROVE Service!Next
  <2>. DEFINE r == request[t]
  <2>1. r \in Requests /\ store[r.key] = None /\ performed[r.key] = <<r>>
    BY <1>8, RequestType DEF Refuse, IndInv, CallInv
  <2>2. \A a \in answered : a.request.key # r.key
    BY <2>1 DEF IndInv, AnswerInv
  <2>3. Service!Forget(r)
    BY <1>8, <2>1, <2>2 DEF Refuse, Service!Forget
  <2>. QED  BY <2>1, <2>3 DEF Service!Next
<1>. QED
  BY <1>1, <1>2, <1>4, <1>5, <1>6, <1>7, <1>8, StepKinds, QuietCallMoves,
     AsideMovesNone DEF Quiet

\* The executor implements the at-most-once service.
THEOREM Refinement == Spec => ImplementsService
<1>1. Init => Service!Init
  BY DEF Init, Service!Init, Keys, Service!Keys
<1>. QED
  BY <1>1, StepImplements, Inductive, PTL
     DEF Spec, ImplementsService, Service!Spec

=============================================================================
