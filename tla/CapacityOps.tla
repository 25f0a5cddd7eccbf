---------------------------- MODULE CapacityOps -----------------------------
(***************************************************************************)
(* The methods of CapacityGovernor (safety/circuit_breaker.py) as          *)
(* operators on its history, a sequence of reservations in the order they  *)
(* were made.  Each method runs under the governor's lock.                 *)
(***************************************************************************)
EXTENDS Integers, Sequences, FiniteSets

CONSTANTS MaxActions,     \* max_actions_per_window
          MaxVolume,      \* max_volume_in_cents_per_window
          WindowSeconds   \* window_seconds

ASSUME CapacityAssumption ==
    /\ MaxActions \in Nat \ {0}
    /\ MaxVolume \in Nat \ {0}
    /\ WindowSeconds \in Nat \ {0}

Reservation == [at : Nat, amount : Nat]

-----------------------------------------------------------------------------

\* Mutant: what is exactly as old as the window is dropped too.
PurgeEarly(history, now) ==
    LET expired == {n \in 0..Len(history) :
                      \A i \in 1..n : history[i].at <= now - WindowSeconds}
    IN  SubSeq(history, Cardinality(expired), Len(history))

\* _purge_expired drops from the head while the head is older than the
\* window that ends now.  A longer expired prefix holds every shorter one,
\* so their number, the empty prefix included, is where the rest begins.
Purge(history, now) ==
    LET expired == {n \in 0..Len(history) :
                      \A i \in 1..n : history[i].at < now - WindowSeconds}
    IN  SubSeq(history, Cardinality(expired), Len(history))

\* The sum of a sequence of numbers.
Total(f) ==
    LET sum[n \in 0..Len(f)] == IF n = 0 THEN 0 ELSE sum[n - 1] + f[n]
    IN  sum[Len(f)]

Volume(history) == Total([i \in DOMAIN history |-> history[i].amount])

\* Whether check_capacity_available returns on a purged history.
HasRoom(history, amount) ==
    /\ Len(history) + 1 <= MaxActions
    /\ Volume(history) + amount <= MaxVolume

\* The history record_action leaves: the purge stays when it refuses.
Reserve(history, amount, now) ==
    LET live == Purge(history, now)
    IN  IF HasRoom(live, amount)
        THEN Append(live, [at |-> now, amount |-> amount])
        ELSE live

-----------------------------------------------------------------------------
(* What the governor is to enforce: s stands for all the reservations that *)
(* were ever made, in their order, purged or not.                          *)

\* Those of the first n that a window sees which starts at a time.
Inside(s, n, from) == {i \in 1..n : s[i].at \in from..(from + WindowSeconds)}

Amounts(s, n, from) ==
    [i \in 1..n |-> IF i \in Inside(s, n, from) THEN s[i].amount ELSE 0]

WithinLimits(s, n, from) ==
    /\ Cardinality(Inside(s, n, from)) <= MaxActions
    /\ Total(Amounts(s, n, from)) <= MaxVolume

=============================================================================
