----------------------- MODULE MCComplianceScheduler ------------------------
(***************************************************************************)
(* ComplianceScheduler for TLC: two mandatory obligations and two          *)
(* optional ones that collide at time 1; one of each may be moved to time  *)
(* 2 and all may be satisfied, which leaves those that lost to them.       *)
(***************************************************************************)
EXTENDS ComplianceScheduler

Ob(id, mandatory, rank, time, status) ==
    [id |-> id, mandatory |-> mandatory, rank |-> rank, time |-> time,
     status |-> status, reason |-> None]

MCIncoming ==
    UNION {{Ob(1, TRUE, 4, 1, s), Ob(2, TRUE, 1, 1, s), Ob(3, FALSE, 1, 1, s),
            Ob(4, FALSE, 4, 1, s)} :
              s \in {"PENDING", "SATISFIED"}}
    \cup {Ob(1, TRUE, 4, 2, "PENDING"), Ob(4, FALSE, 4, 2, "PENDING")}

=============================================================================
