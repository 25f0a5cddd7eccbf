CONSTANTS
    t1 = t1
    t2 = t2
    t3 = t3
    A = A
    None = None
    Threads = {t1, t2, t3}
    CaseIds = {A}
    MaxAttempts = 2
    MaxTime = 2
SPECIFICATION Spec
SYMMETRY ThreadSymmetry
INVARIANTS
    TypeOK
    TrailFollowsCase
    NoBypassOfGovernance
PROPERTIES
    CaseOnlyAdvances
    ImplementsAudited
CHECK_DEADLOCK FALSE
