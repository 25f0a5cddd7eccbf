CONSTANTS
    c1 = c1
    c2 = c2
    c3 = c3
    Callers = {c1, c2, c3}
    MaxTime = 3
    FailureThreshold = 2
    RecoveryTimeout = 1
    SuccessThreshold = 2
    MaxProbes = 1
SPECIFICATION Spec
SYMMETRY CallerSymmetry
INVARIANTS
    TypeOK
    BreakerConsistent
    ProbeLimit
PROPERTIES
    OpenHoldsForTimeout
    ImplementsGate
