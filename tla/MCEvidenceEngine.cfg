CONSTANTS
    e1 = e1
    e2 = e2
    a = a
    b = b
    None = None
    Evaluators = {e1, e2}
    Cases = {a, b}
    Requests <- MCRequests
    MaxEntries = 3
    MaxEvaluations = 2
SPECIFICATION Spec
SYMMETRY EvaluatorSymmetry
INVARIANTS
    TypeOK
    ClaimWithinWindow
    GrossAloneNotApproved
    EveryClaimLogged
CHECK_DEADLOCK FALSE
