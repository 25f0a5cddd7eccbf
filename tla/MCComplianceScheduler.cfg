CONSTANTS
    None = None
    Incoming <- MCIncoming
SPECIFICATION Spec
INVARIANTS
    TypeOK
    WinnersPrevail
    ResolutionIsStable
    AuditFollowsStatus
PROPERTIES
    ObligationsKept
