CONSTANTS
    t1 = t1
    t2 = t2
    None = None
    Threads = {t1, t2}
    Requests <- MCRequests
    Tokens <- MCTokens
    SafeUrls <- MCSafeUrls
    Switches <- MCSwitches
    MaxTime = 2
    FailureThreshold = 1
    RecoveryTimeout = 1
    SuccessThreshold = 1
    MaxProbes = 1
    MaxActions = 1
    MaxVolume = 2
    WindowSeconds = 1
SPECIFICATION FairSpec
INVARIANTS
    TypeOK
    AtMostOnce
    OneAnswerPerKey
    AuditAgreesWithStore
    SlippedAtMostOne
    TimelyWithinLimits
PROPERTIES
    ImplementsService
    DispatchIsAudited
