CONSTANTS
    w1 = w1
    w2 = w2
    None = None
    Workers = {w1, w2}
    Events <- MCEvents
    Proposals <- MCProposals
    Policies <- MCPolicies
    PolicyIds <- MCPolicyIds
    Configs <- MCConfigs
    Score <- MCScore
    Obligations <- MCObligations
    Switches <- MCSwitches
    Trippable <- MCTrippable
    TokenLife = 1
    MaxTime = 1
    MaxInterventions = 1
    HighValue = 2
    MaxAttempts = 1
    FailureThreshold = 1
    RecoveryTimeout = 1
    SuccessThreshold = 1
    MaxProbes = 1
    MaxActions = 1
    MaxVolume = 2
    WindowSeconds = 1
SPECIFICATION Spec
CHECK_DEADLOCK FALSE
PROPERTY NoExecutionWhenFrozen
