CONSTANTS
    r1 = r1
    r2 = r2
    Requests <- MCRequests
    Calls <- MCCalls
    Tenants <- MCTenants
    FnDef <- OcrFunction
    AllowedFunctions <- MCAllowedFunctions
    RateLimit <- MCRateLimit
    Window = 2
    MaxTime = 2
    MaxOutages = 1
SPECIFICATION Spec
CHECK_DEADLOCK FALSE
INVARIANTS
    TypeOK
    WithinLimit
    LeftAsTold
PROPERTIES
    DrainEnds
    OnlyTheQueueWaits
