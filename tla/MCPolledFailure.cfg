CONSTANTS
    j1 = j1
    w1 = w1
    w2 = w2
    p1 = p1
    Jobs <- MCJobs
    Workers <- MCWorkers
    Pollers <- MCPollers
    JobTenant <- MCJobTenant
    Tenants <- MCTenants
    OcrErrorCode <- MCCodes
    Concurrency = 1
    MaxStalledCount = 1
    MaxCrashes = 1
    MaxSignals = 1
SPECIFICATION Spec
CHECK_DEADLOCK FALSE
PROPERTIES
    PolledFailureIsTyped
