CONSTANTS
    k1 = k1
    web1 = web1
    web2 = web2
    cli = cli
    r1 = r1
    r2 = r2
    o1 = o1
    Keys <- MCKeys
    Processes <- MCProcesses
    Clis <- MCClis
    Requests <- MCRequests
    ProcessOf <- MCProcessOf
    Operators <- MCOperators
    Ops <- MCOps
    TTL = 2
    Latency = 1
    MaxTime = 3
    MaxChanges = 2
    OverlappedToo = FALSE
SPECIFICATION Spec
SYMMETRY RequestsAlike
CHECK_DEADLOCK FALSE
INVARIANTS
    TypeOK
    AdmittedIsFresh
    ChangeIsSeenAtOnce
