CONSTANTS
    a1 = a1
    a2 = a2
    b1 = b1
    t1 = t1
    r1 = r1
    r2 = r2
    web1 = web1
    web2 = web2
    Ids <- MCIds
    Tokens <- MCTokens
    Requests <- MCRequests
    Processes <- MCProcesses
    EmailOf <- MCEmailOf
    BootstrapEmail = "first"
    Roles <- MCRoles
    Patches <- MCPatches
    Commands = {}
SPECIFICATION Spec
CHECK_DEADLOCK FALSE
PROPERTIES
    LastOwnerNeverRemoved
