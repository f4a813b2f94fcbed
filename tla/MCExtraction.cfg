CONSTANTS
    r1 = r1
    r2 = r2
    FnDef <- OcrFunction
    ProviderDef <- OcrProvider
    Policy <- defaultProviderPolicy
    Runs <- MCRuns
    Shas <- MCShas
    GroupOf <- MCGroupOf
    PagesOf <- MCPagesOf
    Functions <- MCFunctions
    Registry <- MCRegistry
    TenantOf <- MCTenantOf
    RedisMayFail = TRUE
SPECIFICATION Spec
CHECK_DEADLOCK FALSE
INVARIANTS
    TypeOK
    ServedByCapable
    SensitiveStaysOutOfCache
    FallbackOnlyAfterFailures
    EveryRunCountedOnce
    CountedAsReported
PROPERTIES
    ImplementsService
