CONSTANTS
    r1 = r1
    r2 = r2
    FnDef <- OcrFunction
    ProviderDef <- OcrProvider
    Policy <- defaultProviderPolicy
    Runs <- MCRuns
    Shas <- MCShas
    GroupOf <- MCGroupOf
    PagesOf <- MCPagesOf
    Functions <- MCFunctions
    Registry <- MCRegistry
    TenantOf <- MCTenantOf
    RedisMayFail = TRUE
    LlmFunctions <- MCLlmFunctions
SPECIFICATION SpendingSpec
CHECK_DEADLOCK FALSE
INVARIANTS
    CountsWhatIsConsumed
