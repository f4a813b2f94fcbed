CONSTANTS
    FnDef <- OcrFunction
    ProviderDef <- OcrProvider
    Policy <- defaultProviderPolicy
    Registries <- MCRegistries
    Groups <- MimeGroup
    Files <- MCFiles
SPECIFICATION IngestSpec
CHECK_DEADLOCK FALSE
INVARIANTS
    TypeOK
    ChainIsExactlyTheCapable
    ChainFollowsPreference
    AcceptedIsRoutable
