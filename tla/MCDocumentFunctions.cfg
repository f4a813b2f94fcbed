CONSTANTS
    MaxPages = 3
    Concurrency = 2
    maxRetries = 1
    ResponsesOf <- MCResponsesOf
    Mentions <- MCMentions
    Tasks <- MCTasks
    Receipts <- MCReceipts
    Identities <- MCIdentities
    Answers <- MCAnswers
    Today <- MCToday
SPECIFICATION Spec
CHECK_DEADLOCK FALSE
INVARIANTS
    FnTypeOK
    MergedInPageOrder
    GivenUpOnlyWhenSpent
    ExecutedMeansSigned
    ReadInColumns
    HighConfidenceAddsUp
    IdChecksAreTrue
    FilledAsAsked
    VerdictIsTheSignatures
PROPERTIES
    RecognitionSettles
