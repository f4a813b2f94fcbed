CONSTANTS
    MaxPages = 3
    Concurrency = 2
    maxRetries = 1
    ResponsesOf <- MCResponsesOf
    Mentions <- MCMentions
    Tasks <- MCTasks
    Receipts <- MCReceipts
    Identities <- MCIdentities
    Answers <- MCAnswers
    Today <- MCToday
SPECIFICATION Spec
CHECK_DEADLOCK FALSE
INVARIANT ExpiredIsPast
