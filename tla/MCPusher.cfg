SPECIFICATION FairSpec
CONSTANTS
    MaxBuffered = 2
    RequestTimeout = 2
    SendDeadline = 3
    backoff <- MCBackoff
    OnceRetries = 1
    OnceRetryDelay = 1
    Budgets <- MCBudgets
    Redirects = TRUE
    MaxCalls = 3
INVARIANTS
    TypeOK
    NothingLost
    CountersAddUp
    OldestFirst
    LossNeedsYounger
PROPERTIES
    NeverPostedAgain
    ImplementsOutbox
    CallReturns
CHECK_DEADLOCK FALSE
