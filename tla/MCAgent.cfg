SPECIFICATION FairAgentSpec
CONSTANTS
    MaxBuffered = 1
    RequestTimeout = 2
    SendDeadline = 3
    backoff <- MCBackoff
    OnceRetries = 1
    OnceRetryDelay = 1
    ShutdownBudget = 3
    Budgets <- MCBudgets
    Redirects = FALSE
    MaxCalls = 4
INVARIANTS
    ATypeOK
    Composition
    GoodbyeUnlessLate
PROPERTIES
    GoodbyeIsLast
    OneBudget
    StopsAfterSignal
CHECK_DEADLOCK FALSE
