SPECIFICATION AgentSpec
CONSTANTS
    MaxBuffered = 4
    RequestTimeout = 20
    SendDeadline = 24
    backoff <- MCRealBackoff
    OnceRetries = 2
    OnceRetryDelay = 1
    ShutdownBudget = 24
    Budgets <- MCRealBudgets
    Redirects = FALSE
    MaxCalls = 3
INVARIANT
    GoodbyeIsPosted
CHECK_DEADLOCK FALSE
