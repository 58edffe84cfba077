SPECIFICATION FairSpec
CONSTANTS
    Calls = {c1}
    MaxRetries = 4
    RetryIfs <- Classifiers
    DelayStep = 2
    MaxRetryAfter = 25
    Second = 10
    RetryAfters <- Headers
    MaxInt = 1000
INVARIANTS
    NothingLeaks
    ReplaySafe
    BudgetExact
    RetryAfterHonoured
PROPERTIES
    CancelIsFinal
    RoundTripReturns
    ImplementsRetry
\* The calls end.
CHECK_DEADLOCK FALSE
