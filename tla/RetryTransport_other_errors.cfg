SPECIFICATION FairSpec
CONSTANTS
    Calls = {c1}
    MaxRetries = 3
    RetryIfs <- DefaultClassifier
    DelayStep = 2
    MaxRetryAfter = 25
    Second = 10
    RetryAfters <- Headers
    MaxInt = 1000
PROPERTIES
    OtherErrorsTerminal
\* The calls end.
CHECK_DEADLOCK FALSE
