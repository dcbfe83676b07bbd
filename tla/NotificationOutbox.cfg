SPECIFICATION FairSpec
CONSTANTS
    Notifications = {1, 2}
    RetryBudget = 3
    MaxRetriesOf <- ZeroForLast
    CeleryMaxRetries = 2
    BatchSize = 1
    MaxQueued = 2
    MaxFaults = 2
INVARIANTS
    AttemptsAccounted
    AttemptsWithinBudget
    DuplicatesOnlyFromFailures
    FailedMeansExhausted
PROPERTIES
    SettledIsFinal
    ImplementsPromise
    EventuallySettled
CHECK_DEADLOCK FALSE
