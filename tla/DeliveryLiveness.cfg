\* Fair scheduling of two workers, one of which may die, while the Backend is
\* unreachable and the user cancels.
SPECIFICATION FairSpec
CONSTANTS
    w1 = w1
    w2 = w2
    Workers = {w1, w2}
    Faults = {"outage", "cancel", "crash"}
    Kinds = {"analysis"}
    MaxPostAttempts = 2
    MaxProviderRetries = 1
    MaxCallbackRetries = 0
    MaxProgress = 0
    MaxCrashes = 1
    MaxRedeliveries = 0
    MaxLate = 0
    MaxCounted = 1
INVARIANTS
    ResultKept
PROPERTIES
    JobSettles
    BrokerDrains
CHECK_DEADLOCK FALSE
