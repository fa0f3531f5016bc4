\* Two workers that crash and are given the same message, over a network that
\* loses answers and delays updates.
SPECIFICATION Spec
CONSTANTS
    w1 = w1
    w2 = w2
    Workers = {w1, w2}
    Faults = {"outage", "lost", "late", "crash", "redelivery"}
    Kinds = {"analysis"}
    MaxPostAttempts = 1
    MaxProviderRetries = 1
    MaxCallbackRetries = 0
    MaxProgress = 0
    MaxCrashes = 1
    MaxRedeliveries = 1
    MaxLate = 1
    MaxCounted = 0
INVARIANTS
    TypeOK
    NoJobLost
PROPERTIES
    ImplementsPromise
SYMMETRY WorkerSymmetry
CHECK_DEADLOCK FALSE
