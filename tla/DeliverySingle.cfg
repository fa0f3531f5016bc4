\* One worker process that may die, each kind of envelope, every fault of the
\* network, and a user who may cancel: nothing is delivered twice or late.
SPECIFICATION Spec
CONSTANTS
    Workers = {w1}
    Faults = {"outage", "lost", "race", "refusal", "exception", "cancel", "crash"}
    Kinds = {"analysis", "erase", "invalid", "unidentified"}
    MaxPostAttempts = 2
    MaxProviderRetries = 1
    MaxCallbackRetries = 0
    MaxProgress = 1
    MaxCrashes = 1
    MaxRedeliveries = 0
    MaxLate = 0
    MaxCounted = 4
INVARIANTS
    OneResult
    RunsAreBounded
    CancelledBeforeTaken
    ResumesAboveRecorded
CHECK_DEADLOCK FALSE
