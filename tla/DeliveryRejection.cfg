\* The Backend rejects updates: 401, 404, and 409 after a cancellation.
SPECIFICATION Spec
CONSTANTS
    Workers = {w1}
    Faults = {"refusal", "cancel"}
    Kinds = {"analysis"}
    MaxPostAttempts = 3
    MaxProviderRetries = 3
    MaxCallbackRetries = 3
    MaxProgress = 1
    MaxCrashes = 0
    MaxRedeliveries = 0
    MaxLate = 0
    MaxCounted = 2
PROPERTIES
    RejectionStopsTask
CHECK_DEADLOCK FALSE
