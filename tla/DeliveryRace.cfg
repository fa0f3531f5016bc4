\* The Backend answers 409 to a result it could have recorded, and nothing
\* else goes wrong.
SPECIFICATION Spec
CONSTANTS
    Workers = {w1}
    Faults = {"race"}
    Kinds = {"analysis"}
    MaxPostAttempts = 3
    MaxProviderRetries = 3
    MaxCallbackRetries = 3
    MaxProgress = 1
    MaxCrashes = 0
    MaxRedeliveries = 0
    MaxLate = 0
    MaxCounted = 2
INVARIANTS
    ResultSurvivesRace
CHECK_DEADLOCK FALSE
