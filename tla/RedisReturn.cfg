\* Two consumers of one queue, one of which fails once.
SPECIFICATION Spec
CONSTANTS
    Consumers = {c1, c2}
    Jobs = {j1, j2}
    NoJob = NoJob
    Forms = {"valid"}
    NumQueues = 1
    DeadLetterLimit = 1000
    MaxFailures = 1
    MaxInterruptions = 0
    MaxLostClaims = 0
INVARIANTS
    ReturnsFailedItem
CHECK_DEADLOCK FALSE
