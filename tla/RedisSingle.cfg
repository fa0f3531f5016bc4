\* One consumer of two queues, one of whose claims may be lost, under fair scheduling.
SPECIFICATION FairSpec
CONSTANTS
    Consumers = {c1}
    Jobs = {j1, j2}
    NoJob = NoJob
    Forms = {"valid", "named", "nameless"}
    NumQueues = 2
    DeadLetterLimit = 1
    MaxFailures = 1
    MaxInterruptions = 1
    MaxLostClaims = 1
INVARIANTS
    ReturnsFailedItem
PROPERTIES
    ImplementsLine
    EveryItemLeaves
CHECK_DEADLOCK FALSE
