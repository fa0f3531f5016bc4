\* Two consumers of one queue, which fail, die and are started again.
SPECIFICATION Spec
CONSTANTS
    c1 = c1
    c2 = c2
    j1 = j1
    j2 = j2
    j3 = j3
    Consumers = {c1, c2}
    Jobs = {j1, j2, j3}
    NoJob = NoJob
    Forms = {"valid", "nameless"}
    NumQueues = 1
    DeadLetterLimit = 1
    MaxFailures = 1
    MaxInterruptions = 1
    MaxLostClaims = 0
INVARIANTS
    TypeOK
    DeadLettersBounded
PROPERTIES
    ImplementsLine
SYMMETRY PairSymmetry
CHECK_DEADLOCK FALSE
