\* An analysis or a report, and an erasure, one after the other.
SPECIFICATION Spec
CONSTANTS
    Runs = {r1, r2}
    Kinds = {"analysis", "report", "erasure"}
    MaxActive = 1
INVARIANTS
    ErasurePurges
CHECK_DEADLOCK FALSE
