\* Two runs, one after the other or at the same time.
SPECIFICATION Spec
CONSTANTS
    Runs = {r1, r2}
    Kinds = {"analysis", "answer", "report", "erasure", "retention", "answerRetention"}
    MaxActive = 2
SYMMETRY RunSymmetry
INVARIANTS
    TypeOK
    SurvivorsAreNew
    OnlyLateCheckpointsSurvive
    CancelledNeverCompletes
    CompletedIsStored
CHECK_DEADLOCK FALSE
