SPECIFICATION Spec
CONSTANTS
    Pools = {"speech", "judge"}
    Callers <- Askers
    KeyCounts = {2, 3}
    Bundles <- MCBundles
    Candidates <- MCCandidates
    Assessments <- MCAssessments
    Feedbacks <- MCFeedbacks
    Speakers = {"SPEAKER_00", "SPEAKER_01"}
    UsableSets <- MCUsableSets
    MaxJobs = 2
INVARIANTS
    TypeOK EveryKeyOnce EvenTurns OwnKeyFirst UsableKeySuffices
    PanelOfThree FallbackIsDeclared CreditIsEarned FeedbackForEverySpeaker
PROPERTY JobsEnd
CHECK_DEADLOCK FALSE
