SPECIFICATION Spec
CONSTANTS
    Responses <- MCResponses
    Diarizations <- MCDiarizations
    Durations <- MCDurations
    Pictures <- MCPictures
    Sounds <- MCSounds
    Rounds <- MCRounds
    Opinions <- MCOpinions
    Mappings <- MCMappings
INVARIANTS
    SpansWithinRecording CleaningKeepsSpeech FillersAddUp
    OverallIsTheMean SkippingNeverPays PraiseIsGrounded
CHECK_DEADLOCK FALSE
