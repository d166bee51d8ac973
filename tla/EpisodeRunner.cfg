SPECIFICATION Spec
CONSTANTS
    None = None
    Seeds <- MCSeeds
    Profile <- MCProfile
    Limits <- MCLimits
    Sizes <- MCSizes
    Caller <- MCCaller
    Runner <- MCRunner
    MaxEpisodes = 2
    MaxModelCalls = 2
    MaxRetries = 1
    CallsPerTurn = 2
INVARIANTS
    TypeOK
    OnlyThisEpisode
    CreditIsBounded
    TimelineIsTranscript
PROPERTIES
    NoActionAfterCancel
    EpisodeEnds
CHECK_DEADLOCK FALSE
