SPECIFICATION Spec
CONSTANTS
    None = None
    Seeds <- MCSeeds
    Profile <- MCProfile
    Limits <- MCLimits
    Sizes <- MCSizes
    Caller <- MCNobody
    Runner <- MCRunner
    MaxEpisodes = 2
    MaxModelCalls = 2
    MaxRetries = 1
    CallsPerTurn = 2
PROPERTIES
    WallClockStops
CHECK_DEADLOCK FALSE
