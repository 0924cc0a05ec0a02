SPECIFICATION Spec
CONSTANTS
    None = None
    NaN = NaN
    RunArgs <- PacedOrTwice
    Config <- TwoPositions
    Account <- Account0
    DefaultVolume = 1
    Proposable <- AnyVolume
    MaxFailures = 2
    StaleAfter = 2
    Latency = 1
    Delay = 1
    Events <- Restarts
    MaxCycles = 3
    MaxTime = 5
INVARIANTS
    TypeOK
    NoPyramiding
    PositionsWithinLimits
CHECK_DEADLOCK FALSE
