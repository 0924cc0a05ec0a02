SPECIFICATION FairSpec
CONSTANTS
    None = None
    NaN = NaN
    RunArgs <- LoopOnOne
    Config <- ManyPositions
    Account <- Account0
    DefaultVolume = 1
    Proposable <- BuyOrHold
    MaxFailures = 2
    StaleAfter = 2
    Latency = 0
    Delay = 0
    Events <- Failures
    MaxCycles = 3
    MaxTime = 2
INVARIANTS
    HaltAfterFailures
    OrdersMatchApprovals
    PacedLoopNeverCools
PROPERTIES
    StopEndsLoop
    CyclesFinish
CHECK_DEADLOCK FALSE
