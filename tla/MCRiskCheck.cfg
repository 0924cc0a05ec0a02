SPECIFICATION PathSpec
CONSTANTS
    None = None
    NaN = NaN
    Junk = Junk
    Missing = Missing
    Families <- AllFamilies
    AnySymbol = "EURUSD"
    AnyContext <- C0
    AnyConfig <- G0
    Inputs <- AllInputs
    StrategyList <- Donchian
    NoInput = NoInput
INVARIANTS
    ApprovedWithinLimits
    PlannedTradesFollowSignal
    TighteningNeverApproves
    UnknownFailsClosed
    TradesBreakStructure
    LimitsHoldOnTerminal
    ConfiguredLimitsHold
    FailedRepliesHold
