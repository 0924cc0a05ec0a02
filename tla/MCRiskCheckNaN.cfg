SPECIFICATION PathSpec
CONSTANTS
    None = None
    NaN = NaN
    Junk = Junk
    Missing = Missing
    Families <- NaNFamilies
    AnySymbol = "EURUSD"
    AnyContext <- C0
    AnyConfig <- G0
    Inputs <- NoInputs
    StrategyList <- Donchian
    NoInput = NoInput
INVARIANT ApprovedWithinLimits
