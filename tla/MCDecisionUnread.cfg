SPECIFICATION PathSpec
CONSTANTS
    None = None
    NaN = NaN
    Junk = Junk
    Missing = Missing
    Families = {}
    AnySymbol = "EURUSD"
    AnyContext <- C0
    AnyConfig <- G0
    Inputs <- BookInputs
    StrategyList <- Donchian
    NoInput = NoInput
INVARIANT UnreadFailsClosed
