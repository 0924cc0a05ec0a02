SPECIFICATION Spec
CONSTANTS
    None = None
    NaN = NaN
    Symbol <- Symbols
    Config <- Config0
    Contexts <- Contexts0
    Proposals <- Proposals0
    MaxTime = 7
    MaxReviews = 3
INVARIANTS
    TypeOK
    DuplicatesApart
    QuietBeforeApproval
