SPECIFICATION Spec
CONSTANTS
    Scope <- Scopes
    Process <- Processes
    Keep <- Keeps
    Limit = 2
    MaxId = 4
INVARIANTS
    TypeOK
    ReturnedRowsStay
    RetentionHolds
PROPERTIES
    ReadsAdvance
