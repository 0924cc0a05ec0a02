SPECIFICATION FairSpec
CONSTANTS
    h1 = h1
    h2 = h2
    Handler <- Handlers
    NoHandler = NoHandler
    Setups <- Setup
    Asked <- AskedOf
    MaxChanges = 1
INVARIANTS
    TypeOK
    AnswersAreCurrent
    ShutdownInOrder
PROPERTIES
    StopExits
    RequestsAnswered
CHECK_DEADLOCK FALSE
