SPECIFICATION FairSpec
CONSTANTS
    MaxAttempts = 4
    DelaySeconds = 2
    BackoffFactor = 2
    MaxDelay = 3
    NoLimit = NoLimit
INVARIANTS
    TypeOK
    OkMeansProbed
    WaitIsCapped
PROPERTIES
    CallsReturn
