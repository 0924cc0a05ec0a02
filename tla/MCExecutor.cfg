SPECIFICATION FairSpec
CONSTANTS
    k1 = k1
    k2 = k2
    ClientId <- TwoIds
    BlankId <- NoIds
    Deployments <- AllDeployments
INVARIANTS
    TypeOK
    AtMostOneOrder
    RefusedNeverSent
    SuccessIsBooked
    SentPassedGates
PROPERTIES
    AnswersAreFinal
    CallsReturn
    ImplementsOrderSubmission
