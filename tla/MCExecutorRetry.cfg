SPECIFICATION Spec
CONSTANTS
    k1 = k1
    k2 = k2
    BlankId <- NoIds
    ClientId <- OneId
    Deployments <- DemoDeployments
PROPERTY GuidedRetryIsTried
