SPECIFICATION Spec
CONSTANTS
    h1 = h1
    d1 = d1
    d2 = d2
    Handlers    <- OneHandler
    Deployments <- TwoDeployments
    First       = First
    Torn        = Torn
    None        = None
INVARIANTS
    CleanExitLosesNothing
    InstalledAsVerified
    CanGoBack
PROPERTIES
    DeployedIsServed
    ChangesFindTheStoreOpen
    DeploymentsEnd
CHECK_DEADLOCK FALSE
