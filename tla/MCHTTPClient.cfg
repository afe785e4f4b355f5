SPECIFICATION Spec
CONSTANTS
    MaxRetry = 2
    MaxConfig = 2
    MaxHooks = 2
    Builders <- MCBuilders
    Clients <- MCClients
INVARIANTS
    BodyWhole
    NothingLeaks
    HooksOnce
    PolicyEnforced
PROPERTIES
    SendReturns
CHECK_DEADLOCK FALSE
