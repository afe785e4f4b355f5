SPECIFICATION Spec
CONSTANTS
    Routes <- MCRoutesRoot
    Operations = {"GET", "POST"}
    Params = {"{x}", "{y}"}
    Globs = {"f*"}
    GlobWords <- MCGlobWords
    Words = {"a", "b", "fa", "$"}
    MaxPath = 3
    MaxHandlers = 4
    MaxItems = 3
    MaxGlobals = 1
INVARIANTS
    OnlyMatchingRoutes
CHECK_DEADLOCK FALSE
