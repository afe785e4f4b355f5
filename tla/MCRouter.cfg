SPECIFICATION Spec
CONSTANTS
    Routes <- MCRoutes
    Operations = {"GET", "POST"}
    Params = {"{x}", "{y}"}
    Globs = {"f*"}
    GlobWords <- MCGlobWords
    Words = {"a", "b", "fa", "$"}
    MaxPath = 3
    MaxHandlers = 4
    MaxItems = 3
    MaxGlobals = 1
INVARIANTS
    MatchSound
    MatchComplete
CHECK_DEADLOCK FALSE
