SPECIFICATION FairSpec
CONSTANTS
    None = None
    q1 = q1
    q2 = q2
    PathsOf <- MCPathsOf
    Requests = {q1, q2}
    Contexts = {c1, c2}
    Routes <- MCRoutes
    PathOf <- MCPathOf
    VersionOf <- MCVersionOf
    Posts = {"create"}
    Serves = {"files"}
    Paths = {"/users", "/list", "/files", "/ws", "/none"}
    WSPath = "/ws"
    Versions = {"", "1"}
    Global <- MCGlobal
    Local <- MCLocal
    WSMiddlewares <- MCWSMiddlewares
    Outcomes <- MCOutcomes
INVARIANTS
    ContextsNotShared
    PipelineOrder
    PanicsAnswered
    AnswersRight
PROPERTIES
    RequestsReturn
