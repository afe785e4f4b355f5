SPECIFICATION Spec
CONSTANTS
    None = None
    Requests = {r1, r2}
    Strategies = {"FixedWindow", "SlidingWindow", "TokenBucket"}
    Limit = 2
    Window = 3
    MaxNow = 5
    MaxServed = 4
SYMMETRY
    Symmetry
INVARIANTS
    LimitPerWindow
    TokenRate
PROPERTIES
    RetryHonoured
CHECK_DEADLOCK FALSE
