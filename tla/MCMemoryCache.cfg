SPECIFICATION FairSpec
CONSTANTS
    k1 = k1
    k2 = k2
    None = None
    Clients = {c1, c2}
    Keys = {k1, k2}
    NumShards = 2
    ShardOf <- Apart
    TTLs = {0, 1}
    CleanupEvery = 1
    CleanupBatch = 1
    Calls = {"set", "setnx", "delete", "keys"}
    MaxNow = 2
INVARIANTS
    KeysComplete
PROPERTIES
    Implements
    Reclaimed
