SPECIFICATION FairSpec
CONSTANTS
    Conns = {c1}
    Topics <- MCTopics
    Requests <- MCRequests
    SendBufferSize = 2
    Interval = 1
    Timeout = 1
INVARIANTS
    ListsMatchBroker
    DeadFoundByNextScan
    TornDownOnce
PROPERTIES
    LoopsExit
