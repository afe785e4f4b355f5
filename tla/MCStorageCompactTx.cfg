SPECIFICATION Spec
CONSTANTS
    d1 = d1
    d2 = d2
    d3 = d3
    v1 = v1
    v2 = v2
    Ids = {d1, d2, d3}
    Vals = {v1, v2}
    NoDoc = NoDoc
    Corrupt = Corrupt
    TxOps <- MCTxOps
    SegCap = 4
    MaxLog = 5
    MaxSeg = 4
    MaxTx = 1
    Faults = {}
    Compacts = TRUE
INVARIANTS
    CompactionKeepsDocs
