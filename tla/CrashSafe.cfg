SPECIFICATION FairSpec
CONSTANTS
    w1 = w1
    w2 = w2
    j1 = j1
    d1 = d1
    NoTask = NoTask
    Docs = {d1}
    DocOf <- OneDocument
    Jobs = {j1}
    Workers = {w1, w2}
    NumChunks = 1
    MaxAttempts = 1
    NumTiers = 1
    FaultKinds = {"crash"}
    MaxFaults = 1
PROPERTIES
    CrashSafe
CHECK_DEADLOCK FALSE
