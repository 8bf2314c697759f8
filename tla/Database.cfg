SPECIFICATION FairDbSpec
CONSTANTS
    t1 = t1
    t2 = t2
    p1 = p1
    Threads = {t1, t2}
    Processes = {p1}
    ProcessOf <- TwoThreads
    SchemaSize = 2
    DbFaultKinds = {"reset", "timeout", "busy", "crash"}
    MaxOps = 2
    MaxDbFaults = 1
INVARIANTS
    TransactionAtomic
    ReturnedIsDurable
    
    IdleExpiryInvisible
PROPERTIES
    OpsEnd
CHECK_DEADLOCK FALSE
