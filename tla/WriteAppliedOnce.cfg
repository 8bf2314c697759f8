SPECIFICATION DbSpec
CONSTANTS
    t1 = t1
    t2 = t2
    p1 = p1
    Threads = {t1}
    Processes = {p1}
    ProcessOf <- OneThread
    SchemaSize = 1
    DbFaultKinds = {"reset"}
    MaxOps = 1
    MaxDbFaults = 1
INVARIANTS
    WriteAppliedOnce
CHECK_DEADLOCK FALSE
