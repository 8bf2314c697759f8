SPECIFICATION FairLoopSpec
CONSTANTS
    c1 = c1
    c2 = c2
    m1 = m1
    m2 = m2
    m3 = m3
    Consumers = {c1, c2}
    Leaving = {c1}
    Messages = {m1, m2, m3}
    Malformed = {m1}
    Poison = {m3}
    ProbeLimit = 1
    MaxDisturbed = 2
INVARIANTS
    LoopTypeOK
    NothingVanishes
    
PROPERTIES
    StopsWhenTold
    EveryMessageSettles
CHECK_DEADLOCK FALSE
