SPECIFICATION FairLoopSpec
CONSTANTS
    c1 = c1
    c2 = c2
    m1 = m1
    m2 = m2
    m3 = m3
    Consumers = {c1}
    Leaving = {}
    Messages = {m1}
    Malformed = {}
    Poison = {m1}
    ProbeLimit = 2
    MaxDisturbed = 0
PROPERTIES
    OomBurnsAttempt
CHECK_DEADLOCK FALSE
