SPECIFICATION FairSpec
CONSTANTS
    h = h
    m1 = m1
    m2 = m2
    NoNode = NoNode
    Nodes <- TwoMembers
    Host = h
    MaxLen = 2
    MaxEpoch = 2
    MaxFaults = 2
CHECK_DEADLOCK FALSE
PROPERTIES
    SuccessionCompletes
