SPECIFICATION Spec
CONSTANTS
    h = h
    m1 = m1
    m2 = m2
    NoNode = NoNode
    Nodes <- TwoMembers
    Host = h
    MaxLen = 3
    MaxEpoch = 2
    MaxFaults = 4
SYMMETRY MemberSymmetry
CHECK_DEADLOCK FALSE
INVARIANTS
    OneLeaderPerEpoch
    FloorInLeader
PROPERTIES
    FloorNeverRollsBack
    EpochFencing
