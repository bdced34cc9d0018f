SPECIFICATION MCFairSpec
CONSTANTS
    MaxActions = 3
    MaxCopies = 3
    MaxFaults = 2
    Local = FALSE
    MaxConns = 2
    MaxSeq = 2
    MaxInputs = 0
CHECK_DEADLOCK FALSE
INVARIANTS
    AppliedInOrder
    LostOnlyAfterReuse
PROPERTIES
    SubmittedIsSettled
    HubProgress
