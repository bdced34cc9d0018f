SPECIFICATION Spec
CONSTANTS
    MaxConns = 2
    MaxSeq = 3
    MaxInputs = 1
CHECK_DEADLOCK FALSE
INVARIANTS
    FramesContiguous
    HubIsSound
