SPECIFICATION MCSpec
CONSTANTS
    a1 = a1
    a2 = a2
    Nothing = Nothing
    None = None
    Commands = {c1}
    Pages <- TwoPages
    Chunks <- FileChunks
    Results <- ThreeResults
    Before <- LeftBefore
    Batch = 2
    MaxDrops = 1
    Guests = {"a", "b"}
    Trusted = {"a", "b"}
    Slots = 1
    MaxDials = 3
    MaxPosts = 4
    MaxBreaks = 1
    Manifests <- NoInputs
CHECK_DEADLOCK FALSE
PROPERTIES
    TerminalIsFinal
