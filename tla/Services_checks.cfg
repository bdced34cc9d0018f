CONSTANTS
    Threads = {t1, t2}
    MaxSent = 3
    MaxRounds = 2
    MaxCrashes = 1
    MaxCancels = 1
    CacheLimit = 4
    Impatient = FALSE
    None = None
    MaxSeq = 2
    MaxQueued = 2
    MaxRestarts = 1
    MaxAttempts = 2
    Callers = {"c1", "c2"}
    MaxCalls = 4
    Agents = {"caller", "agent"}
    MaxTurns = 2
    MaxResets = 1
    MaxEnds = 1
SPECIFICATION MCSpec
SYMMETRY ThreadSymmetry
CHECK_DEADLOCK FALSE
INVARIANTS RequestsAnswered PeersReconcile WorkerInStep TurnsAreKept PairingHolds
