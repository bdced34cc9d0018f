CONSTANTS
    w1 = w1 w2 = w2 w3 = w3
    g1 = g1 g2 = g2 g3 = g3
    Ballots <- MCBallots
    Proven <- MCProven
    Manifests <- MCManifests
    Guardians = {g1, g2, g3}
    WitnessCount = 3
    WitnessQuorum = 2
    GuardianThreshold = 2
    Options = {"yes", "no"}
    MinimumSet = 1
    MaxRequests = 1
    MaxFaults = 1
    None = None
    Roles = {r1, r2}
    Allowed = {r1, r2}
    Payloads = {p, q}
    Collectors = {c1, c2}
    QuorumMinimum = 1
    DropEvery = 3
    DuplicateEvery = 2
    MaxDeliveries = 3
SPECIFICATION MCSpec
SYMMETRY Sym
CHECK_DEADLOCK FALSE
INVARIANTS NoDoubleVote OneRoot
PROPERTIES IsOneBallotBox ContributionsSettle
