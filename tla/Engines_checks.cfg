CONSTANTS
    Modes = {"session_loop", "request_response", "simultaneous_round"}
    Values = {"x", "y"}
    MaxRounds = 2
    MaxPings = 1
    None = None
    MaxLines = 3
    Quit = 3
    MaxHeard = 1
    WindowModes = {"hybrid", "human"}
    Rounds = 2
    Submitters = {s1, s2}
    MaxDecisions = 3
    Delay = 1
    Leads = {1, 3}
    MaxLead = 3
    Policies = {"abort", "continue"}
    MaxTicks = 3
    N = 3
    Registry <- ThreeRoles
    Shuffles <- TwoShuffles
    MaxQueries = 1
    FaultKinds = {"corrupt_sealed_payload", "drop_ot_response", "forge_token", "skip_witness", "bogus_witness", "skip_opening"}
SPECIFICATION MCSpec
CHECK_DEADLOCK FALSE
INVARIANTS DuelIsFair ChatIsWhole DecisionsCount MatchAgrees RolesStayHidden AuditsTellTheTruth
PROPERTIES ClosedEnds
