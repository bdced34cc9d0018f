SPECIFICATION MCSpec
CONSTANTS
    Starts <- StartsDef
    SmallBlind = 1
    BigBlind = 2
    MaxHands = 2
    MaxRestarts = 1
    Strengths = {1, 2}
    NoPlay = NoPlay
    Nothing = Nothing
CHECK_DEADLOCK FALSE
INVARIANTS ChipsAndPots TricksAreSound TilesAndPoints FollowingIsPossible OneGame FramesHold
PROPERTY BestClaimIsServed
