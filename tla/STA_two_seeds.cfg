SPECIFICATION MCSpec
CONSTANTS
    r1 = r1
    Parts = {"single"}
    PoolCount = 2
    Brackets <- Phases
    Positions <- Winners
    BestPosition <- Second
    BestCount <- BestTwo
    Scores <- SomeScores
    InitialScores <- OneScore
    Criterion <- PointsFirst
    Requests = {r1}
    Operations <- Uncorrecting
    MaxCalls = 5
    MaxFailures = 0
CHECK_DEADLOCK FALSE
INVARIANT NoTeamTwice
