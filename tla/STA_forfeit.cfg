SPECIFICATION MCSpec
CONSTANTS
    r1 = r1
    Parts = {"single"}
    PoolCount = 2
    Brackets <- MainOnly
    Positions <- MainWinners
    BestPosition <- MainSecond
    BestCount <- MainNone
    Scores <- OneNil
    InitialScores <- OneScore
    Criterion <- PointsFirst
    Requests = {r1}
    Operations <- Forfeits
    MaxCalls = 3
    MaxFailures = 0
CHECK_DEADLOCK FALSE
INVARIANT DecidedPoolsResolve
