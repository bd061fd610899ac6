SPECIFICATION MCSpec
CONSTANTS
    r1 = r1
    Parts = {"requests", "single", "pool", "picks"}
    PoolCount = 2
    Brackets <- Phases
    Positions <- Winners
    BestPosition <- Second
    BestCount <- BestTwo
    Scores <- SomeScores
    InitialScores <- SomeScores
    Criterion <- PointsFirst
    Requests = {r1, r2}
    Operations <- AllCalls
    MaxCalls = 5
    MaxFailures = 1
CHECK_DEADLOCK FALSE
INVARIANTS  FirstRoundResolvedAlone StandingsReportTheirTies
PROPERTY SlotsAndPicksFollowAlone
