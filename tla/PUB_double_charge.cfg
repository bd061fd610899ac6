SPECIFICATION Spec
\* Free up to 1 team, 2 up to 2 teams, 5 beyond: no sum of repeated payments is the
\* price of a tier by accident.
CONSTANTS
    FreeMaxTeams = 1
    MidMaxTeams = 2
    MidPrice = 2
    HighPrice = 5
    InitialTeams = {1, 2, 3}
    Batches = {1}
    Requests = {r1, r2}
    Operations = {"publish", "payForTier", "payForTeams", "confirm", "webhook", "unpublish"}
    MaxCalls = 2
    MaxFailures = 0
CHECK_DEADLOCK FALSE
INVARIANT PaidTotalIsATierPrice
