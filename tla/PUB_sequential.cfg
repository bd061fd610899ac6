SPECIFICATION FairSpec
\* Free up to 1 team, 2 up to 2 teams, 5 beyond: no sum of repeated payments is the
\* price of a tier by accident.
CONSTANTS
    FreeMaxTeams = 1
    MidMaxTeams = 2
    MidPrice = 2
    HighPrice = 5
    InitialTeams = {1, 2}
    Batches = {1, 2}
    Requests = {r1}
    Operations = {"publish", "payForTeams", "confirm", "unpublish", "addTeams", "removeTeam"}
    MaxCalls = 4
    MaxFailures = 1
CHECK_DEADLOCK FALSE
PROPERTIES TeamGateHolds PaidIsRecorded
