SPECIFICATION MCSpec
CONSTANTS
    r1 = r1
    Rounds = 2
    Width <- WidthOf4
    HasRanking = TRUE
    Known <- AllLeaves
    Requests = {r1, r2}
    Operations <- NoResolve
    MaxCalls = 3
    MaxFailures = 0
    None = None
CHECK_DEADLOCK FALSE
INVARIANTS StatusAgreesWhenAlone RankingIsSound
PROPERTIES PlacesFollowOutcomesAlone DecidedRoundAdvances
