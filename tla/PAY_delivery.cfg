SPECIFICATION MCSpec
CONSTANTS
    o2 = o2
    r1 = r1
    Organizations = {o1}
    Nowhere = nowhere
    Price = 10
    Names = {n1, n2}
    NoTeam = NoTeam
    Unlinked = Unlinked
    Requests = {r1, r2}
    Operations <- Everything
    MaxCalls = 3
    MaxFailures = 1
CHECK_DEADLOCK FALSE
INVARIANTS PaidSubscriptionsHold OneActiveRowWhenFree TeamsArePaidFor
PROPERTIES CheckoutsKeepLedger ChargesAreRecorded PaidBecomesTeamUnlessTaken
