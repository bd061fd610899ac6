SPECIFICATION MCSpec
CONSTANTS
    a1 = a1
    r1 = r1
    Accounts = {a1, a2}
    Requests = {r1, r2}
    OneTab = TRUE
    Operations <- EveryCall
    MaxCalls = 4
    MaxFailures = 1
    None = None
CHECK_DEADLOCK FALSE
INVARIANTS ResetEndsSessions SessionsTakeAProvenAddress TabsShareLiveCookie LastSuperAdminStays
PROPERTY SessionsBeginAndEndOnce
