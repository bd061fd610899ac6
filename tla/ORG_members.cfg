SPECIFICATION MCSpec
CONSTANTS
    Users = {u1, u2, u3}
    FewUsers = {u1, u2}
    Organizations = {o1}
    TwoOrganizations = {o1, o2}
    Requests = {r1, r2}
    OneRequest = r1
    Operations <- AllCalls
    Permissions = {scores, layout}
    PermissionSets = {{scores}, {layout}}
    MaxCalls = 4
    MoreCalls = 5
    MaxFailures = 1
    None = None
SYMMETRY UserSymmetry
CHECK_DEADLOCK FALSE
INVARIANTS RowsDoNotDangle RowsAsAskedAlone
PROPERTY DeletionsAndAnswersStandAlone
