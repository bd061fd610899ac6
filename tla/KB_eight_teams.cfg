SPECIFICATION Spec
CONSTANTS
    r1 = r1
    Rounds = 3
    Width <- WidthOf8
    HasRanking = FALSE
    Known <- AllButOneLeaf
    Requests = {r1, r2}
    Operations <- ForfeitsAndPools
    MaxCalls = 5
    MaxFailures = 1
    None = None
SYMMETRY RequestSymmetry
CHECK_DEADLOCK FALSE
INVARIANTS OneMatchPerRound RoundsFillInOrder
