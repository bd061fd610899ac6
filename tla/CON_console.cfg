SPECIFICATION MCSpec
CONSTANTS
    Connections = {"c1"}
    Several = {"c1", "c2"}
    Clicks = {"open", "reload", "login", "enter", "leave", "extend", "logout", "delete",
              "load", "toggle", "score", "validate", "clear", "forfeit", "restart"}
    MaxClicks = 4
    IdleLimit = 3
    AbsoluteLimit = 8
    Lead = 1
    RefreshEvery = 4
    TokenLife = 6
    MaxTime = 10
    Games = {"m", "n"}
    Playing <- PlayingTeams
    Scores = {"1-0", "2-0"}
    Names = {"a", "b"}
    Groups <- Grouped
    Divisions <- Divided
    Files <- Imports
    Header <- Columns
    Requests = {"c1", "c2"}
    Workloads <- TeamWorkloads
    Flows = {"publication", "tier", "subscription", "registration"}
    MaxPolls = 5
    MaxFailures = 1
    MaxLost = 2
    None = None
    Parts = {"calendar", "alone of 3", "alone of 4", "slots", "schedule", "schedule crossed", "scores",
             "scores crossed", "standings", "standings live", "calendar live", "app live",
             "preset", "preset in app", "structure", "structure tidy", "form", "wizard",
             "teams", "team list", "team list crossed",
             "spreadsheet", "web session", "app session", "collaborators",
             "collaborators crossed", "alerts", "payment return", "recap"}
CHECK_DEADLOCK FALSE
INVARIANTS CalendarHolds RestingPagesAreTrue CrossedPagesRecover StructuresCanBePlayed
           SessionsFollowTheClock LogosAreThere EveryChangeIsToldOnce ReturnTellsTruth
           FiguresAreExact
PROPERTIES MovesAddNoClash AnswersKeepToTheirRow
