------------------------------- MODULE MCConsole -------------------------------
(***************************************************************************)
(* The calendar's services, the teams' files and the pages of the          *)
(* applications, checked in one run.  A behaviour is of one part, among    *)
(* those the constant Parts names: the API alone (Planning and TeamFiles,  *)
(* their state as server, wire and left), one page in front of an API, or  *)
(* a pure computation, whose input is server and which takes no step.      *)
(* "crossed" parts have two calls in flight.  The teams' files, the clocks *)
(* of the sessions, the alerts and the return from payment come from       *)
(* ConsoleProofs, with what is proved of them.                             *)
(***************************************************************************)
EXTENDS ConsoleProofs

CONSTANT Parts

One == {"c1"}
Two == {"c1", "c2"}

(***************************************************************************)
(* The calendar                                                            *)
(***************************************************************************)
AloneOps == {"slot", "removeSlot", "generate", "reset", "move", "official", "removeOfficial"}
SlotOps == {"field", "removeField", "removeVenue", "slot", "updateSlot", "removeSlot"}
AllWindows == {<<0, 1>>, <<0, 2>>, <<1, 2>>}

\* Two requests, a match with a referee, one field or two.
Calendar == INSTANCE Planning WITH
    Teams <- <<1, 2, 3>>, Fields <- {"f", "g"}, Referees <- {11},
    FieldChoices <- {<<"f">>, <<"f", "g">>}, Windows <- {<<0, 1>>, <<1, 2>>},
    RefereesPerMatch <- 1, DoubleRoundRobin <- FALSE, TeamsCanReferee <- FALSE,
    Requests <- Two, MaxCalls <- 3,
    Operations <- AloneOps \cup SlotOps \cup {"referee", "removeReferee"},
    db <- server, req <- wire, calls <- left

\* One request at a time, one referee; three teams on two fields are generated into two
\* places at once, and four share their referee.
Alone(teams, bound) == INSTANCE Planning WITH
    Teams <- teams, Fields <- {"f", "g"}, Referees <- {11},
    FieldChoices <- {<<"f">>, <<"f", "g">>}, Windows <- {<<0, 1>>, <<0, 2>>},
    RefereesPerMatch <- 1, DoubleRoundRobin <- FALSE, TeamsCanReferee <- FALSE,
    Requests <- One, MaxCalls <- bound, Operations <- AloneOps,
    db <- server, req <- wire, calls <- left

\* One request at a time, slots only.
SlotsOnly == INSTANCE Planning WITH
    Teams <- <<1, 2, 3>>, Fields <- {"f", "g"}, Referees <- {11},
    FieldChoices <- {<<"f">>}, Windows <- AllWindows,
    RefereesPerMatch <- 1, DoubleRoundRobin <- FALSE, TeamsCanReferee <- FALSE,
    Requests <- One, MaxCalls <- 5, Operations <- SlotOps,
    db <- server, req <- wire, calls <- left

(***************************************************************************)
(* Calendar, scores and standings pages                                    *)
(***************************************************************************)
Kinds == "A" :> {"pool", "knockout"} @@ "B" :> {"knockout"}
ScheduleClicks == {"open", "category", "kind", "generate", "reset", "move", "official",
                   "addSlot", "deleteSlot"}

Schedule == INSTANCE SchedulePage WITH
    Categories <- {"A", "B"}, First <- "A", PerPhase <- 1, Slots <- {"s1", "s2", "s3"},
    Referees <- {"x"}, Connections <- One, Clicks <- ScheduleClicks, MaxClicks <- 5

ScheduleCrossed == INSTANCE SchedulePage WITH
    Categories <- {"A", "B"}, First <- "A", PerPhase <- 1, Slots <- {"s1", "s2", "s3"},
    Referees <- {"x"}, Connections <- Two, Clicks <- ScheduleClicks, MaxClicks <- 4

\* Two semi-finals, one of them forfeited, the final they decide, a pool match.
Played == {"s1", "s2", "f", "p"}
PhaseOfMatch == [m \in Played |-> IF m = "p" THEN [category |-> "A", kind |-> "pool"]
                                  ELSE [category |-> "B", kind |-> "knockout"]]
Deciding == [m \in Played |-> IF m = "f" THEN {"s1", "s2"} ELSE {}]
ScoreClicks == {"open", "category", "kind", "type", "save", "validate", "clear", "undoForfeit"}

Scoring == INSTANCE ScoresPage WITH
    Matches <- Played, Phase <- PhaseOfMatch, First <- "B", Feeders <- Deciding,
    Forfeits <- {"s2"}, Scores <- {"1-0"},
    Connections <- One, Clicks <- ScoreClicks, MaxClicks <- 7

ScoringCrossed == INSTANCE ScoresPage WITH
    Matches <- Played, Phase <- PhaseOfMatch, First <- "B", Feeders <- Deciding,
    Forfeits <- {"s2"}, Scores <- {"1-0"},
    Connections <- Two, Clicks <- ScoreClicks, MaxClicks <- 4

\* Three pools in two phases, a bracket in each category.
PhasesShown ==
    "P" :> [category |-> "A", kind |-> "pool", pools |-> {"g", "h"}] @@
    "Q" :> [category |-> "A", kind |-> "pool", pools |-> {"i"}] @@
    "K" :> [category |-> "A", kind |-> "knockout", pools |-> {}] @@
    "L" :> [category |-> "B", kind |-> "knockout", pools |-> {}]
TiedTeams == "g" :> {"t1", "t2", "t3"} @@ "h" :> {"t4", "t5"} @@ "i" :> {"t6", "t7"}

Ranking == INSTANCE StandingsPage WITH
    Phase <- PhasesShown, Tied <- TiedTeams, First <- "A", Connections <- One,
    Clicks <- {"open", "category", "view", "pick", "clear"}, MaxClicks <- 5

(***************************************************************************)
(* Public pages behind the event stream                                    *)
(***************************************************************************)
\* Standings on the web, the calendar, and the app's own way of loading them.
StandingsLive == INSTANCE LivePages WITH
    Categories <- {"A", "B"}, First <- "A", Steps <- <<"phases", "pools", "bracket", "final">>,
    EventStep <- 1, Whole <- FALSE, Connections <- One, Calm <- TRUE,
    MaxChanges <- 3, MaxClicks <- 2, MaxFailures <- 0

CalendarLive == INSTANCE LivePages WITH
    Categories <- {"A", "B"}, First <- "A", Steps <- <<"phases", "matches">>,
    EventStep <- 2, Whole <- FALSE, Connections <- One, Calm <- TRUE,
    MaxChanges <- 3, MaxClicks <- 2, MaxFailures <- 0

AppLive == INSTANCE LivePages WITH
    Categories <- {"A", "B"}, First <- "A", Steps <- <<"phases", "matches">>,
    EventStep <- 1, Whole <- TRUE, Connections <- Two, Calm <- FALSE,
    MaxChanges <- 2, MaxClicks <- 2, MaxFailures <- 1

(***************************************************************************)
(* Structure, tournament and wizard                                        *)
(***************************************************************************)
Typed == [teams |-> {3}, pools |-> {2, 4}, position |-> {2}, count |-> {2}, qualifiers |-> {1, 2}]

Preset(op, leftovers) == INSTANCE PresetForm WITH
    Numbers <- Typed, Names <- {"u", "p"}, Default <- "t", PoolsName <- "p", MaxPools <- 3,
    Unassigned <- 4, Leftovers <- leftovers, Patient <- TRUE, Connections <- One, Clicks <- {op}, MaxClicks <- 1

PoolPhase == [id |-> 1, name |-> "a", kind |-> "pools", seed |-> FALSE, twice |-> FALSE]
Knockout == [id |-> 2, name |-> "b", kind |-> "knockout", seed |-> FALSE, twice |-> FALSE]
Built ==
    [phases |-> {PoolPhase, Knockout}, pools |-> {[id |-> 3, phase |-> 1, name |-> "a"]},
     brackets |-> {[id |-> 4, phase |-> 2, ranking |-> FALSE]},
     rules |-> {[id |-> 5, pool |-> 3, span |-> <<1, 1>>, target |-> 2]}, best |-> {},
     scheme |-> (3 :> "typed"), team |-> ("t" :> 3 @@ "u" :> None), last |-> 5]
Seeded == [Built EXCEPT !.phases = {[PoolPhase EXCEPT !.seed = TRUE], Knockout}]
TidyClicks == {"open", "addPhase", "twice", "addGroup", "removeGroup", "save", "addRule",
               "removeRule", "addBest", "removeBest", "addBracket", "ranking", "removeBracket",
               "assign", "unassign"}

Structure == INSTANCE StructurePage WITH
    Names <- {"a", "c"}, Teams <- {"t", "u"}, Spans <- {<<1, 1>>, <<2, 1>>},
    Schemes <- {"typed"}, Standard <- "standard", Given <- {Built, Seeded}, Repeats <- FALSE,
    Connections <- One, Clicks <- TidyClicks \cup {"type", "removePhase"}, MaxClicks <- 4

\* No barème left unsaved, no phase removed.
StructureTidy == INSTANCE StructurePage WITH
    Names <- {"a", "c"}, Teams <- {"t", "u"}, Spans <- {<<1, 1>>, <<2, 1>>},
    Schemes <- {"typed"}, Standard <- "standard", Given <- {Built, Seeded}, Repeats <- FALSE,
    Connections <- One, Clicks <- TidyClicks, MaxClicks <- 4

Plain == [name |-> "x", themed |-> FALSE]
Themed == [name |-> "y", themed |-> TRUE]
FormClicks == {"open", "submit", "text", "image", "lifecycle", "duplicate", "addCategory",
               "addVenue", "addSponsor", "removeCategory", "saveFee", "addDivision",
               "removeDivision", "removeVenue", "addField", "removeField", "removeSponsor",
               "sponsorLogo", "travel", "tier", "cancel", "confirm"}

\* A tournament with one category, planned, one venue, and more teams than are free.
Stored(paid) ==
    "t" :> [status |-> "DRAFT", form |-> Plain, text |-> None, image |-> FALSE, paid |-> paid,
            categories |-> ("m" :> [fee |-> "fee", divisions |-> {"d"}]), planned |-> {"m"},
            venues |-> ("v" :> {"w"}), sponsors |-> <<>>]

Form == INSTANCE TournamentFormPage WITH
    Tournaments <- {"t", "u"}, Given <- {Stored(0), Stored(1)}, Crowded <- {"t"},
    Values <- {Plain, Themed}, Texts <- {"text"}, Names <- {"m"}, MaxFailures <- 1,
    Connections <- One, Clicks <- FormClicks, MaxClicks <- 4

\* Tournaments edited: none, one left without a category, a draft, one complete, one published.
Abandoned == [category |-> FALSE, teams |-> {}, structure |-> None, venue |-> FALSE,
              scheduled |-> FALSE, status |-> "DRAFT"]
Draft == [Abandoned EXCEPT !.category = TRUE, !.teams = {"a"}]
Complete == [Abandoned EXCEPT !.category = TRUE, !.teams = {"a", "b", "c"}, !.venue = TRUE,
                              !.structure = [of |-> {"a", "b", "c"}, pools |-> TRUE]]
Published == [Complete EXCEPT !.scheduled = TRUE, !.status = "PUBLISHED"]

Wizarding == INSTANCE Wizard WITH
    Names <- {"a", "b", "c"}, Least <- 2, MaxListed <- 2,
    Given <- {None, Abandoned, Draft, Complete, Published},
    Connections <- One, Clicks <- {"next", "generate", "addTeam", "removeTeam", "subscribe"},
    MaxClicks <- 4, MaxFailures <- 1

(***************************************************************************)
(* Teams: their files, their list, their spreadsheet                       *)
(***************************************************************************)
\* A file that links two logos, and one with a dead link and an unknown category.
Imports ==
    {<<[name |-> "a", category |-> "x", logo |-> "link"],
       [name |-> "b", category |-> "x", logo |-> "link"]>>,
     <<[name |-> "a", category |-> "x", logo |-> "dead"],
       [name |-> "c", category |-> "?", logo |-> "none"],
       [name |-> "b", category |-> "y", logo |-> "none"]>>}
LogoOps == {"upload", "removeLogo", "remove", "deleteTournament", "import"}
Divided == "x" :> {"d"} @@ "y" :> {}
Columns == <<<<"n">>, <<"c">>, <<"d">>>>

Grouped == "x" :> {"g"} @@ "y" :> {"h"}

\* One request at a time; two that cross; two of which one may be lost half-way, among
\* those that unlink no file before its row changes.
TeamWorkloads ==
    {[requests |-> One, operations |-> LogoOps \cup {"create", "update", "group"},
      calls |-> 4, failures |-> 0],
     [requests |-> Two, operations |-> LogoOps, calls |-> 3, failures |-> 0],
     [requests |-> Two, operations |-> {"import", "remove", "deleteTournament"},
      calls |-> 3, failures |-> 1]}

Listed ==
    1 :> [name |-> "a", category |-> "x", division |-> "d", manager |-> "m", logo |-> FALSE] @@
    2 :> [name |-> "b", category |-> "y", division |-> None, manager |-> None, logo |-> TRUE]
RowClicks == {"type", "submit", "tick", "arm", "remove", "armTicked", "removeTicked", "import",
              "expand", "addPlayer", "removePlayer"}
ListClicks == RowClicks \cup {"edit", "cancel", "upload", "removeLogo", "upgrade", "subscribe",
                              "close", "disarm", "collapse"}
FileRows == {<<[name |-> "a", category |-> "x"], [name |-> "c", category |-> "y"]>>,
             <<[name |-> "c", category |-> "x"], [name |-> "d", category |-> "?"]>>}

TeamList == INSTANCE TeamListPage WITH
    Names <- {"c"}, Categories <- {"x", "y"}, Divisions <- Divided, Managers <- {None, "m"},
    Given <- Listed, FreeTeams <- 2, Capacities <- {2, 4}, Imported <- FileRows,
    MaxFailures <- 1, Connections <- One, Clicks <- ListClicks, MaxClicks <- 4

TeamListCrossed == INSTANCE TeamListPage WITH
    Names <- {"c"}, Categories <- {"x"}, Divisions <- Divided, Managers <- {None},
    Given <- Listed, FreeTeams <- 2, Capacities <- {3}, Imported <- FileRows,
    MaxFailures <- 0, Connections <- Two, Clicks <- RowClicks, MaxClicks <- 4

\* Names of up to three characters, one category, no more than one for a division.
Fields(n) == UNION {[1..k -> {"a", ";", "quote", "newline", "blank"}] : k \in 0..n}
Rows(n) == {t \in {<<name, <<"c">>, d>> : name \in Fields(n), d \in Fields(1)} : Logos!Importable(t)}

(***************************************************************************)
(* Collaborators and the recap; the teams of the alerts' two matches        *)
(***************************************************************************)
Founded(mine, other) ==
    [members |-> "me" :> mine @@ "b" :> other @@ "c" :> "ORG_MEMBER",
     invitations |-> 1 :> [email |-> "d", role |-> "ORG_MEMBER", pending |-> TRUE],
     administrators |-> {[id |-> 2, tournament |-> "t", user |-> "b", keys |-> {"scores"}]},
     last |-> 2]
Organizations == {Founded("ORG_ADMIN", "ORG_MEMBER"), Founded("ORG_ADMIN", "ORG_ADMIN"),
                  Founded("ORG_MEMBER", "ORG_ADMIN")}
MemberClicks == {"open", "role", "remove", "invite", "revoke", "select", "type", "add", "dismiss"}

Collaborators == INSTANCE CollaboratorsPage WITH
    Me <- "me", Emails <- {"b", "d", "e"}, Tournaments <- {"t", "u"}, First <- "t",
    KeySets <- {{"scores"}}, Given <- Organizations,
    Connections <- One, Clicks <- MemberClicks, MaxClicks <- 5

CollaboratorsCrossed == INSTANCE CollaboratorsPage WITH
    Me <- "me", Emails <- {"b", "d", "e"}, Tournaments <- {"t", "u"}, First <- "t",
    KeySets <- {{"scores"}}, Given <- Organizations,
    Connections <- Two, Clicks <- MemberClicks, MaxClicks <- 4

PlayingTeams == "m" :> {"a", "b"} @@ "n" :> {"a", "d"}

\* Four teams, up to three matches; the rating of a win over a stronger team rises more.
Recapped == INSTANCE Recap WITH
    history <- server, first <- left, InitialRating <- 100, MinMatches <- 2, TopSize <- 2,
    Rated <- LAMBDA p, q, s : p + 16 * (s - 1) + (q - p) \div 4
Results ==
    {[home |-> p[1], away |-> p[2], hg |-> s[1], ag |-> s[2], shootout |-> s[3]] :
        p \in {<<"a", "b">>, <<"b", "a">>, <<"a", "c">>, <<"c", "d">>},
        s \in {<<1, 0, None>>, <<0, 2, None>>, <<1, 1, None>>, <<0, 0, "home">>, <<2, 2, "away">>}}

(***************************************************************************)
(* The run                                                                 *)
(***************************************************************************)
MCInit ==
    /\ part \in Parts
    /\ \/ part = "calendar" /\ Calendar!Init /\ page = <<>>
       \/ part = "alone of 3" /\ Alone(<<1, 2, 3>>, 4)!Init /\ page = <<>>
       \/ part = "alone of 4" /\ Alone(<<1, 2, 3, 4>>, 3)!Init /\ page = <<>>
       \/ part = "slots" /\ SlotsOnly!Init /\ page = <<>>
       \/ part = "schedule" /\ Schedule!Init
       \/ part = "schedule crossed" /\ ScheduleCrossed!Init
       \/ part = "scores" /\ Scoring!Init
       \/ part = "scores crossed" /\ ScoringCrossed!Init
       \/ part = "standings" /\ Ranking!Init
       \/ part = "standings live" /\ StandingsLive!Init
       \/ part = "calendar live" /\ CalendarLive!Init
       \/ part = "app live" /\ AppLive!Init
       \/ part = "preset" /\ Preset("generate", {0})!Init
       \/ part = "preset in app" /\ Preset("wizard", {0, 4})!Init
       \/ part = "structure" /\ Structure!Init
       \/ part = "structure tidy" /\ StructureTidy!Init
       \/ part = "form" /\ Form!Init
       \/ part = "wizard" /\ Wizarding!Init
       \/ part = "team list" /\ TeamList!Init
       \/ part = "team list crossed" /\ TeamListCrossed!Init
       \/ part = "collaborators" /\ Collaborators!Init
       \/ part = "collaborators crossed" /\ CollaboratorsCrossed!Init
       \/ PagesInit
       \/ /\ part = "spreadsheet" /\ page = <<>> /\ wire = <<>> /\ left = 0
          /\ \/ \E t \in Rows(3) : server = <<t>>
             \/ \E t \in Rows(2), u \in Rows(1) : server = <<t, u>>
       \/ /\ part = "recap" /\ page = <<>> /\ wire = <<>> /\ left \in 1..3
          /\ \/ \E n \in 0..2 : server \in [1..n -> Results]
             \/ server \in [1..3 -> {r \in Results : r.shootout # "away"}]

MCNext ==
    /\ \/ part = "calendar" /\ Calendar!Next /\ UNCHANGED page
       \/ part = "alone of 3" /\ Alone(<<1, 2, 3>>, 4)!Next /\ UNCHANGED page
       \/ part = "alone of 4" /\ Alone(<<1, 2, 3, 4>>, 3)!Next /\ UNCHANGED page
       \/ part = "slots" /\ SlotsOnly!Next /\ UNCHANGED page
       \/ part = "schedule" /\ Schedule!Next
       \/ part = "schedule crossed" /\ ScheduleCrossed!Next
       \/ part = "scores" /\ Scoring!Next
       \/ part = "scores crossed" /\ ScoringCrossed!Next
       \/ part = "standings" /\ Ranking!Next
       \/ part = "standings live" /\ StandingsLive!Next
       \/ part = "calendar live" /\ CalendarLive!Next
       \/ part = "app live" /\ AppLive!Next
       \/ part = "preset" /\ Preset("generate", {0})!Next
       \/ part = "preset in app" /\ Preset("wizard", {0, 4})!Next
       \/ part = "structure" /\ Structure!Next
       \/ part = "structure tidy" /\ StructureTidy!Next
       \/ part = "form" /\ Form!Next
       \/ part = "wizard" /\ Wizarding!Next
       \/ part = "team list" /\ TeamList!Next
       \/ part = "team list crossed" /\ TeamListCrossed!Next
       \/ part = "collaborators" /\ Collaborators!Next
       \/ part = "collaborators crossed" /\ CollaboratorsCrossed!Next
       \/ PagesNext
    /\ UNCHANGED part

MCSpec == MCInit /\ [][MCNext]_<<vars, part>>

\* CalendarHangsTogether, with two requests and one alone: no row outlives the row it hangs
\* on; and, one request at a time, EveryPairMeets and FieldsAreShared (generate, reset,
\* the cascades of the schema, assertNoFieldOverlap).
CalendarHolds ==
    /\ part = "calendar" => Calendar!CalendarHangsTogether
    /\ part = "alone of 3" =>
         Alone(<<1, 2, 3>>, 4)!CalendarHangsTogether /\ Alone(<<1, 2, 3>>, 4)!EveryPairMeets
    /\ part = "alone of 4" =>
         Alone(<<1, 2, 3, 4>>, 3)!CalendarHangsTogether /\ Alone(<<1, 2, 3, 4>>, 3)!EveryPairMeets
    /\ part = "slots" => SlotsOnly!FieldsAreShared

\* NobodyIsMovedIntoTwoPlaces, one request at a time: a match moved or an official named
\* adds no clash to those a generated calendar has (moveMatch, addOfficial).
MovesAddNoClash ==
    [][/\ part = "alone of 3" => Alone(<<1, 2, 3>>, 4)!NobodyIsMovedIntoTwoPlaces
       /\ part = "alone of 4" => Alone(<<1, 2, 3, 4>>, 3)!NobodyIsMovedIntoTwoPlaces]_vars

\* One call at a time, a page whose calls are all answered shows what the API stores:
\* calendar, scores, standings, structure, tournament, teams, collaborators, and the
\* public standings and calendar one change at a time.
RestingPagesAreTrue ==
    /\ part = "schedule" => Schedule!RestingPageIsTrue
    /\ part = "scores" => Scoring!RestingPageIsTrue
    /\ part = "standings" => Ranking!RestingPageIsTrue
    /\ part = "structure" => Structure!RestingStructureIsTrue
    /\ part = "form" => Form!RestingFormIsTrue
    /\ part = "team list" => TeamList!RestingTeamsAreTrue
    /\ part = "collaborators" => Collaborators!RestingCollaboratorsAreTrue
    /\ part = "standings live" => StandingsLive!RestingPageIsUpToDate
    /\ part = "calendar live" => CalendarLive!RestingPageIsUpToDate

\* However answers cross: a calendar waits only for a call in flight (generateSchedule),
\* the app shows one load, whole (loadStandings), teams, members and invitations are
\* those stored once every answer is in (removeTicked, removeMember, invite).
CrossedPagesRecover ==
    /\ part = "schedule" => Schedule!GenerationIsInFlight
    /\ part = "schedule crossed" => ScheduleCrossed!GenerationIsInFlight
    /\ part = "app live" => AppLive!SnapshotIsWhole
    /\ part = "team list crossed" => TeamListCrossed!TeamsConverge
    /\ part = "collaborators crossed" => CollaboratorsCrossed!CollaboratorsConverge

\* However answers cross, nothing is lost to the answer of another row: a score typed
\* leaves its field only when a save or a clear of that match is answered (clearDraft), a
\* team loses a player, a tournament an administrator, only to a click made under its own
\* name (onRemovePlayer, removeAdministrator).
AnswersKeepToTheirRow ==
    [][/\ part = "scores crossed" => \A m \in DOMAIN page.drafts \ DOMAIN page'.drafts :
             \E c \in Two : /\ wire[c].op \in {"save", "clear"}
                            /\ wire[c].at = "back" /\ wire[c].match = m
       /\ part = "team list crossed" =>
             \A t \in DOMAIN server.players \cap DOMAIN server'.players :
                \/ server.players[t] \subseteq server'.players[t]
                \/ \E c \in Two : wire[c].op = "removePlayer" /\ wire[c].team = t
       /\ part = "collaborators crossed" =>
             \A a \in server.administrators \ server'.administrators :
                \E c \in Two : /\ wire[c].op = "dismiss" /\ wire[c].id = a.id
                               /\ wire[c].tournament = a.tournament]_vars

\* FormMirrorsApi and BracketsCanBeFilled: the web's form offers every preset the API
\* accepts, and others only for too many pools or a name given twice, and no client gets a
\* bracket its pools cannot fill (assertCombinationIsPossible, createWithPoolPhase);
\* PoolsShareRules as long as no barème is left unsaved (applyPhaseRulesToGroup); and
\* StructureIsOfListed and EditedTeamsAreStored of the wizard, a lost answer included.
StructuresCanBePlayed ==
    /\ part = "preset" => /\ Preset("generate", {0})!FormMirrorsApi
                          /\ Preset("generate", {0})!BracketsCanBeFilled
    /\ part = "preset in app" => Preset("wizard", {0, 4})!BracketsCanBeFilled
    /\ part = "structure tidy" => StructureTidy!PoolsShareRules
    /\ part = "wizard" => Wizarding!StructureIsOfListed /\ Wizarding!EditedTeamsAreStored

\* The panels, highlights and upset of the wrapped against their definitions, and
\* ImportReadsExport of one team or two (computeMatchStats, findBiggestUpset, parseTeamsCsv).
FiguresAreExact ==
    /\ part = "recap" => /\ Recapped!PanelsAddUp
                         /\ Recapped!HighlightsAreExtremes
                         /\ Recapped!UpsetIsTheBiggest
    /\ part = "spreadsheet" => Logos!ImportReadsExport(server)
================================================================================
