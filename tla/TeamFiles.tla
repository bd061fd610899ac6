------------------------------- MODULE TeamFiles -------------------------------
(***************************************************************************)
(* The teams of one tournament and their files (TeamsService).  A team's   *)
(* row and the file of its logo are written and deleted by separate calls, *)
(* in no transaction; the steps of two requests interleave, and a request  *)
(* may be lost between two of them.  The spreadsheet that teams are        *)
(* exported to and imported from (teams-csv.util.ts) is given character by *)
(* character.  The count of teams a tier allows is the matter of           *)
(* Publication.                                                            *)
(***************************************************************************)
EXTENDS Integers, SequencesExt

CONSTANTS
    Names,
    Groups,       \* the pools of each category
    Divisions,    \* the divisions of each category
    Files,        \* the files imported at most: a list of [name, category, logo]
    Header,       \* the names of the spreadsheet's columns
    Requests,     \* the requests the API serves
    Workloads     \* what a behaviour holds: the requests served concurrently, the calls
                  \* considered, and bounds on the calls and on the requests lost half-way

VARIABLES
    db,     \* there: the tournament is; teams: the rows; disk: the logo files;
            \* next: the next file's name
    req,    \* what each request in flight does next, and what it has read
    left    \* the workload, with the calls and failures still to come

vars == <<db, req, left>>

Gone == <<>>    \* a deleted row
NoLogo == 0
Unset == "none"
Idle == [op |-> "idle", at |-> "idle"]

Live == {t \in DOMAIN db.teams : db.teams[t] # Gone}
Taken(name) == \E t \in Live : db.teams[t].name = name
Categories == DOMAIN Groups

Init ==
    /\ db = [there |-> TRUE, teams |-> <<>>, disk |-> {}, next |-> 1]
    /\ req = [r \in Requests |-> Idle]
    /\ left \in Workloads

\* A call of the organizer's, on an editable tournament, or of the super-admin's.
Accept(r, op) ==
    /\ req[r] = Idle /\ r \in left.requests /\ op \in left.operations
    /\ left.calls > 0 /\ db.there
    /\ left' = [left EXCEPT !.calls = @ - 1]

At(r, op, at) == req[r].op = op /\ req[r].at = at /\ UNCHANGED left
Goto(r, rec) == req' = [req EXCEPT ![r] = rec]
Step(r, at) == req' = [req EXCEPT ![r].at = at]
Finish(r) == req' = [req EXCEPT ![r] = Idle]

Row(name, category, division) ==
    [name |-> name, category |-> category, division |-> division, group |-> Unset, logo |-> NoLogo]

(***************************************************************************)
(* The rows.  The name is looked up before it is written, and the unique   *)
(* index refuses what the look-up missed: one step stands for both.        *)
(***************************************************************************)
Create(r) ==
    /\ Accept(r, "create")
    /\ \E name \in Names, c \in Categories : \E d \in Divisions[c] \cup {Unset} :
          /\ ~Taken(name)
          /\ db' = [db EXCEPT !.teams = Append(@, Row(name, c, d))]
    /\ UNCHANGED req

\* The form sends the name, the category and the division; the pool stays.
Update(r) ==
    /\ Accept(r, "update")
    /\ \E t \in Live, name \in Names, c \in Categories : \E d \in Divisions[c] \cup {Unset} :
          /\ \A u \in Live \ {t} : db.teams[u].name # name
          /\ db' = [db EXCEPT !.teams[t] = [@ EXCEPT !.name = name, !.category = c, !.division = d]]
    /\ UNCHANGED req

\* The pool must be one of the category the team had when it was read.
ReadForGroup(r) ==
    /\ Accept(r, "group")
    /\ \E t \in Live : \E g \in Groups[db.teams[t].category] \cup {Unset} :
          Goto(r, [op |-> "group", at |-> "row", team |-> t, group |-> g])
    /\ UNCHANGED db

AssignGroup(r) ==
    /\ At(r, "group", "row") /\ Finish(r)
    /\ \/ req[r].team \in Live /\ db' = [db EXCEPT !.teams[req[r].team].group = req[r].group]
       \/ req[r].team \notin Live /\ UNCHANGED db

(***************************************************************************)
(* A logo uploaded, or removed                                             *)
(***************************************************************************)
ReadForLogo(r, op, at) ==
    /\ Accept(r, op)
    /\ \E t \in Live :
          Goto(r, [op |-> op, at |-> at, team |-> t, old |-> db.teams[t].logo, new |-> NoLogo])
    /\ UNCHANGED db

StartUpload(r) == ReadForLogo(r, "upload", "write")
StartRemoveLogo(r) == ReadForLogo(r, "removeLogo", "unlink")

\* Mutant: the file is named after its team.
WriteLogoOfTeam(r) ==
    /\ At(r, "upload", "write")
    /\ db' = [db EXCEPT !.disk = @ \cup {req[r].team}, !.next = @ + 1]
    /\ Goto(r, [req[r] EXCEPT !.at = "unlink", !.new = req[r].team])

\* A fresh name each time.
WriteLogo(r) ==
    /\ At(r, "upload", "write")
    /\ db' = [db EXCEPT !.disk = @ \cup {db.next}, !.next = @ + 1]
    /\ Goto(r, [req[r] EXCEPT !.at = "unlink", !.new = db.next])

\* The file the row named when it was read; one already gone is no error.
UnlinkLogo(r) ==
    /\ req[r].at = "unlink" /\ UNCHANGED left
    /\ db' = [db EXCEPT !.disk = @ \ {req[r].old}]
    /\ Step(r, "row")

SaveLogo(r) ==
    /\ req[r].op \in {"upload", "removeLogo"} /\ req[r].at = "row" /\ UNCHANGED left
    /\ \/ req[r].team \in Live /\ db' = [db EXCEPT !.teams[req[r].team].logo = req[r].new]
       \/ req[r].team \notin Live /\ UNCHANGED db
    /\ Finish(r)

(***************************************************************************)
(* Teams removed, one or several, or all with their tournament: the rows,  *)
(* then the files they named when they were read                           *)
(***************************************************************************)
StartRemove(r) ==
    /\ Accept(r, "remove")
    /\ \E teams \in (SUBSET Live) \ {{}} :
          Goto(r, [op |-> "remove", at |-> "rows", teams |-> teams,
                   logos |-> {db.teams[t].logo : t \in teams}])
    /\ UNCHANGED db

DeleteRows(r) ==
    /\ At(r, "remove", "rows") /\ Step(r, "files")
    /\ db' = [db EXCEPT !.teams = [t \in DOMAIN @ |-> IF t \in req[r].teams THEN Gone ELSE @[t]]]

StartDeleteTeam(r) ==
    /\ Accept(r, "remove")
    /\ \E t \in Live :
          Goto(r, [op |-> "removeOne", at |-> "rows", team |-> t, logos |-> {db.teams[t].logo}])
    /\ UNCHANGED db

\* One team: the query fails when the row has gone meanwhile.
DeleteTeam(r) ==
    /\ At(r, "removeOne", "rows")
    /\ \/ req[r].team \in Live /\ db' = [db EXCEPT !.teams[req[r].team] = Gone] /\ Step(r, "files")
       \/ req[r].team \notin Live /\ Finish(r) /\ UNCHANGED db

StartDeleteTournament(r) ==
    /\ Accept(r, "deleteTournament")
    /\ Goto(r, [op |-> "deleteTournament", at |-> "rows",
                logos |-> {db.teams[t].logo : t \in Live}])
    /\ UNCHANGED db

\* The rows go with the tournament, those added since they were read too.
DeleteTournament(r) ==
    /\ At(r, "deleteTournament", "rows")
    /\ \/ /\ db.there /\ Step(r, "files")
          /\ db' = [db EXCEPT !.there = FALSE, !.teams = [t \in DOMAIN @ |-> Gone]]
       \/ ~db.there /\ Finish(r) /\ UNCHANGED db

\* Mutant: the rows go, their files stay.
FilesForgotten(r) == req[r].at = "files" /\ Finish(r) /\ UNCHANGED <<db, left>>

DeleteFiles(r) ==
    /\ req[r].at = "files" /\ Finish(r) /\ UNCHANGED left
    /\ db' = [db EXCEPT !.disk = @ \ req[r].logos]

(***************************************************************************)
(* A file of teams: row after row, each kept whatever comes of the others  *)
(***************************************************************************)
StartImport(r) ==
    /\ Accept(r, "import")
    /\ \E rows \in Files, premium \in BOOLEAN :
          Goto(r, [op |-> "import", at |-> "check", rows |-> rows, i |-> 1, premium |-> premium,
                   team |-> 0, new |-> NoLogo])
    /\ UNCHANGED db

NextRow(r) ==
    IF req[r].i = Len(req[r].rows) THEN Finish(r)
    ELSE Goto(r, [req[r] EXCEPT !.i = @ + 1, !.at = "check"])

\* A row whose category is unknown or whose name is taken is reported and skipped.
CheckRow(r) ==
    /\ At(r, "import", "check") /\ UNCHANGED db
    /\ LET row == req[r].rows[req[r].i] IN
       IF row.category \in Categories /\ ~Taken(row.name) THEN Step(r, "insert") ELSE NextRow(r)

\* Taken since, or the tournament gone: the query fails, and with it the rest of the file.
InsertRow(r) ==
    /\ At(r, "import", "insert")
    /\ LET row == req[r].rows[req[r].i] IN
       \/ (Taken(row.name) \/ ~db.there) /\ Finish(r) /\ UNCHANGED db
       \/ /\ ~Taken(row.name) /\ db.there
          /\ db' = [db EXCEPT !.teams = Append(@, Row(row.name, row.category, Unset))]
          /\ IF row.logo = Unset \/ ~req[r].premium THEN NextRow(r)
             ELSE Goto(r, [req[r] EXCEPT !.at = "fetch", !.team = Len(db.teams) + 1])

\* A link is fetched and stored, a dead one skipped; a path of an earlier export is
\* taken as it is, whether or not its file is there.
FetchLogo(r) ==
    /\ At(r, "import", "fetch")
    /\ LET logo == req[r].rows[req[r].i].logo IN
       \/ /\ logo = "link"
          /\ db' = [db EXCEPT !.disk = @ \cup {db.next}, !.next = @ + 1]
          /\ Goto(r, [req[r] EXCEPT !.at = "logo", !.new = db.next])
       \/ logo \in {"link", "dead"} /\ NextRow(r) /\ UNCHANGED db
       \/ /\ logo = "path" /\ UNCHANGED db
          /\ \E path \in 1 .. db.next - 1 : Goto(r, [req[r] EXCEPT !.at = "logo", !.new = path])

SaveImportedLogo(r) ==
    /\ At(r, "import", "logo")
    /\ \/ /\ req[r].team \in Live /\ NextRow(r)
          /\ db' = [db EXCEPT !.teams[req[r].team].logo = req[r].new]
       \/ req[r].team \notin Live /\ Finish(r) /\ UNCHANGED db

\* A request is lost between two steps: nothing takes it up again.
Fail(r) ==
    /\ req[r] # Idle /\ left.failures > 0
    /\ left' = [left EXCEPT !.failures = @ - 1]
    /\ Finish(r) /\ UNCHANGED db

Next == \E r \in Requests :
    \/ Create(r) \/ Update(r) \/ ReadForGroup(r) \/ AssignGroup(r)
    \/ StartUpload(r) \/ StartRemoveLogo(r) \/ WriteLogo(r) \/ UnlinkLogo(r) \/ SaveLogo(r)
    \/ StartRemove(r) \/ DeleteRows(r) \/ StartDeleteTeam(r) \/ DeleteTeam(r)
    \/ StartDeleteTournament(r) \/ DeleteTournament(r) \/ DeleteFiles(r)
    \/ StartImport(r) \/ CheckRow(r) \/ InsertRow(r) \/ FetchLogo(r) \/ SaveImportedLogo(r)
    \/ Fail(r)

Spec == Init /\ [][Next]_vars

(***************************************************************************)
(* The spreadsheet: what is written must read back as the same teams.  A   *)
(* text is a sequence of characters.                                       *)
(***************************************************************************)
Delimiter == ";"
Quote == "quote"
Newline == "newline"
Return == "return"
Blank == "blank"

Columns == Len(Header)

(***************************************************************************)
(* serializeTeamsCsv                                                       *)
(***************************************************************************)
Double(value) == FoldLeft(LAMBDA text, c : text \o (IF c = Quote THEN <<c, c>> ELSE <<c>>), <<>>, value)

\* Mutant: line breaks do not call for quotes.
EscapeOnLine(value) ==
    IF {Delimiter, Quote} \cap ToSet(value) # {}
    THEN <<Quote>> \o Double(value) \o <<Quote>> ELSE value

Escape(value) ==
    IF {Delimiter, Quote, Newline} \cap ToSet(value) # {}
    THEN <<Quote>> \o Double(value) \o <<Quote>> ELSE value

Join(texts, separator) ==
    FoldLeft(LAMBDA all, i : IF i = 1 THEN texts[1] ELSE all \o separator \o texts[i],
             <<>>, [i \in DOMAIN texts |-> i])

Line(row) == Join([i \in DOMAIN row |-> Escape(row[i])], <<Delimiter>>)

Serialize(rows) ==
    Join([i \in 1 .. Len(rows) + 1 |-> IF i = 1 THEN Line(Header) ELSE Line(rows[i - 1])],
         <<Return, Newline>>)

(***************************************************************************)
(* tokenizeCsv: a scanner over the text, whose line ends are made alike    *)
(* first.  A quote that may close its field waits for the next character.  *)
(***************************************************************************)
Normalize(text) ==
    FoldLeft(LAMBDA all, i :
                CASE text[i] = Return -> Append(all, Newline)
                  [] text[i] = Newline /\ i > 1 /\ text[i - 1] = Return -> all
                  [] OTHER -> Append(all, text[i]),
             <<>>, [i \in DOMAIN text |-> i])

Start == [rows |-> <<>>, row |-> <<>>, field |-> <<>>, mode |-> "plain"]

Plain(s, c) ==
    CASE c = Quote -> [s EXCEPT !.mode = "quoted"]
      [] c = Delimiter -> [s EXCEPT !.row = Append(@, s.field), !.field = <<>>, !.mode = "plain"]
      [] c = Newline -> [s EXCEPT !.rows = Append(@, Append(s.row, s.field)),
                                  !.row = <<>>, !.field = <<>>, !.mode = "plain"]
      [] OTHER -> [s EXCEPT !.field = Append(@, c), !.mode = "plain"]

Scan(s, c) ==
    CASE s.mode = "quoted" -> IF c = Quote THEN [s EXCEPT !.mode = "closing"]
                              ELSE [s EXCEPT !.field = Append(@, c)]
      [] s.mode = "closing" /\ c = Quote ->
            [s EXCEPT !.field = Append(@, c), !.mode = "quoted"]
      [] OTHER -> Plain(s, c)

Tokenize(text) ==
    LET end == FoldLeft(Scan, Start, Normalize(text)) IN
    IF end.field # <<>> \/ end.row # <<>>
    THEN Append(end.rows, Append(end.row, end.field)) ELSE end.rows

(***************************************************************************)
(* parseTeamsCsv: the header is dropped, blank lines too; a row needs a    *)
(* name and a category.                                                    *)
(***************************************************************************)
IsBlank(c) == c \in {Blank, Newline, Return}

Trim(value) ==
    LET kept == {i \in DOMAIN value : ~IsBlank(value[i])} IN
    IF kept = {} THEN <<>>
    ELSE SubSeq(value, CHOOSE i \in kept : \A j \in kept : i <= j,
                       CHOOSE i \in kept : \A j \in kept : j <= i)

Lines(text) == Tail(SelectSeq(Tokenize(text), LAMBDA row : \E i \in DOMAIN row : Trim(row[i]) # <<>>))

Cell(row, i) == IF i \in DOMAIN row THEN Trim(row[i]) ELSE <<>>

Rows(text) ==
    SelectSeq([i \in DOMAIN Lines(text) |-> [j \in 1 .. Columns |-> Cell(Lines(text)[i], j)]],
              LAMBDA row : row[1] # <<>> /\ row[2] # <<>>)

--------------------------------------------------------------------------------
Quiet == \A r \in Requests : req[r] = Idle

Logos == {db.teams[t].logo : t \in Live} \ {NoLogo}

\* When no request is in flight, the logo a team shows is a file that is there,
\* however uploads, removals and imports of links crossed (uploadLogo,
\* removeLogo, remove, importFromCsv).
LogosNameFiles == Quiet => Logos \subseteq db.disk

Alone == \A r, s \in left.requests : r = s

\* Requests served one at a time leave no file behind that no team shows, and no two
\* teams ever show the same file.
FilesAreUsed ==
    Quiet => /\ Alone => db.disk \subseteq Logos
             /\ \A t, u \in Live : db.teams[t].logo = db.teams[u].logo /\ t # u
                                      => db.teams[t].logo = NoLogo

\* exportToCsv then importFromCsv: whatever delimiters, quotes and line breaks the
\* teams' fields hold, every team is read back with the same fields, in order, and
\* none is invented.
ImportReadsExport(teams) == Rows(Serialize(teams)) = teams

\* A team whose fields the import leaves as they are: named, in a category, with no
\* blank at either end of a field and no carriage return in it.
Importable(team) ==
    /\ team[1] # <<>> /\ team[2] # <<>>
    /\ \A i \in DOMAIN team : Trim(team[i]) = team[i] /\ Return \notin ToSet(team[i])
================================================================================
