----------------------------- MODULE TeamListPage -----------------------------
(***************************************************************************)
(* The organizer's page of a tournament's teams (team-list.page.ts): the   *)
(* list, the form that creates or edits a team, logos, removals, the       *)
(* import, one team's players, and the dialog that sells the next tier     *)
(* when a team is one too many.  The API keeps the teams and the players   *)
(* (TeamsService, PlayersService) of a published tournament.  The columns  *)
(* of the file imported are TeamFiles's; exporting it only reads.          *)
(***************************************************************************)
EXTENDS PageCalls, Sequences

CONSTANTS
    Names,
    Categories,
    Divisions,     \* the divisions of each category
    Managers,      \* what a team's manager may be, None included
    Given,         \* the teams there are: a function from ids
    FreeTeams,     \* the teams that are free
    Capacities,    \* the teams the tiers paid for may allow
    Imported,      \* the files the organizer may import: sequences of rows
    MaxFailures    \* bound: calls that fail on their way

NoTeam == [name |-> None, category |-> None, division |-> None, manager |-> None]
EmptyForm == [editing |-> None] @@ NoTeam

\* Premium features are taken as unlocked until the API has answered.
Blank == [loading |-> TRUE, gone |-> FALSE, teams |-> <<>>, categories |-> {}, premium |-> TRUE,
          form |-> EmptyForm, modal |-> FALSE, upgrading |-> FALSE,
          selected |-> {}, confirming |-> None, deleting |-> None,
          confirmingTicked |-> FALSE, deletingTicked |-> FALSE,
          expanded |-> None, players |-> {}]

\* lost is history: the calls that failed.
Init ==
    /\ page = Blank
    /\ \E capacity \in Capacities :
          server = [teams |-> Given, players |-> [t \in DOMAIN Given |-> {}],
                    capacity |-> capacity, subscribed |-> FALSE,
                    last |-> Cardinality(DOMAIN Given), lost |-> {}]
    /\ NoCalls

\* Nothing is shown while the page loads, nor once the browser has left for a checkout.
Usable == ~page.loading /\ ~page.gone
Ready(c, op) == Click(c, op) /\ Usable
Tap(op) == Spend(op) /\ Usable /\ UNCHANGED <<server, wire>>

Replaced(teams, answer) == [t \in DOMAIN teams |-> IF t = answer.id THEN answer.team ELSE teams[t]]
Without(f, ids) == Restrict(f, DOMAIN f \ ids)

(***************************************************************************)
(* Calls that are refused                                                  *)
(***************************************************************************)
\* The network is down, or the session is over.
Fail(c) ==
    /\ wire[c].at = "sent" /\ Cardinality(server.lost) < MaxFailures
    /\ server' = [server EXCEPT !.lost = @ \cup {wire[c].op}]
    /\ wire' = [wire EXCEPT ![c].at = "refused"] /\ UNCHANGED <<page, left>>

\* Only a creation looks why: one team too many opens the dialog.  The form keeps what
\* was typed, a removal stays to be confirmed, a team expanded stays so.
GotRefusal(c) ==
    /\ Refused(c) /\ Hang(c)
    /\ LET op == wire[c].op IN
       page' = [page EXCEPT
           !.loading = @ /\ op \notin {"list", "categories"},
           !.modal = @ \/ ("tier" \in DOMAIN wire[c] /\ wire[c].tier),
           !.upgrading = @ /\ op \notin {"upgrade", "subscribe"},
           !.deleting = IF op = "remove" THEN None ELSE @,
           !.deletingTicked = @ /\ op # "removeTicked"]

(***************************************************************************)
(* Loading: the teams, then the categories, then whether logos are open    *)
(***************************************************************************)
Open(c) ==
    /\ page.loading /\ AtRest /\ Send(c, [op |-> "list"])
    /\ UNCHANGED <<page, server, left>>

\* hasPremiumFeatures: a subscription, enough teams, or a tier paid for.
Unlocked == \/ server.subscribed
            \/ Cardinality(DOMAIN server.teams) > FreeTeams
            \/ server.capacity > FreeTeams

ServeRead(c) ==
    /\ UNCHANGED server
    /\ \/ Serve(c, "list") /\ Answer(c, server.teams)
       \/ Serve(c, "categories") /\ Answer(c, Categories)
       \/ Serve(c, "premium") /\ Answer(c, Unlocked)

GotTeams(c) ==
    /\ Back(c, "list") /\ Send(c, [op |-> "categories"])
    /\ page' = [page EXCEPT !.teams = wire[c].data]

GotCategories(c) ==
    /\ Back(c, "categories") /\ Send(c, [op |-> "premium"])
    /\ page' = [page EXCEPT !.categories = wire[c].data, !.loading = FALSE]

GotPremium(c) ==
    Back(c, "premium") /\ Hang(c) /\ page' = [page EXCEPT !.premium = wire[c].data]

(***************************************************************************)
(* The form                                                                *)
(***************************************************************************)
\* The category is chosen among those loaded and empties the division.
Type ==
    /\ Tap("type")
    /\ \E name \in Names, manager \in Managers, category \in page.categories \cup {page.form.category} :
       \E division \in IF category \in page.categories THEN Divisions[category] \cup {None}
                       ELSE {page.form.division} :
          page' = [page EXCEPT !.form = [@ EXCEPT !.name = name, !.category = category,
                                                  !.division = division, !.manager = manager]]

\* A row to be confirmed shows no other button.
Unarmed == DOMAIN page.teams \ {page.confirming}

Row(form) == [n \in DOMAIN NoTeam |-> form[n]]

StartEdit ==
    /\ Tap("edit")
    /\ \E t \in Unarmed : page' = [page EXCEPT !.form = [editing |-> t] @@ Row(page.teams[t])]

CancelEdit == Tap("cancel") /\ page' = [page EXCEPT !.form = EmptyForm]

\* An empty division is sent to an update and left out of a creation; an empty
\* manager is left out of both.
Submit(c) ==
    /\ Ready(c, "submit") /\ page.form.name # None /\ page.form.category # None
    /\ LET form == page.form IN
       Send(c, [op |-> IF form.editing = None THEN "create" ELSE "update", form |-> form])
    /\ UNCHANGED <<page, server>>

Taken(name, but) == \E t \in DOMAIN server.teams \ {but} : server.teams[t].name = name

\* assertTeamAdditionAllowed: what a published tournament has paid for covers them all.
Allowed(more) ==
    server.subscribed \/ Cardinality(DOMAIN server.teams) + more <= server.capacity

ServeCreate(c) ==
    /\ Serve(c, "create")
    /\ LET form == wire[c].form
           id == server.last + 1
           team == [logo |-> FALSE] @@ Row(form)
       IN
       \/ (~Allowed(1) \/ Taken(form.name, None)) /\ UNCHANGED server
          /\ wire' = [wire EXCEPT ![c] = [at |-> "refused", tier |-> ~Allowed(1)] @@ @]
       \/ /\ Allowed(1) /\ ~Taken(form.name, None)
          /\ server' = [server EXCEPT !.teams = (id :> team) @@ @,
                                      !.players = (id :> {}) @@ @, !.last = id]
          /\ Answer(c, [id |-> id, team |-> team])

\* A write to a team that is there, answered with its row, or a refusal.
Change(c, t, allowed, team) ==
    IF t \in DOMAIN server.teams /\ allowed
    THEN server' = [server EXCEPT !.teams[t] = team] /\ Answer(c, [id |-> t, team |-> team])
    ELSE Refuse(c)

\* What is not sent stays as it was.
Merged(row, form) ==
    [Row(form) EXCEPT !.manager = IF @ = None THEN row.manager ELSE @] @@ row

ServeUpdate(c) ==
    /\ Serve(c, "update")
    /\ LET form == wire[c].form  t == form.editing IN
       Change(c, t, ~Taken(form.name, t), Merged(server.teams[t], form))

GotCreated(c) ==
    /\ Back(c, "create") /\ Hang(c)
    /\ page' = [page EXCEPT !.teams = (wire[c].data.id :> wire[c].data.team) @@ @, !.form = EmptyForm]

\* Mutant: the row shows what was typed instead of what was stored.
GotUpdatedAsTyped(c) ==
    /\ Back(c, "update") /\ Hang(c)
    /\ page' = [page EXCEPT !.teams = [t \in DOMAIN @ |-> IF t = wire[c].data.id
                                                          THEN Row(wire[c].form) @@ @[t] ELSE @[t]],
                            !.form = EmptyForm]

\* Whatever is in the form by then is emptied.
GotUpdated(c) ==
    /\ Back(c, "update") /\ Hang(c)
    /\ page' = [page EXCEPT !.teams = Replaced(@, wire[c].data), !.form = EmptyForm]

(***************************************************************************)
(* Logos                                                                   *)
(***************************************************************************)
Logo(c) ==
    /\ UNCHANGED <<page, server>>
    /\ \E t \in DOMAIN page.teams :
       \/ Ready(c, "upload") /\ page.premium /\ Send(c, [op |-> "upload", team |-> t])
       \/ Ready(c, "removeLogo") /\ page.teams[t].logo /\ Send(c, [op |-> "removeLogo", team |-> t])

ServeLogo(c) == \E op \in {"upload", "removeLogo"} :
    /\ Serve(c, op)
    /\ LET t == wire[c].team IN
       Change(c, t, op = "upload" => Unlocked, [server.teams[t] EXCEPT !.logo = op = "upload"])

GotLogo(c) == \E op \in {"upload", "removeLogo"} :
    Back(c, op) /\ Hang(c) /\ page' = [page EXCEPT !.teams = Replaced(@, wire[c].data)]

(***************************************************************************)
(* The dialog: a tier for one more team, or a subscription.  Neither adds  *)
(* the team; what costs something sends the browser to the checkout.       *)
(***************************************************************************)
Upgrade(c) == \E op \in {"upgrade", "subscribe"} :
    /\ Ready(c, op) /\ page.modal /\ ~page.upgrading /\ Send(c, [op |-> op])
    /\ page' = [page EXCEPT !.upgrading = TRUE] /\ UNCHANGED server

\* The answer says whether there is something to pay.
ServeUpgrade(c) == Serve(c, "upgrade") /\ Answer(c, ~Allowed(1)) /\ UNCHANGED server

ServeSubscribe(c) ==
    /\ Serve(c, "subscribe")
    /\ \/ server.subscribed /\ Refuse(c)
       \/ ~server.subscribed /\ Answer(c, TRUE) /\ UNCHANGED server
       \/ ~server.subscribed /\ Answer(c, FALSE) /\ server' = [server EXCEPT !.subscribed = TRUE]

GotUpgrade(c) == \E op \in {"upgrade", "subscribe"} :
    /\ Back(c, op) /\ Hang(c)
    /\ page' = [page EXCEPT !.upgrading = FALSE, !.gone = @ \/ wire[c].data,
                            !.modal = @ /\ wire[c].data]

CloseModal == Tap("close") /\ page.modal /\ page' = [page EXCEPT !.modal = FALSE]

(***************************************************************************)
(* Removals: a team after a second click, or those ticked after one        *)
(***************************************************************************)
Tick == Tap("tick") /\ \E t \in DOMAIN page.teams :
            page' = [page EXCEPT !.selected = IF t \in @ THEN @ \ {t} ELSE @ \cup {t}]

Arm == Tap("arm") /\ \E t \in Unarmed : page' = [page EXCEPT !.confirming = t]

Armed == page.confirming \in DOMAIN page.teams /\ page.deleting # page.confirming

Disarm == Tap("disarm") /\ Armed /\ page' = [page EXCEPT !.confirming = None]

Remove(c) ==
    /\ Ready(c, "remove") /\ Armed /\ UNCHANGED server
    /\ Send(c, [op |-> "remove", teams |-> {page.confirming}])
    /\ page' = [page EXCEPT !.deleting = page.confirming]

ArmTicked ==
    /\ Tap("armTicked") /\ ~page.confirmingTicked /\ page.selected # {}
    /\ page' = [page EXCEPT !.confirmingTicked = TRUE]

DisarmTicked ==
    /\ Tap("disarm") /\ page.confirmingTicked /\ ~page.deletingTicked
    /\ page' = [page EXCEPT !.confirmingTicked = FALSE]

\* Those ticked by the time of the second click.
RemoveTicked(c) ==
    /\ Ready(c, "removeTicked") /\ page.confirmingTicked /\ ~page.deletingTicked
    /\ page.selected # {} /\ UNCHANGED server
    /\ Send(c, [op |-> "removeTicked", teams |-> page.selected])
    /\ page' = [page EXCEPT !.deletingTicked = TRUE]

\* A team that is not there is an error alone, and passed over among several.
ServeRemove(c) ==
    /\ \/ Serve(c, "remove") /\ wire[c].teams \subseteq DOMAIN server.teams
       \/ Serve(c, "removeTicked")
    /\ server' = [server EXCEPT !.teams = Without(@, wire[c].teams),
                                !.players = Without(@, wire[c].teams)]
    /\ Answer(c, None)

RefuseRemove(c) ==
    Serve(c, "remove") /\ ~(wire[c].teams \subseteq DOMAIN server.teams) /\ Refuse(c)

\* Another team armed meanwhile is no longer; the ticks of teams removed one by one stay.
GotRemoved(c) ==
    /\ Back(c, "remove") /\ Hang(c)
    /\ page' = [page EXCEPT !.teams = Without(@, wire[c].teams),
                            !.confirming = None, !.deleting = None]

\* Mutant: every team ticked by then leaves the list.
GotTickedOfNow(c) ==
    /\ Back(c, "removeTicked") /\ Hang(c)
    /\ page' = [page EXCEPT !.teams = Without(@, page.selected), !.selected = {},
                            !.confirmingTicked = FALSE, !.deletingTicked = FALSE]

\* Those removed leave the list; those ticked meanwhile are only unticked.
GotTickedRemoved(c) ==
    /\ Back(c, "removeTicked") /\ Hang(c)
    /\ page' = [page EXCEPT !.teams = Without(@, wire[c].teams), !.selected = {},
                            !.confirmingTicked = FALSE, !.deletingTicked = FALSE]

(***************************************************************************)
(* The import                                                              *)
(***************************************************************************)
Import(c) ==
    /\ Ready(c, "import") /\ UNCHANGED <<page, server>>
    /\ \E rows \in Imported : Send(c, [op |-> "import", rows |-> rows])

\* All the rows are counted against the tier; those of a category that is not there or
\* of a name taken, if only by a row before, are skipped.
ServeImport(c) ==
    /\ Serve(c, "import")
    /\ LET rows == wire[c].rows
           known == {i \in DOMAIN rows : rows[i].category \in Categories}
           new == {i \in known : /\ ~Taken(rows[i].name, None)
                                 /\ \A j \in known : j < i => rows[j].name # rows[i].name}
           Id(i) == server.last + Cardinality({j \in new : j <= i})
           created == [t \in {Id(i) : i \in new} |->
                         [logo |-> FALSE] @@ rows[CHOOSE i \in new : Id(i) = t] @@ NoTeam]
       IN
       \/ ~Allowed(Len(rows)) /\ Refuse(c)
       \/ /\ Allowed(Len(rows))
          /\ server' = [server EXCEPT !.teams = created @@ @,
                                      !.players = [t \in DOMAIN created |-> {}] @@ @,
                                      !.last = @ + Cardinality(new)]
          /\ Answer(c, created)

GotImport(c) ==
    /\ Back(c, "import") /\ Hang(c)
    /\ page' = [page EXCEPT !.teams = wire[c].data @@ @]

(***************************************************************************)
(* One team's players                                                      *)
(***************************************************************************)
\* The players of the team shown before stay until the others are there.
Expand(c) ==
    /\ Ready(c, "expand") /\ UNCHANGED server
    /\ \E t \in Unarmed \ {page.expanded} :
          Send(c, [op |-> "players", team |-> t]) /\ page' = [page EXCEPT !.expanded = t]

Collapse ==
    /\ Tap("collapse") /\ page.expanded \in Unarmed
    /\ page' = [page EXCEPT !.expanded = None]

ServePlayers(c) ==
    /\ Serve(c, "players")
    /\ \/ wire[c].team \in DOMAIN server.teams
          /\ Answer(c, server.players[wire[c].team]) /\ UNCHANGED server
       \/ wire[c].team \notin DOMAIN server.teams /\ Refuse(c)

GotPlayers(c) == Back(c, "players") /\ Hang(c) /\ page' = [page EXCEPT !.players = wire[c].data]

Shown == page.expanded \in DOMAIN page.teams

\* Both names are typed first.
AddPlayer(c) ==
    /\ Ready(c, "addPlayer") /\ Shown /\ UNCHANGED <<page, server>>
    /\ Send(c, [op |-> "addPlayer", team |-> page.expanded])

ServeAddPlayer(c) ==
    /\ Serve(c, "addPlayer")
    /\ LET t == wire[c].team  id == server.last + 1 IN
       \/ /\ t \in DOMAIN server.teams
          /\ server' = [server EXCEPT !.players[t] = @ \cup {id}, !.last = id]
          /\ Answer(c, id)
       \/ t \notin DOMAIN server.teams /\ Refuse(c)

GotPlayer(c) ==
    Back(c, "addPlayer") /\ Hang(c) /\ page' = [page EXCEPT !.players = @ \cup {wire[c].data}]

RemovePlayer(c) ==
    /\ Ready(c, "removePlayer") /\ Shown /\ UNCHANGED <<page, server>>
    /\ \E p \in page.players : Send(c, [op |-> "removePlayer", team |-> page.expanded, player |-> p])

\* Mutant: the player is looked up by its id alone.
PlaysAnywhere(t, p) == \E u \in DOMAIN server.players : p \in server.players[u]

PlaysFor(t, p) == t \in DOMAIN server.teams /\ p \in server.players[t]

ServeRemovePlayer(c) ==
    /\ Serve(c, "removePlayer")
    /\ LET p == wire[c].player IN
       \/ /\ PlaysFor(wire[c].team, p) /\ Answer(c, None)
          /\ server' = [server EXCEPT !.players = [t \in DOMAIN @ |-> @[t] \ {p}]]
       \/ ~PlaysFor(wire[c].team, p) /\ Refuse(c)

GotPlayerRemoved(c) ==
    /\ Back(c, "removePlayer") /\ Hang(c)
    /\ page' = [page EXCEPT !.players = @ \ {wire[c].player}]

Next ==
    \/ Type \/ StartEdit \/ CancelEdit \/ CloseModal \/ Tick \/ Collapse
    \/ Arm \/ Disarm \/ ArmTicked \/ DisarmTicked
    \/ \E c \in Connections :
       \/ Fail(c) \/ GotRefusal(c)
       \/ Open(c) \/ ServeRead(c) \/ GotTeams(c) \/ GotCategories(c) \/ GotPremium(c)
       \/ Submit(c) \/ ServeCreate(c) \/ ServeUpdate(c) \/ GotCreated(c) \/ GotUpdated(c)
       \/ Logo(c) \/ ServeLogo(c) \/ GotLogo(c)
       \/ Upgrade(c) \/ ServeUpgrade(c) \/ ServeSubscribe(c) \/ GotUpgrade(c)
       \/ Remove(c) \/ RemoveTicked(c) \/ ServeRemove(c) \/ RefuseRemove(c)
       \/ GotRemoved(c) \/ GotTickedRemoved(c)
       \/ Import(c) \/ ServeImport(c) \/ GotImport(c)
       \/ Expand(c) \/ ServePlayers(c) \/ GotPlayers(c)
       \/ AddPlayer(c) \/ ServeAddPlayer(c) \/ GotPlayer(c)
       \/ RemovePlayer(c) \/ ServeRemovePlayer(c) \/ GotPlayerRemoved(c)

Spec == Init /\ [][Next]_vars

--------------------------------------------------------------------------------
\* When no call is in flight the list is what the API stores, and the players shown
\* are those of the team they are shown under, as long as the reads of the list and of
\* the players did not fail (created, updated, imported, removed).
RestingTeamsAreTrue ==
    ~page.loading /\ AtRest /\ "list" \notin server.lost =>
        /\ page.teams = server.teams
        /\ Shown /\ "players" \notin server.lost => page.players = server.players[page.expanded]

\* However answers cross, the list shows no team that was removed and misses none
\* that was created or imported, once every answer is in.
TeamsConverge ==
    ~page.loading /\ AtRest /\ "list" \notin server.lost => DOMAIN page.teams = DOMAIN server.teams

\* The organizer removes no player but one of the team it is removed from: a list
\* of players left from another team cannot cost that team a player.
OnlyOwnPlayersGo ==
    [][\A t \in DOMAIN server.players \cap DOMAIN server'.players :
          server.players[t] \subseteq server'.players[t] \/
          \E c \in Connections : wire[c].op = "removePlayer" /\ wire[c].team = t]_vars
================================================================================
