--------------------------------- MODULE Wizard ---------------------------------
(***************************************************************************)
(* The app's tournament wizard (OrganizerTournamentWizardPage): five steps *)
(* -- infos, teams, structure, calendar, publication -- each of which      *)
(* submits its own part by calls of its own before the next is shown.  A   *)
(* step back undoes nothing of what was submitted.  In edit mode the parts *)
(* are loaded first and the steps may be visited in any order.             *)
(***************************************************************************)
EXTENDS PageCalls, Sequences, SequencesExt

CONSTANTS
    Names,       \* names of teams
    Least,       \* teams listed before the structure: 3 in the app
    MaxListed,   \* bound: teams listed
    Given,       \* the tournament edited, as others left it; None to create one
    MaxFailures  \* bound: calls refused, or of which no answer comes

Finished == 6   \* the step "done"

(***************************************************************************)
(* The API, as far as the wizard goes: what it is asked of its tournaments.*)
(* What a tournament refuses for its status is Publication's matter: here  *)
(* any call may fail.                                                      *)
(***************************************************************************)
Blank == [category |-> FALSE, teams |-> {}, structure |-> None, venue |-> FALSE,
          scheduled |-> FALSE, status |-> "DRAFT"]

Mine(c) == wire[c].tournament
Stored(c) == server.of[Mine(c)]
Store(c, t) == server' = [server EXCEPT !.of[Mine(c)] = t]
Done(c) == Answer(c, None)

CreateTournament(c) ==
    /\ Serve(c, "tournament")
    /\ server' = [server EXCEPT !.of = Append(@, Blank)]
    /\ Answer(c, Len(server.of) + 1)

\* The name and the sport, whether it is listed; the theme and the logo, which
\* may take a paid plan.  Nothing here depends on their values.
UpdateTournament(c) ==
    /\ \E op \in {"infos", "theme", "logo", "listed"} : Serve(c, op)
    /\ \/ Done(c) /\ UNCHANGED server
       \/ wire[c].op \in {"theme", "logo"} /\ Refuse(c)

CreateCategory(c) ==
    /\ Serve(c, "category")
    /\ Store(c, [Stored(c) EXCEPT !.category = TRUE]) /\ Done(c)

\* One team of a name in a category.
CreateTeam(c) ==
    /\ Serve(c, "createTeam")
    /\ IF wire[c].team \in Stored(c).teams THEN Refuse(c)
       ELSE Store(c, [Stored(c) EXCEPT !.teams = @ \cup {wire[c].team}]) /\ Done(c)

RemoveTeam(c) ==
    /\ Serve(c, "removeTeam")
    /\ IF wire[c].team \notin Stored(c).teams THEN Refuse(c)
       ELSE Store(c, [Stored(c) EXCEPT !.teams = @ \ {wire[c].team}]) /\ Done(c)

\* Mutant: the teams are not counted.
CreatePresetUncounted(c) ==
    /\ Serve(c, "preset")
    /\ \/ /\ Stored(c).structure = None
          /\ Store(c, [Stored(c) EXCEPT !.structure = [of |-> Stored(c).teams, pools |-> wire[c].pools]])
          /\ Done(c)
       \/ Refuse(c)

\* StructurePresetsService.create: for a category without phases, and for as
\* many teams as are in no pool.  Whether its numbers go together is free here.
CreatePreset(c) ==
    /\ Serve(c, "preset")
    /\ \/ /\ Stored(c).structure = None /\ Cardinality(Stored(c).teams) = wire[c].count
          /\ Store(c, [Stored(c) EXCEPT !.structure = [of |-> Stored(c).teams, pools |-> wire[c].pools]])
          /\ Done(c)
       \/ Refuse(c)

\* A venue of that name, once; then the field in it.
CreateVenue(c) ==
    \/ /\ Serve(c, "venue")
       /\ IF Stored(c).venue THEN Refuse(c) ELSE Store(c, [Stored(c) EXCEPT !.venue = TRUE]) /\ Done(c)
    \/ Serve(c, "field") /\ Done(c) /\ UNCHANGED server

GenerateMatches(c) ==
    /\ Serve(c, "schedule")
    /\ IF Stored(c).scheduled THEN Refuse(c)
       ELSE Store(c, [Stored(c) EXCEPT !.scheduled = TRUE]) /\ Done(c)

\* Published at once, always for an organization that subscribes, or an order to pay.
PublishTournament(c) ==
    /\ Serve(c, "publish")
    /\ \E status \in {"PUBLISHED"} \cup (IF server.subscribed THEN {} ELSE {"PENDING_PAYMENT"}) :
          Store(c, [Stored(c) EXCEPT !.status = status]) /\ Answer(c, status)

UnpublishTournament(c) ==
    /\ Serve(c, "unpublish")
    /\ Store(c, [Stored(c) EXCEPT !.status = "UNPUBLISHED"]) /\ Answer(c, "UNPUBLISHED")

\* The App Store's sheet, which may be cancelled, and what the API then confirms.
Purchase(c) ==
    \/ Serve(c, "purchase") /\ ((Done(c) /\ UNCHANGED server) \/ Refuse(c))
    \/ /\ Serve(c, "confirm")
       /\ IF wire[c].bought = "plan" THEN server' = [server EXCEPT !.subscribed = TRUE]
          ELSE Store(c, [Stored(c) EXCEPT !.status = "PUBLISHED"])
       /\ Done(c)

ReadPart(c) == Serve(c, "load") /\ Answer(c, Stored(c)) /\ UNCHANGED server

\* A call is refused, or no answer comes whether or not it was served.
Lose(c) ==
    /\ wire[c].at \in {"sent", "back"}
    /\ server.lost < MaxFailures
    /\ server' = [server EXCEPT !.lost = @ + 1]
    /\ wire' = [wire EXCEPT ![c].at = "refused"]
    /\ UNCHANGED <<page, left>>

Api(c) ==
    \/ CreateTournament(c) \/ UpdateTournament(c) \/ CreateCategory(c)
    \/ CreateTeam(c) \/ RemoveTeam(c) \/ CreatePreset(c) \/ CreateVenue(c) \/ GenerateMatches(c)
    \/ PublishTournament(c) \/ UnpublishTournament(c) \/ Purchase(c) \/ ReadPart(c) \/ Lose(c)

(***************************************************************************)
(* The page.  One flag keeps its calls apart, the calendar has its own.    *)
(* Leaving it from step 1, or when done, ends a behaviour.                 *)
(***************************************************************************)
Empty == [mode |-> "create", step |-> 1, teams |-> <<>>, format |-> "pools", tournament |-> None,
          category |-> None, groupPhase |-> None, summary |-> FALSE, matches |-> None,
          status |-> "DRAFT", subscribed |-> FALSE, submitting |-> FALSE, generating |-> FALSE, initializing |-> FALSE]

Call(op) == [op |-> op, tournament |-> page.tournament]

Init ==
    /\ \E t \in Given :
          /\ server = [of |-> IF t = None THEN <<>> ELSE <<t>>, lost |-> 0, subscribed |-> FALSE]
          /\ \/ t = None /\ page = Empty /\ wire = [c \in Connections |-> Idle]
             \/ /\ t # None
                /\ page = [Empty EXCEPT !.mode = "edit", !.tournament = 1, !.initializing = TRUE]
                /\ \E c \in Connections : wire =
                      [[x \in Connections |-> Idle] EXCEPT
                          ![c] = [op |-> "load", at |-> "sent", tournament |-> 1, part |-> "tournament"]]
    /\ left = MaxClicks

\* loadForEdit: the tournament, its category, its teams and phases, its matches,
\* each if the one before says that there is any.
LoadNext(c, part) == Send(c, Call("load") @@ [part |-> part])
LoadEnds(c, p) == page' = [p EXCEPT !.initializing = FALSE] /\ Hang(c)
LoadGoesOn(c, p, more, part) ==
    \/ more /\ page' = p /\ LoadNext(c, part)
    \/ ~more /\ LoadEnds(c, p)

Loaded(c) ==
    /\ Back(c, "load")
    /\ LET t == wire[c].data
       IN  \/ /\ wire[c].part = "tournament"
              /\ page' = [page EXCEPT !.status = t.status]
              /\ LoadNext(c, "categories")
           \/ /\ wire[c].part = "categories"
              /\ LoadGoesOn(c, IF t.category THEN [page EXCEPT !.category = 1] ELSE page,
                            t.category, "teams")
           \/ /\ wire[c].part = "teams"
              /\ LET built == t.structure # None
                     pools == built /\ t.structure.pools
                 IN  LoadGoesOn(c, [page EXCEPT !.teams = SetToSeq(t.teams), !.summary = built,
                                                !.groupPhase = IF pools THEN 1 ELSE None],
                                pools, "matches")
           \/ /\ wire[c].part = "matches"
              /\ LoadEnds(c, IF t.scheduled THEN [page EXCEPT !.matches = 1] ELSE page)

NotLoaded(c) == Refused(c) /\ wire[c].op = "load" /\ LoadEnds(c, page)

Type(p) == page' = p /\ UNCHANGED <<server, wire, left>>
Shown(n) == page.step = n /\ ~page.initializing

\* It may change while a call is in flight.
SelectFormat == \E f \in {"pools", "knockout"} :
    Shown(3) /\ ~page.summary /\ Type([page EXCEPT !.format = f])

\* In create mode teams are only listed, under any name; in edit mode each is sent at once.
ListTeam == \E n \in Names :
    /\ Shown(2) /\ page.mode = "create" /\ ~page.submitting /\ Len(page.teams) < MaxListed
    /\ Type([page EXCEPT !.teams = Append(@, n)])

UnlistTeam == \E i \in DOMAIN page.teams :
    /\ Shown(2) /\ page.mode = "create" /\ ~page.submitting
    /\ Type([page EXCEPT !.teams = RemoveAt(@, i)])

Submit(c, op) ==
    /\ Click(c, op) /\ ~page.submitting /\ ~page.initializing
    /\ page' = [page EXCEPT !.submitting = TRUE]
    /\ UNCHANGED server

AddTeam(c) == \E n \in Names :
    /\ page.step = 2 /\ page.mode = "edit" /\ page.category # None
    /\ Submit(c, "addTeam") /\ Send(c, Call("createTeam") @@ [team |-> n, rest |-> <<>>])

DropTeam(c) == \E i \in DOMAIN page.teams :
    /\ page.step = 2 /\ page.mode = "edit"
    /\ Submit(c, "removeTeam") /\ Send(c, Call("removeTeam") @@ [team |-> page.teams[i], index |-> i])

\* Mutant: a team removed stays listed.
GotTeamKept(c) ==
    /\ page.mode = "edit" /\ Hang(c)
    /\ \/ /\ Back(c, "createTeam")
          /\ page' = [page EXCEPT !.teams = Append(@, wire[c].team), !.submitting = FALSE]
       \/ Back(c, "removeTeam") /\ page' = [page EXCEPT !.submitting = FALSE]

GotTeam(c) ==
    /\ page.mode = "edit" /\ Hang(c)
    /\ \/ /\ Back(c, "createTeam")
          /\ page' = [page EXCEPT !.teams = Append(@, wire[c].team), !.submitting = FALSE]
       \/ /\ Back(c, "removeTeam")
          /\ page' = [page EXCEPT !.teams = RemoveAt(@, wire[c].index), !.submitting = FALSE]

GoToStep == \E n \in 1..5 :
    /\ page.mode = "edit" /\ page.step # Finished /\ ~page.submitting /\ ~page.initializing
    /\ Type([page EXCEPT !.step = n])

\* The step back of the toolbar is not held up by a call in flight.
PrevStep == page.step \in 2..5 /\ Type([page EXCEPT !.step = @ - 1])

CanAdvance == page.step = 2 => page.mode = "edit" \/ Len(page.teams) >= Least

\* The first call "Next" makes at that step, when it has something to submit.
Part == CASE page.step = 1 -> IF page.mode = "create" THEN "tournament" ELSE "infos"
          [] page.step = 2 -> IF page.mode = "create" THEN "createTeam" ELSE None
          [] page.step = 3 -> IF page.summary THEN None ELSE "preset"
          [] page.step = 5 -> IF page.mode = "edit" /\ page.status = "PUBLISHED" THEN "unpublish"
                              ELSE "listed"
          [] OTHER -> None

Advance ==
    /\ page.step \in 1..4 /\ CanAdvance /\ ~page.submitting /\ ~page.initializing
    /\ Part = None
    /\ Type([page EXCEPT !.step = @ + 1])

\* Without a tournament or a category its parts are not submitted: an error is shown.
NextStep(c) ==
    /\ page.step \in 1..5 /\ CanAdvance /\ Part # None
    /\ page.step > 1 => page.tournament # None
    /\ page.step \in {2, 3} => page.category # None
    /\ Submit(c, "next")
    /\ \/ Part = "createTeam" /\ Send(c, Call(Part) @@
              [from |-> 2, team |-> Head(page.teams), rest |-> Tail(page.teams)])
       \/ Part = "preset" /\ Send(c, Call(Part) @@
              [from |-> 3, count |-> Len(page.teams), pools |-> page.format = "pools"])
       \/ Part \in {"tournament", "infos", "listed", "unpublish"} /\ Send(c, Call(Part) @@ [from |-> page.step])

\* The step the click was made at decides the one shown next.
Advanced(c, p) == page' = [p EXCEPT !.step = wire[c].from + 1, !.submitting = FALSE] /\ Hang(c)

\* submitInfos, submitInfosEdit: a theme, when one is picked by then, goes by a
\* call of its own, and so does a logo; neither holds the step up when refused.
Infos(c, op, t) == Send(c, [op |-> op, tournament |-> t, from |-> 1])

GotTournament(c) ==
    /\ Back(c, "tournament")
    /\ page' = [page EXCEPT !.tournament = wire[c].data]
    /\ \E op \in {"theme", "category"} : Infos(c, op, wire[c].data)

GotInfos(c) == Back(c, "infos") /\ Infos(c, "theme", Mine(c)) /\ UNCHANGED page

Settled(c, op) == Back(c, op) \/ (Refused(c) /\ wire[c].op = op)
LogoOrNext(c, p) == Advanced(c, p) \/ (page' = p /\ Infos(c, "logo", Mine(c)))

GotTheme(c) ==
    /\ Settled(c, "theme")
    /\ \/ page.mode = "create" /\ Infos(c, "category", Mine(c)) /\ UNCHANGED page
       \/ page.mode = "edit" /\ LogoOrNext(c, page)

GotCategory(c) == Back(c, "category") /\ LogoOrNext(c, [page EXCEPT !.category = Mine(c)])

GotLogo(c) == Settled(c, "logo") /\ Advanced(c, page)

\* submitTeams: one after the other, in the order listed.
GotCreatedTeam(c) ==
    /\ page.mode = "create" /\ Back(c, "createTeam")
    /\ \/ wire[c].rest = <<>> /\ Advanced(c, page)
       \/ /\ wire[c].rest # <<>> /\ UNCHANGED page
          /\ Send(c, [op |-> "createTeam", tournament |-> Mine(c), from |-> 2,
                      team |-> Head(wire[c].rest), rest |-> Tail(wire[c].rest)])

GotStructure(c) == Back(c, "preset") /\ Advanced(c, [page EXCEPT !.groupPhase = Mine(c)])

GotListed(c) == Back(c, "listed") /\ Send(c, Call("publish") @@ [from |-> 5]) /\ UNCHANGED page

\* What an order leads to: the browser, a message on a device without a product
\* to buy, or the store.
GotPublication(c) ==
    /\ Back(c, "publish")
    /\ \/ Advanced(c, page)
       \/ /\ wire[c].data = "PENDING_PAYMENT" /\ UNCHANGED page
          /\ Send(c, Call("purchase") @@ [from |-> 5, bought |-> "publication"])

GotUnpublication(c) ==
    /\ Back(c, "unpublish")
    /\ page' = [page EXCEPT !.status = wire[c].data, !.submitting = FALSE]
    /\ Hang(c)

\* subscribeIos goes to the store without an order.
SubscribeIos(c) ==
    /\ page.step = 5 /\ ~page.subscribed
    /\ Submit(c, "subscribe") /\ Send(c, Call("purchase") @@ [from |-> 5, bought |-> "plan"])

GotPurchase(c) ==
    /\ Back(c, "purchase")
    /\ Send(c, [op |-> "confirm", tournament |-> Mine(c), from |-> 5, bought |-> wire[c].bought])
    /\ UNCHANGED page

GotConfirmation(c) ==
    /\ Back(c, "confirm")
    /\ \/ wire[c].bought = "publication" /\ Advanced(c, page)
       \/ /\ wire[c].bought = "plan" /\ Hang(c)
          /\ page' = [page EXCEPT !.subscribed = TRUE, !.submitting = FALSE]

\* Step 4's own button: a venue and its field, then the matches.
Schedulable == IF page.mode = "edit" THEN page.groupPhase # None ELSE page.format # "knockout"

GenerateSchedule(c) ==
    /\ Click(c, "generate")
    /\ Shown(4) /\ page.matches = None /\ Schedulable
    /\ page.groupPhase # None /\ ~page.generating
    /\ page' = [page EXCEPT !.generating = TRUE]
    /\ Send(c, [op |-> "venue", tournament |-> page.tournament])
    /\ UNCHANGED server

GotVenue(c) ==
    /\ UNCHANGED page
    /\ \/ Back(c, "venue") /\ Send(c, [op |-> "field", tournament |-> Mine(c)])
       \/ Back(c, "field") /\ Send(c, [op |-> "schedule", tournament |-> Mine(c)])

GotMatches(c) ==
    /\ Back(c, "schedule")
    /\ page' = [page EXCEPT !.matches = Mine(c), !.generating = FALSE]
    /\ Hang(c)

\* A call that fails ends its handler where it is, and frees the button.
GotRefusal(c) ==
    /\ Refused(c) /\ wire[c].op \notin {"load", "theme", "logo"} /\ Hang(c)
    /\ page' = IF wire[c].op \in {"venue", "field", "schedule"}
               THEN [page EXCEPT !.generating = FALSE] ELSE [page EXCEPT !.submitting = FALSE]

Next ==
    \/ SelectFormat \/ ListTeam \/ UnlistTeam \/ GoToStep \/ PrevStep \/ Advance
    \/ \E c \in Connections :
        \/ Api(c) \/ Loaded(c) \/ NotLoaded(c) \/ AddTeam(c) \/ DropTeam(c) \/ GotTeam(c)
        \/ NextStep(c) \/ GotTournament(c) \/ GotInfos(c) \/ GotTheme(c) \/ GotCategory(c)
        \/ GotLogo(c) \/ GotCreatedTeam(c) \/ GotStructure(c) \/ GotListed(c)
        \/ GotPublication(c) \/ GotUnpublication(c) \/ SubscribeIos(c) \/ GotPurchase(c)
        \/ GotConfirmation(c) \/ GenerateSchedule(c) \/ GotVenue(c) \/ GotMatches(c) \/ GotRefusal(c)

Spec == Init /\ [][Next]_vars

\* Whoever gets past the structure while creating a tournament has one built
\* from the teams listed, no more and no fewer: whatever steps were taken
\* back, teams listed or struck in between, calls refused, lost, or still in
\* flight when a step was left.
StructureIsOfListed ==
    page.mode = "create" /\ page.step \in 4..Finished =>
        LET t == server.of[page.tournament]
        IN  t.teams = Range(page.teams) /\ t.structure # None /\ t.structure.of = t.teams

\* The teams an edited tournament shows are the ones it has, between calls and
\* as long as no answer is lost.
EditedTeamsAreStored ==
    page.mode = "edit" /\ AtRest /\ server.lost = 0 => Range(page.teams) = server.of[1].teams
================================================================================
