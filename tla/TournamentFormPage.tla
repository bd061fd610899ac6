--------------------------- MODULE TournamentFormPage ---------------------------
(***************************************************************************)
(* The page of one tournament in the web console (TournamentFormPage): its *)
(* form, its texts and images, its life cycle, and the lists of its        *)
(* categories with their divisions, its venues with their fields and its   *)
(* sponsors, and the plan it has paid for.  Each answer replaces what it   *)
(* answers for; a duplicate, or the browser's history, moves the same      *)
(* page, signals and all, to another tournament.  The organization has no  *)
(* annual subscription, which would unlock everything.                     *)
(***************************************************************************)
EXTENDS PageCalls

CONSTANTS
    Tournaments,  \* identifiers; those not yet given are free
    Given,        \* what may be stored to begin with
    Crowded,      \* the tournaments with more teams than the free tier has
    Values,       \* what the form may hold, records [name, themed]
    Texts,        \* what a content section may hold
    Names,        \* of categories, divisions, venues, fields and sponsors
    MaxFailures   \* bound: reads that fail in one behaviour

FREE == 0
STANDARD == 1
LARGE == 2

\* What a load has yet to bring.
Sections == {"form", "premium", "orders"}

\* A row as created, with the form it was created from.
Fresh(value) ==
    [status |-> "DRAFT", form |-> value, text |-> None, image |-> FALSE, paid |-> FREE,
     categories |-> <<>>, planned |-> {}, venues |-> <<>>, sponsors |-> <<>>]

\* What the page shows of a tournament apart from its lists (toDetail).
Detail(t, row) == [id |-> t, status |-> row.status, form |-> row.form,
                   text |-> row.text, image |-> row.image]

Without(f, x) == Restrict(f, DOMAIN f \ {x})

\* The signals of the page; missed and wiped are history.  Premium features are taken as
\* unlocked until the API has answered.
Blank == [id |-> None, loading |-> FALSE, missed |-> Sections, sports |-> FALSE,
          tournament |-> None, form |-> [of |-> None, value |-> [name |-> None, themed |-> FALSE]],
          categories |-> <<>>, wiped |-> {}, venues |-> <<>>, sponsors |-> <<>>,
          premium |-> TRUE, plan |-> FALSE, tier |-> FREE, choice |-> FREE]

Init ==
    /\ page = Blank
    /\ \E stored \in Given : server = [of |-> stored, lost |-> 0]
    /\ NoCalls

(***************************************************************************)
(* What the API does with a call                                           *)
(***************************************************************************)
Row(c) == server.of[wire[c].id]

Reads == {"sports", "get", "sponsors", "categories", "venues"}

\* hasPremiumFeatures: enough teams, or a tier paid for.
Unlocked(t) == t \in Crowded \/ server.of[t].paid > FREE

ServeRead(c) ==
    /\ UNCHANGED server
    /\ \/ Serve(c, "sports") /\ Answer(c, "sports")
       \/ Serve(c, "get") /\ Answer(c, Detail(wire[c].id, Row(c)))
       \/ \E list \in {"sponsors", "categories", "venues"} :
             Serve(c, list) /\ Answer(c, Row(c)[list])
       \/ Serve(c, "premium") /\ Answer(c, Unlocked(wire[c].id))
       \/ Serve(c, "orders") /\ Answer(c, Row(c).paid)

\* The network is down, or the session is over.
FailRead(c) == \E op \in Reads \cup {"premium", "orders"} :
    /\ Serve(c, op) /\ server.lost < MaxFailures
    /\ server' = [server EXCEPT !.lost = @ + 1]
    /\ wire' = [wire EXCEPT ![c].at = "refused"]

\* A write to an editable tournament (assertTournamentIsEditable), or a refusal.
Write(c, allowed, row, data) ==
    IF Row(c).status # "ARCHIVED" /\ allowed
    THEN server' = [server EXCEPT !.of[wire[c].id] = row] /\ Answer(c, data)
    ELSE Refuse(c)

\* Every form saved carries its theme; any but the default one is premium.
ServeUpdate(c) ==
    /\ Serve(c, "update")
    /\ LET row == [Row(c) EXCEPT !.form = wire[c].value]
       IN  Write(c, wire[c].value.themed => Unlocked(wire[c].id), row, Detail(wire[c].id, row))

ServeText(c) ==
    /\ Serve(c, "text")
    /\ LET row == [Row(c) EXCEPT !.text = wire[c].value]
       IN  Write(c, TRUE, row, Detail(wire[c].id, row))

ServeImage(c) ==
    /\ Serve(c, "image")
    /\ LET row == [Row(c) EXCEPT !.image = wire[c].there]
       IN  Write(c, wire[c].there => Unlocked(wire[c].id), row, Detail(wire[c].id, row))

ServeCreate(c) ==
    /\ Serve(c, "create")
    /\ \E t \in Tournaments \ DOMAIN server.of :
          /\ server' = [server EXCEPT !.of = (t :> Fresh(wire[c].value)) @@ @]
          /\ Answer(c, t)

\* Categories and divisions are copied, without fees; nothing else of the lists.
ServeDuplicate(c) ==
    /\ Serve(c, "duplicate")
    /\ \E t \in Tournaments \ DOMAIN server.of :
          /\ server' = [server EXCEPT !.of =
                 (t :> [Fresh(Row(c).form) EXCEPT
                           !.categories = [k \in DOMAIN Row(c).categories |->
                                   [Row(c).categories[k] EXCEPT !.fee = None]]]) @@ @]
          /\ Answer(c, t)

ServeLifeCycle(c) == \E to \in {"UNPUBLISHED", "ARCHIVED", "DRAFT"} :
    /\ Serve(c, to)
    /\ LET from == Row(c).status
           row == [Row(c) EXCEPT !.status = to]
       IN  IF CASE to = "UNPUBLISHED" -> from = "PUBLISHED"
                [] to = "ARCHIVED" -> from # "ARCHIVED"
                [] to = "DRAFT" -> from = "ARCHIVED"
           THEN server' = [server EXCEPT !.of[wire[c].id] = row]
                /\ Answer(c, Detail(wire[c].id, row))
           ELSE Refuse(c)

\* What the teams require is at most the standard tier; something left to pay for sends
\* the browser to the checkout (see Publication).
ServePublish(c) ==
    /\ Serve(c, "publish")
    /\ LET row == [Row(c) EXCEPT !.status = "PUBLISHED"]
       IN  IF wire[c].id \in Crowded /\ Row(c).paid = FREE
           THEN Write(c, Row(c).planned # {}, Row(c), [checkout |-> STANDARD])
           ELSE Write(c, Row(c).planned # {}, row, Detail(wire[c].id, row))

\* payForTournamentTier: a calendar is not asked for.
ServeTier(c) ==
    /\ Serve(c, "payTier")
    /\ Write(c, TRUE, Row(c),
             [checkout |-> IF wire[c].tier > Row(c).paid THEN wire[c].tier ELSE FREE])

\* The lists: a name is taken once, a row to change must still be there, and
\* what it holds goes with it.
ServeCategory(c) ==
    LET old == Row(c).categories
        k == wire[c].of
        Set(row) == [Row(c) EXCEPT !.categories = (k :> row) @@ old]
    IN  \/ /\ Serve(c, "addCategory")
           /\ LET new == [fee |-> wire[c].fee, divisions |-> {}]
              IN  Write(c, k \notin DOMAIN old, Set(new), new)
        \/ /\ Serve(c, "saveFee")
           /\ Write(c, k \in DOMAIN old, Set([old[k] EXCEPT !.fee = wire[c].fee]),
                    [fee |-> wire[c].fee, divisions |-> {}])
        \/ /\ Serve(c, "removeCategory")
           /\ Write(c, k \in DOMAIN old, [Row(c) EXCEPT !.categories = Without(@, k),
                                                        !.planned = @ \ {k}], "done")

ServeAddDivision(c) ==
    LET old == Row(c).categories
        k == wire[c].of
        row == [Row(c) EXCEPT !.categories[k].divisions = @ \cup {wire[c].name}]
    IN  /\ Serve(c, "addDivision")
        /\ Write(c, k \in DOMAIN old /\ wire[c].name \notin old[k].divisions, row, "done")

ServeRemoveDivision(c) ==
    LET old == Row(c).categories
        k == wire[c].of
        row == [Row(c) EXCEPT !.categories[k].divisions = @ \ {wire[c].name}]
    IN  /\ Serve(c, "removeDivision")
        /\ Write(c, k \in DOMAIN old /\ wire[c].name \in old[k].divisions, row, "done")

ServeVenue(c) ==
    LET old == Row(c).venues
        v == wire[c].of
        Set(fields) == [Row(c) EXCEPT !.venues = (v :> fields) @@ old]
    IN  \/ Serve(c, "addVenue") /\ Write(c, v \notin DOMAIN old, Set({}), "done")
        \/ Serve(c, "removeVenue")
           /\ Write(c, v \in DOMAIN old, [Row(c) EXCEPT !.venues = Without(@, v)], "done")

ServeField(c) ==
    LET old == Row(c).venues
        v == wire[c].of
        Set(fields) == [Row(c) EXCEPT !.venues = (v :> fields) @@ old]
    IN  \/ Serve(c, "addField")
           /\ Write(c, v \in DOMAIN old /\ wire[c].name \notin old[v],
                    Set(old[v] \cup {wire[c].name}), "done")
        \/ Serve(c, "removeField")
           /\ Write(c, v \in DOMAIN old /\ wire[c].name \in old[v],
                    Set(old[v] \ {wire[c].name}), "done")

ServeSponsor(c) ==
    LET old == Row(c).sponsors
        Set(logo) == [Row(c) EXCEPT !.sponsors = (wire[c].of :> logo) @@ old]
    IN  \/ Serve(c, "addSponsor") /\ Write(c, TRUE, Set(FALSE), "done")
        \/ Serve(c, "sponsorLogo")
           /\ Write(c, wire[c].of \in DOMAIN old, Set(wire[c].there), "done")
        \/ Serve(c, "removeSponsor")
           /\ Write(c, wire[c].of \in DOMAIN old,
                    [Row(c) EXCEPT !.sponsors = Without(@, wire[c].of)], "done")

(***************************************************************************)
(* The page                                                                *)
(***************************************************************************)
\* load: the form is hidden; the sports come first, in either mode.
Load(c, base, t) ==
    /\ page' = [base EXCEPT !.id = t, !.loading = TRUE, !.tier = FREE, !.missed = Sections]
    /\ Send(c, [op |-> "sports", id |-> t])

\* Another route is another component.
OpenPage(c) == \E t \in {"new"} \cup DOMAIN server.of :
    /\ Click(c, "open") /\ AtRest
    /\ Load(c, Blank, t) /\ UNCHANGED server

\* Back and forward in the browser's history: the same component at another tournament.
Travel(c) == \E t \in DOMAIN server.of \ {page.id} :
    /\ Click(c, "travel") /\ page.id \in Tournaments
    /\ Load(c, page, t) /\ UNCHANGED server

\* The plan of a tournament that is not yet there shows nothing to act on.
GotSports(c) ==
    /\ Back(c, "sports")
    /\ IF page.id = "new"
       THEN page' = [page EXCEPT !.sports = TRUE, !.loading = FALSE] /\ Hang(c)
       ELSE page' = [page EXCEPT !.sports = TRUE] /\ Send(c, [op |-> "get", id |-> page.id])

GotTournament(c) ==
    /\ Back(c, "get")
    /\ page' = [page EXCEPT !.tournament = wire[c].data,
                            !.form = [of |-> wire[c].id, value |-> wire[c].data.form]]
    /\ Send(c, [op |-> "sponsors", id |-> wire[c].id])

GotSponsors(c) ==
    /\ Back(c, "sponsors")
    /\ page' = [page EXCEPT !.sponsors = wire[c].data]
    /\ Send(c, [op |-> "categories", id |-> wire[c].id])

GotCategories(c) ==
    /\ Back(c, "categories")
    /\ page' = [page EXCEPT !.categories = wire[c].data, !.wiped = {}]
    /\ Send(c, [op |-> "venues", id |-> wire[c].id])

GotVenues(c) ==
    /\ Back(c, "venues")
    /\ page' = [page EXCEPT !.venues = wire[c].data, !.loading = FALSE, !.missed = @ \ {"form"}]
    /\ Send(c, [op |-> "premium", id |-> wire[c].id])

\* What fails here is not told; the orders are asked for whatever comes of it.
GotPremium(c) ==
    /\ \/ /\ Back(c, "premium")
          /\ page' = [page EXCEPT !.premium = wire[c].data, !.plan = TRUE,
                                  !.missed = @ \ {"premium"}]
       \/ Refused(c) /\ wire[c].op = "premium" /\ UNCHANGED page
    /\ Send(c, [op |-> "orders", id |-> wire[c].id])

GotOrders(c) ==
    /\ Back(c, "orders") /\ Hang(c)
    /\ page' = [page EXCEPT !.tier = wire[c].data, !.missed = @ \ {"orders"}]

\* A button of the page of a tournament, which no dialog covers; one of its header, which
\* is there when the tournament has been loaded.
Press(c, op) ==
    /\ Click(c, op) /\ UNCHANGED server
    /\ ~page.loading /\ page.choice = FREE /\ page.id \in Tournaments

PressLoaded(c, op) == Press(c, op) /\ page.tournament # None

\* A theme can be picked from the panel of a tournament loaded, any but the default one
\* only where premium features are unlocked; one picked before stays.
Typable(value) ==
    value.themed => \/ page.form.value.themed
                    \/ page.id # "new" /\ page.tournament # None /\ page.premium

Submit(c) == \E value \in Values :
    /\ Click(c, "submit") /\ page.id # None /\ ~page.loading /\ page.choice = FREE
    /\ page.sports /\ Typable(value)
    /\ \A other \in Connections : wire[other].op \notin {"update", "create"}
    /\ page.tournament # None => page.tournament.status # "ARCHIVED"
    /\ page' = [page EXCEPT !.form.value = value]
    /\ IF page.id = "new"
       THEN DOMAIN server.of # Tournaments /\ Send(c, [op |-> "create", value |-> value])
       ELSE Send(c, [op |-> "update", id |-> page.id, value |-> value])
    /\ UNCHANGED server

SaveText(c) == \E text \in Texts :
    /\ Press(c, "text") /\ UNCHANGED page
    /\ Send(c, [op |-> "text", id |-> page.id, value |-> text])

SetImage(c) == \E there \in BOOLEAN :
    /\ PressLoaded(c, "image") /\ UNCHANGED page
    /\ IF there THEN page.premium ELSE page.tournament.image
    /\ Send(c, [op |-> "image", id |-> page.id, there |-> there])

LifeCycle(c) == \E to \in {"publish", "UNPUBLISHED", "ARCHIVED", "DRAFT"} :
    /\ PressLoaded(c, "lifecycle") /\ UNCHANGED page
    /\ LET status == page.tournament.status
       IN  CASE to = "publish" -> status \in {"DRAFT", "UNPUBLISHED"}
             [] to = "UNPUBLISHED" -> status = "PUBLISHED"
             [] to = "ARCHIVED" -> status # "ARCHIVED"
             [] to = "DRAFT" -> status = "ARCHIVED"
    /\ Send(c, [op |-> to, id |-> page.id])

Duplicate(c) ==
    /\ PressLoaded(c, "duplicate") /\ UNCHANGED page
    /\ DOMAIN server.of # Tournaments
    /\ Send(c, [op |-> "duplicate", id |-> page.id])

\* The cards of the plan: a tier above the one paid for, then a dialog that asks.
SelectTier(c) == \E tier \in {STANDARD, LARGE} :
    /\ Press(c, "tier") /\ page.plan /\ tier > page.tier
    /\ page' = [page EXCEPT !.choice = tier] /\ UNCHANGED wire

CancelTier(c) ==
    /\ Click(c, "cancel") /\ page.choice # FREE
    /\ \A other \in Connections : wire[other].op # "payTier"
    /\ page' = [page EXCEPT !.choice = FREE] /\ UNCHANGED <<server, wire>>

ConfirmTier(c) ==
    /\ Click(c, "confirm") /\ page.choice # FREE /\ page.id \in Tournaments
    /\ \A other \in Connections : wire[other].op # "payTier"
    /\ Send(c, [op |-> "payTier", id |-> page.id, tier |-> page.choice])
    /\ UNCHANGED <<page, server>>

AddToList(c) == \E list \in {"addCategory", "addVenue", "addSponsor"}, n \in Names :
    /\ Press(c, list) /\ UNCHANGED page
    /\ list = "addSponsor" => n \notin DOMAIN page.sponsors   \* bound: one row of a name
    /\ Send(c, [op |-> list, id |-> page.id, of |-> n, fee |-> "fee"])

ChangeCategory(c) == \E k \in DOMAIN page.categories :
    /\ UNCHANGED page
    /\ \/ Press(c, "removeCategory") /\ Send(c, [op |-> "removeCategory", id |-> page.id, of |-> k])
       \/ \E fee \in {"fee", None} :
             /\ Press(c, "saveFee")
             /\ Send(c, [op |-> "saveFee", id |-> page.id, of |-> k, fee |-> fee])
       \/ \E n \in Names :
             /\ Press(c, "addDivision")
             /\ Send(c, [op |-> "addDivision", id |-> page.id, of |-> k, name |-> n])
       \/ \E n \in page.categories[k].divisions :
             /\ Press(c, "removeDivision")
             /\ Send(c, [op |-> "removeDivision", id |-> page.id, of |-> k, name |-> n])

ChangeVenue(c) == \E v \in DOMAIN page.venues :
    /\ UNCHANGED page
    /\ \/ Press(c, "removeVenue") /\ Send(c, [op |-> "removeVenue", id |-> page.id, of |-> v])
       \/ \E n \in Names :
             /\ Press(c, "addField")
             /\ Send(c, [op |-> "addField", id |-> page.id, of |-> v, name |-> n])
       \/ \E n \in page.venues[v] :
             /\ Press(c, "removeField")
             /\ Send(c, [op |-> "removeField", id |-> page.id, of |-> v, name |-> n])

ChangeSponsor(c) == \E s \in DOMAIN page.sponsors :
    /\ UNCHANGED page
    /\ \/ Press(c, "removeSponsor") /\ Send(c, [op |-> "removeSponsor", id |-> page.id, of |-> s])
       \/ \E there \in BOOLEAN :
             /\ Press(c, "sponsorLogo") /\ (there \/ page.sponsors[s])
             /\ Send(c, [op |-> "sponsorLogo", id |-> page.id, of |-> s, there |-> there])

\* The answer sends to the checkout, for a tier or for nothing.
Checkout(data) == DOMAIN data = {"checkout"}

\* The answer is the tournament, its lists apart.
GotDetail(c) ==
    /\ \E op \in {"update", "text", "image", "UNPUBLISHED", "ARCHIVED", "DRAFT"} : Back(c, op)
    /\ Hang(c)
    /\ page' = [page EXCEPT !.tournament = wire[c].data]

\* Published: the orders are read again.
GotPublished(c) ==
    /\ Back(c, "publish") /\ ~Checkout(wire[c].data)
    /\ page' = [page EXCEPT !.tournament = wire[c].data]
    /\ Send(c, [op |-> "orders", id |-> page.id])

\* Nothing was left to pay: what is unlocked and paid for is read again.
GotCovered(c) ==
    /\ Back(c, "payTier") /\ wire[c].data.checkout = FREE
    /\ page' = [page EXCEPT !.choice = FREE]
    /\ Send(c, [op |-> "premium", id |-> page.id])

\* The browser goes to the checkout.  Whoever pays there is published at that tier.
GotCheckout(c) == \E pays \in BOOLEAN :
    /\ wire[c].at = "back" /\ wire[c].op \in {"publish", "payTier"}
    /\ Checkout(wire[c].data) /\ wire[c].data.checkout > FREE
    /\ server' = IF ~pays THEN server
                 ELSE [server EXCEPT !.of[wire[c].id].paid = wire[c].data.checkout,
                                     !.of[wire[c].id].status = "PUBLISHED"]
    /\ Hang(c) /\ page' = Blank /\ UNCHANGED left

\* Mutant: the page keeps what it loaded of the tournament duplicated.
GotNewUnloaded(c) ==
    \/ Back(c, "create") /\ Load(c, Blank, wire[c].data)
    \/ Back(c, "duplicate") /\ page' = [page EXCEPT !.id = wire[c].data] /\ Hang(c)

\* Created: another route.  Duplicated: the same component, at another tournament.
GotNew(c) ==
    \/ Back(c, "create") /\ Load(c, Blank, wire[c].data)
    \/ Back(c, "duplicate") /\ Load(c, page, wire[c].data)

\* A fee saved comes back with no divisions, whatever the category holds.
GotCategory(c) ==
    LET k == wire[c].of
    IN  /\ Hang(c)
        /\ \/ Back(c, "addCategory")
              /\ page' = [page EXCEPT !.categories = (k :> wire[c].data) @@ @]
           \/ /\ Back(c, "saveFee") /\ k \in DOMAIN page.categories
              /\ page' = [page EXCEPT !.categories[k] = wire[c].data, !.wiped = @ \cup {k}]
           \/ Back(c, "removeCategory")
              /\ page' = [page EXCEPT !.categories = Without(@, k), !.wiped = @ \ {k}]

GotDivision(c) ==
    LET k == wire[c].of
    IN  /\ Hang(c)
        /\ \/ Back(c, "addDivision") /\ k \in DOMAIN page.categories
              /\ page' = [page EXCEPT !.categories[k].divisions = @ \cup {wire[c].name}]
           \/ Back(c, "removeDivision") /\ k \in DOMAIN page.categories
              /\ page' = [page EXCEPT !.categories[k].divisions = @ \ {wire[c].name}]

GotVenue(c) ==
    LET v == wire[c].of
    IN  /\ Hang(c)
        /\ \/ Back(c, "addVenue") /\ page' = [page EXCEPT !.venues = (v :> {}) @@ @]
           \/ Back(c, "removeVenue") /\ page' = [page EXCEPT !.venues = Without(@, v)]

GotField(c) ==
    LET v == wire[c].of
    IN  /\ Hang(c)
        /\ \/ Back(c, "addField") /\ v \in DOMAIN page.venues
              /\ page' = [page EXCEPT !.venues[v] = @ \cup {wire[c].name}]
           \/ Back(c, "removeField") /\ v \in DOMAIN page.venues
              /\ page' = [page EXCEPT !.venues[v] = @ \ {wire[c].name}]

GotSponsor(c) ==
    LET s == wire[c].of
    IN  /\ Hang(c)
        /\ \/ Back(c, "addSponsor") /\ page' = [page EXCEPT !.sponsors = (s :> FALSE) @@ @]
           \/ Back(c, "sponsorLogo") /\ s \in DOMAIN page.sponsors
              /\ page' = [page EXCEPT !.sponsors[s] = wire[c].there]
           \/ Back(c, "removeSponsor") /\ page' = [page EXCEPT !.sponsors = Without(@, s)]

\* An error message; what was typed stays in its field, the dialog stays open, a load
\* stops where it is and shows the form with what it has by then.
GotRefusal(c) ==
    /\ Refused(c) /\ wire[c].op # "premium" /\ Hang(c)
    /\ page' = IF wire[c].op \in Reads THEN [page EXCEPT !.loading = FALSE] ELSE page

Next == \E c \in Connections :
    \/ ServeRead(c) \/ FailRead(c) \/ ServeUpdate(c) \/ ServeText(c) \/ ServeImage(c)
    \/ ServeCreate(c) \/ ServeDuplicate(c) \/ ServeLifeCycle(c) \/ ServePublish(c) \/ ServeTier(c)
    \/ ServeCategory(c) \/ ServeAddDivision(c) \/ ServeRemoveDivision(c)
    \/ ServeVenue(c) \/ ServeField(c) \/ ServeSponsor(c)
    \/ OpenPage(c) \/ Travel(c) \/ GotSports(c) \/ GotTournament(c) \/ GotSponsors(c)
    \/ GotCategories(c) \/ GotVenues(c) \/ GotPremium(c) \/ GotOrders(c)
    \/ SelectTier(c) \/ CancelTier(c) \/ ConfirmTier(c)
    \/ Submit(c) \/ SaveText(c) \/ SetImage(c) \/ LifeCycle(c) \/ Duplicate(c)
    \/ AddToList(c) \/ ChangeCategory(c) \/ ChangeVenue(c) \/ ChangeSponsor(c)
    \/ GotDetail(c) \/ GotPublished(c) \/ GotCovered(c) \/ GotCheckout(c) \/ GotNew(c)
    \/ GotCategory(c) \/ GotDivision(c) \/ GotVenue(c) \/ GotField(c) \/ GotSponsor(c)
    \/ GotRefusal(c)

Spec == Init /\ [][Next]_vars

\* What the lists show: a category whose fee was saved has lost its divisions
\* from the page, and shows only those added since.
ShownCategories(t) ==
    /\ DOMAIN page.categories = DOMAIN server.of[t].categories
    /\ \A k \in DOMAIN page.categories :
          LET shown == page.categories[k]
              stored == server.of[t].categories[k]
          IN  /\ shown.fee = stored.fee /\ shown.divisions \subseteq stored.divisions
              /\ k \notin page.wiped => shown.divisions = stored.divisions

\* With one call at a time, the page at rest is the tournament of its address
\* as stored, whichever was created, duplicated or changed to get there: its
\* detail, lists and plan, and a form loaded from that tournament and no other.
\* A load that failed leaves what it had not read of the tournament before.
RestingFormIsTrue ==
    AtRest /\ page.id \in Tournaments =>
        /\ ~page.loading
        /\ "form" \notin page.missed =>
              /\ page.tournament = Detail(page.id, server.of[page.id])
              /\ page.form.of = page.id
              /\ ShownCategories(page.id)
              /\ page.venues = server.of[page.id].venues
              /\ page.sponsors = server.of[page.id].sponsors
        /\ "premium" \notin page.missed => page.premium = Unlocked(page.id)
        /\ "orders" \notin page.missed => page.tier = server.of[page.id].paid
================================================================================
