----------------------------- MODULE StandingsPage -----------------------------
(***************************************************************************)
(* The page where an organizer reads standings and settles ties by hand    *)
(* (web StandingsPage, and its port to the app).  A pool's tie is settled  *)
(* by picks, one team after another; a rule across pools (the best third)  *)
(* has ties and picks of its own, among teams the pools' order supplies.   *)
(***************************************************************************)
EXTENDS PageCalls, SequencesExt

CONSTANTS
    Phase,    \* each phase by name: its category, its kind, its pools
    Tied,     \* the teams level in each pool
    First     \* the category listed first

Category(p) == Phase[p].category
PhasesOf(category) == {p \in DOMAIN Phase : Category(p) = category}
PoolPhases(phases) == {p \in phases : Phase[p].kind = "pool"}
Pools == UNION {Phase[p].pools : p \in DOMAIN Phase}

\* The views offered (phaseOptions): each phase, then the final ranking.
Views(phases) == phases \cup IF phases = PoolPhases(phases) THEN {} ELSE {"final"}

\* What the API answers for a pool: its tied teams, those picked first, the
\* rest still to settle when they are more than one (unresolvedTies).
Standings(s, g) ==
    LET open == Tied[g] \ ToSet(s.picks[g])
    IN  [order |-> s.picks[g], tie |-> IF Cardinality(open) < 2 THEN {} ELSE open]

\* The ties across a phase's pools: each pool supplies its leader, the first
\* one picked or else the first in the alphabet.
CrossTie(s, p) ==
    LET Leader(g) == IF s.picks[g] = <<>> THEN CHOOSE t \in Tied[g] : TRUE ELSE s.picks[g][1]
        open == {Leader(g) : g \in Phase[p].pools} \ ToSet(s.picks[p])
    IN  [order |-> s.picks[p], tie |-> IF Cardinality(open) < 2 THEN {} ELSE open]

Nothing == [p \in {} |-> None]

Init ==
    /\ page = [category |-> None, phases |-> {}, view |-> None,
               standings |-> Nothing, ties |-> None]
    /\ server = [picks |-> [x \in Pools \cup PoolPhases(DOMAIN Phase) |-> <<>>]]
    /\ NoCalls

(***************************************************************************)
(* What the API does with a call                                           *)
(***************************************************************************)
ServeRead(c) ==
    /\ UNCHANGED server
    /\ \/ Serve(c, "phases") /\ Answer(c, PhasesOf(wire[c].category))
       \/ Serve(c, "standings")
          /\ Answer(c, [p \in wire[c].phases |->
                           [g \in Phase[p].pools |-> Standings(server, g)]])
       \/ Serve(c, "ties") /\ Answer(c, CrossTie(server, wire[c].phase))
       \/ Serve(c, "reload")
          /\ Answer(c, [standings |-> [g \in Phase[wire[c].phase].pools |-> Standings(server, g)],
                        ties |-> CrossTie(server, wire[c].phase)])

\* A team already picked is not picked twice (setManualTieBreakChoice).
ServePick(c) ==
    /\ Serve(c, "pick") /\ Answer(c, "done")
    /\ server' = [server EXCEPT !.picks[wire[c].of] =
                     IF wire[c].team \in ToSet(@) THEN @ ELSE Append(@, wire[c].team)]

ServeClear(c) ==
    /\ Serve(c, "clear") /\ Answer(c, "done")
    /\ server' = [server EXCEPT !.picks[wire[c].of] = <<>>]

(***************************************************************************)
(* The page                                                                *)
(***************************************************************************)
LoadPhases(c, category) ==
    /\ page' = [page EXCEPT !.category = category, !.view = None,
                            !.standings = Nothing, !.ties = None]
    /\ Send(c, [op |-> "phases", category |-> category])
    /\ UNCHANGED server

OpenPage(c) ==
    /\ Click(c, "open") /\ page.category = None
    /\ LoadPhases(c, First)

ChangeCategory(c) == \E category \in {Category(p) : p \in DOMAIN Phase} :
    /\ Click(c, "category") /\ page.category # None
    /\ LoadPhases(c, category)

GotPhases(c) ==
    /\ Back(c, "phases")
    /\ page' = [page EXCEPT !.phases = wire[c].data]
    /\ Send(c, [op |-> "standings", phases |-> PoolPhases(wire[c].data)])

\* The first view: a pool phase, whose ties are then loaded, or else any other.
GotStandings(c) ==
    /\ Back(c, "standings")
    /\ LET pools == DOMAIN wire[c].data
       IN  \E view \in IF pools # {} THEN pools ELSE page.phases :
               /\ page' = [page EXCEPT !.standings = wire[c].data, !.view = view]
               /\ IF pools # {} THEN Send(c, [op |-> "ties", phase |-> view]) ELSE Hang(c)

ChangeView(c) == \E view \in Views(page.phases) :
    /\ Click(c, "view") /\ view # page.view
    /\ IF view \in PoolPhases(page.phases)
       THEN /\ page' = [page EXCEPT !.view = view]
            /\ Send(c, [op |-> "ties", phase |-> view])
       ELSE /\ page' = [page EXCEPT !.view = view, !.ties = None]
            /\ UNCHANGED wire
    /\ UNCHANGED server

GotTies(c) ==
    /\ Back(c, "ties") /\ Hang(c)
    /\ page' = [page EXCEPT !.ties = wire[c].data]

\* What the view selected shows: its pools, and the ties across them.
Shown == IF page.view \in DOMAIN page.standings THEN page.standings[page.view] ELSE Nothing

\* What can be settled from there: ties in a pool, and across the pools.
Tie == [x \in DOMAIN Shown \cup {page.view} |->
            IF x \in DOMAIN Shown THEN Shown[x].tie
            ELSE IF Shown = Nothing \/ page.ties = None THEN {} ELSE page.ties.tie]

PickTeam(c) == \E x \in DOMAIN Tie : \E t \in Tie[x] :
    /\ Click(c, "pick")
    /\ Send(c, [op |-> "pick", of |-> x, team |-> t]) /\ UNCHANGED <<page, server>>

\* Offered only while something is left to settle.
ClearPicks(c) == \E x \in DOMAIN Tie :
    /\ Click(c, "clear") /\ Tie[x] # {}
    /\ Send(c, [op |-> "clear", of |-> x]) /\ UNCHANGED <<page, server>>

\* loadStandings: the phase selected by now, its pools and ties in one go.
GotPick(c) ==
    /\ Back(c, "pick") \/ Back(c, "clear")
    /\ UNCHANGED page
    /\ IF page.view \in PoolPhases(page.phases)
       THEN Send(c, [op |-> "reload", phase |-> page.view]) ELSE Hang(c)

\* Mutant: the ties across the pools are not loaded again.
GotReloadOfPools(c) ==
    /\ Back(c, "reload") /\ Hang(c)
    /\ page' = [page EXCEPT !.standings = (wire[c].phase :> wire[c].data.standings) @@ @]

GotReload(c) ==
    /\ Back(c, "reload") /\ Hang(c)
    /\ page' = [page EXCEPT !.standings = (wire[c].phase :> wire[c].data.standings) @@ @,
                            !.ties = wire[c].data.ties]

Next == \E c \in Connections :
    \/ ServeRead(c) \/ ServePick(c) \/ ServeClear(c)
    \/ OpenPage(c) \/ ChangeCategory(c) \/ GotPhases(c) \/ GotStandings(c)
    \/ ChangeView(c) \/ GotTies(c)
    \/ PickTeam(c) \/ ClearPicks(c) \/ GotPick(c) \/ GotReload(c)

Spec == Init /\ [][Next]_vars

\* With one call at a time, the page at rest shows every pool of its category
\* as the API orders it, and the ties across the pools of the selected phase:
\* a pick in a pool changes which teams are level across pools.
RestingPageIsTrue ==
    AtRest /\ page.category # None =>
        /\ page.phases = PhasesOf(page.category)
        /\ page.standings = [p \in PoolPhases(page.phases) |->
               [g \in Phase[p].pools |-> Standings(server, g)]]
        /\ page.ties = IF page.view \in PoolPhases(page.phases)
                       THEN CrossTie(server, page.view) ELSE None
================================================================================
