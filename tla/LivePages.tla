------------------------------- MODULE LivePages -------------------------------
(***************************************************************************)
(* The public pages that follow the scores (standings on the web and in    *)
(* the app, calendar): they load a category by a chain of calls, and again *)
(* when the event stream reports a change (RealtimeService,                *)
(* TournamentEventStream, TournamentContextService).  The stream tells     *)
(* that something changed, never what: it is sent once, to the pages then  *)
(* connected.  Answers of two loads in flight come in any order.           *)
(***************************************************************************)
EXTENDS Integers, Sequences, Functions

CONSTANTS
    Categories,
    First,        \* the category listed first
    Steps,        \* the parts of the page, in the order its chain of calls loads them
    EventStep,    \* where in Steps a load begins that an event started
    Whole,        \* the app: parts are shown together, and kept on the phone
    Connections,  \* loads in flight at once
    Calm,         \* changes only come to a page connected and at rest
    MaxChanges, MaxClicks, MaxFailures,   \* bounds
    None

VARIABLES
    page,    \* category selected, parts shown, stream and timer, the phone's cache
    server,  \* how many times each category's results changed
    wire,    \* each load in flight
    left     \* clicks and failures still to come

vars == <<page, server, wire, left>>

Idle == [step |-> 0]

Init ==
    /\ page = [category |-> None, shown |-> [s \in Range(Steps) |-> None],
               connected |-> FALSE, due |-> FALSE,
               cache |-> [c \in Categories |-> None], cached |-> FALSE]
    /\ server = [c \in Categories |-> 0]
    /\ wire = [c \in Connections |-> Idle]
    /\ left = [changes |-> MaxChanges, clicks |-> MaxClicks, failures |-> MaxFailures]

AtRest == wire = [c \in Connections |-> Idle] /\ ~page.due

Load(c, category, step) ==
    /\ wire[c] = Idle
    /\ wire' = [wire EXCEPT ![c] = [step |-> step, category |-> category, sent |-> TRUE,
                                    answer |-> None, got |-> [s \in {} |-> None]]]

(***************************************************************************)
(* The event stream                                                        *)
(***************************************************************************)
Connect ==
    /\ ~page.connected
    /\ page' = [page EXCEPT !.connected = TRUE] /\ UNCHANGED <<server, wire, left>>

\* The browser reconnects by itself, and no event is sent again.
Drop ==
    /\ page.connected /\ left.failures > 0 /\ ~Calm
    /\ left' = [left EXCEPT !.failures = @ - 1]
    /\ page' = [page EXCEPT !.connected = FALSE] /\ UNCHANGED <<server, wire>>

\* Mutant: the event only counts for a page that shows that category.
ScoreChangedHere == \E c \in Categories :
    /\ left.changes > 0
    /\ Calm => AtRest /\ page.connected /\ page.category # None
    /\ left' = [left EXCEPT !.changes = @ - 1]
    /\ server' = [server EXCEPT ![c] = @ + 1]
    /\ page' = [page EXCEPT !.due = @ \/ (page.connected /\ c = First)] /\ UNCHANGED wire

\* A score is validated: the event starts the timer of the pages connected.
ScoreChanged == \E c \in Categories :
    /\ left.changes > 0
    /\ Calm => AtRest /\ page.connected /\ page.category # None
    /\ left' = [left EXCEPT !.changes = @ - 1]
    /\ server' = [server EXCEPT ![c] = @ + 1]
    /\ page' = [page EXCEPT !.due = @ \/ page.connected] /\ UNCHANGED wire

\* The burst is over: the page loads what it shows again.
TimerFires(c) ==
    /\ page.due
    /\ page' = [page EXCEPT !.due = FALSE] /\ UNCHANGED <<server, left>>
    /\ LET category == IF EventStep = 1 THEN page.category
                       ELSE IF page.shown[Steps[1]] = None THEN None
                       ELSE page.shown[Steps[1]].category
       IN  IF category = None THEN UNCHANGED wire ELSE Load(c, category, EventStep)

(***************************************************************************)
(* Loading a category                                                      *)
(***************************************************************************)
Open(c) ==
    /\ page.category = None
    /\ page' = [page EXCEPT !.category = First]
    /\ Load(c, First, 1) /\ UNCHANGED <<server, left>>

ChangeCategory(c) == \E category \in Categories \ {page.category} :
    /\ page.category # None /\ left.clicks > 0
    /\ left' = [left EXCEPT !.clicks = @ - 1]
    /\ page' = [page EXCEPT !.category = category]
    /\ Load(c, category, 1) /\ UNCHANGED server

Serve(c) ==
    /\ wire[c] # Idle /\ wire[c].sent
    /\ wire' = [wire EXCEPT ![c].sent = FALSE,
                            ![c].answer = [category |-> wire[c].category,
                                           version |-> server[wire[c].category]]]
    /\ UNCHANGED <<page, server, left>>

Part(c) == Steps[wire[c].step]

\* The web: each answer is shown as it comes, then the next call is sent.
ShowPart(c) ==
    /\ ~Whole /\ wire[c] # Idle /\ ~wire[c].sent
    /\ page' = [page EXCEPT !.shown[Part(c)] = wire[c].answer]
    /\ IF wire[c].step = Len(Steps)
       THEN wire' = [wire EXCEPT ![c] = Idle]
       ELSE wire' = [wire EXCEPT ![c].step = @ + 1, ![c].sent = TRUE]
    /\ UNCHANGED <<server, left>>

\* Mutant: what was loaded is kept for the category selected by then.
GatherPartHere(c) ==
    /\ Whole /\ wire[c] # Idle /\ ~wire[c].sent /\ UNCHANGED <<server, left>>
    /\ LET got == [s \in DOMAIN wire[c].got \cup {Part(c)} |->
                     IF s = Part(c) THEN wire[c].answer ELSE wire[c].got[s]]
       IN  IF wire[c].step < Len(Steps)
           THEN /\ wire' = [wire EXCEPT ![c].step = @ + 1, ![c].sent = TRUE, ![c].got = got]
                /\ UNCHANGED page
           ELSE /\ page' = [page EXCEPT !.shown = got, !.cached = FALSE,
                                        !.cache[page.category] = got]
                /\ wire' = [wire EXCEPT ![c] = Idle]

\* The app: the parts are gathered, shown at the end, and kept for the category
\* the load began with.
GatherPart(c) ==
    /\ Whole /\ wire[c] # Idle /\ ~wire[c].sent /\ UNCHANGED <<server, left>>
    /\ LET got == [s \in DOMAIN wire[c].got \cup {Part(c)} |->
                     IF s = Part(c) THEN wire[c].answer ELSE wire[c].got[s]]
       IN  IF wire[c].step < Len(Steps)
           THEN /\ wire' = [wire EXCEPT ![c].step = @ + 1, ![c].sent = TRUE, ![c].got = got]
                /\ UNCHANGED page
           ELSE /\ page' = [page EXCEPT !.shown = got, !.cached = FALSE,
                                        !.cache[wire[c].category] = got]
                /\ wire' = [wire EXCEPT ![c] = Idle]

\* The network fails: the app shows what it kept of that category, if anything.
Unreachable(c) ==
    /\ wire[c] # Idle /\ left.failures > 0 /\ ~Calm
    /\ left' = [left EXCEPT !.failures = @ - 1]
    /\ wire' = [wire EXCEPT ![c] = Idle] /\ UNCHANGED server
    /\ IF Whole /\ page.cache[wire[c].category] # None
       THEN page' = [page EXCEPT !.shown = page.cache[wire[c].category], !.cached = TRUE]
       ELSE UNCHANGED page

Next ==
    \/ Connect \/ Drop \/ ScoreChanged
    \/ \E c \in Connections :
        \/ TimerFires(c) \/ Open(c) \/ ChangeCategory(c) \/ Serve(c)
        \/ ShowPart(c) \/ GatherPart(c) \/ Unreachable(c)

Spec == Init /\ [][Next]_vars

\* A page connected that sees one change at a time shows, at rest, the results
\* of the category selected as they are (loadPhases, lastMatchEvent).
RestingPageIsUpToDate ==
    AtRest /\ page.category # None =>
        \A i \in DOMAIN Steps :
            /\ page.shown[Steps[i]].category = page.category
            /\ i >= EventStep => page.shown[Steps[i]].version = server[page.category]

\* However loads cross and fail, the app shows parts of one category, no older
\* than those it shows first, and keeps each category's under its own name
\* (loadStandings, OfflineCacheService).
SnapshotIsWhole ==
    /\ \A s, t \in Range(Steps) :
        page.shown[s] # None => /\ page.shown[t] # None
                                /\ page.shown[t].category = page.shown[s].category
    /\ \A c \in Categories : page.cache[c] # None =>
        \A i \in DOMAIN Steps :
            /\ page.cache[c][Steps[i]].category = c
            /\ i > 1 => page.cache[c][Steps[i]].version >= page.cache[c][Steps[i - 1]].version
================================================================================
