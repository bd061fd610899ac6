----------------------------- MODULE FavoriteAlerts -----------------------------
(***************************************************************************)
(* The mobile application's alerts on favourite teams: one tournament is   *)
(* open (TournamentShell, TournamentContextService, the copy kept by       *)
(* OfflineCacheService), its stream tells that some match changed, and     *)
(* then every favourite's matches are fetched and compared with what was   *)
(* last seen of them (NotificationsService, FavoritesService).             *)
(***************************************************************************)
EXTENDS PageCalls, Sequences

CONSTANTS
    Matches,
    Playing,     \* the two teams of each match
    Scores,
    Calm,        \* matches and favourites change when nothing is in flight
    MaxFailures  \* bound: times the network goes down, the tournament is unpublished

Teams == UNION {Playing[m] : m \in Matches}
Unplayed == [status |-> "SCHEDULED", score |-> None]

\* Kept matches have been followed without a gap since they were first seen; news are
\* what somebody who follows them should be told.
Untold == [m \in Matches |-> <<>>]

Closed(p) == [p EXCEPT !.tournament = None, !.connected = FALSE, !.tick = FALSE, !.seen = <<>>,
                       !.kept = {}, !.news = Untold, !.alerts = Untold]

Init ==
    /\ server = [match |-> [m \in Matches |-> Unplayed], up |-> TRUE, published |-> TRUE,
                 failures |-> 0]
    /\ page = [favorites |-> {}, cached |-> FALSE, tournament |-> None, connected |-> FALSE,
               tick |-> FALSE, seen |-> <<>>, kept |-> {}, news |-> Untold, alerts |-> Untold]
    /\ NoCalls

MatchesOf(team) == {m \in Matches : team \in Playing[m]}
Followed(favorites) == UNION {MatchesOf(t) : t \in favorites}
Quiet == AtRest /\ ~page.tick

(***************************************************************************)
(* The tournament: loaded when the page opens and on a retry, shown from   *)
(* the copy when the network is down; a first answer connects the stream   *)
(***************************************************************************)
Load(c) ==
    /\ Click(c, "load") /\ page.tournament # "loaded"
    /\ \A d \in Connections : wire[d].op # "load"
    /\ Send(c, [op |-> "load"]) /\ UNCHANGED <<page, server>>

ServeLoad(c) ==
    /\ Serve(c, "load")
    /\ \/ server.up /\ server.published /\ Answer(c, None) /\ UNCHANGED server
       \/ ~(server.up /\ server.published) /\ UNCHANGED server
          /\ wire' = [wire EXCEPT ![c] = Overlay([at |-> "refused", network |-> ~server.up], @)]

GotLoad(c) ==
    /\ Back(c, "load") /\ Hang(c)
    /\ page' = [page EXCEPT !.tournament = "loaded", !.cached = TRUE, !.connected = TRUE,
                            !.tick = TRUE]

\* The tournament's matches are checked from a copy too.
GotLoadFailure(c) ==
    /\ Refused(c) /\ wire[c].op = "load" /\ Hang(c)
    /\ LET copy == wire[c].network /\ page.cached IN
       page' = [page EXCEPT !.tournament = IF copy THEN "copy" ELSE None,
                            !.tick = @ \/ copy]

(***************************************************************************)
(* Favourites, kept on the phone                                           *)
(***************************************************************************)
Toggle ==
    /\ Spend("toggle") /\ page.tournament # None /\ (Calm => Quiet) /\ UNCHANGED <<server, wire>>
    /\ \E t \in Teams :
       LET favorites == IF t \in page.favorites THEN page.favorites \ {t}
                        ELSE page.favorites \cup {t}
       IN page' = [page EXCEPT !.favorites = favorites, !.tick = TRUE,
                               !.kept = @ \cap Followed(favorites)]

(***************************************************************************)
(* A check: one call per favourite, each with all of its team's matches    *)
(***************************************************************************)
Check ==
    /\ page.tick /\ UNCHANGED <<server, left>>
    /\ page' = [page EXCEPT !.tick = FALSE]
    /\ \E free \in SUBSET {c \in Connections : wire[c] = Idle} :
       /\ Cardinality(free) = Cardinality(page.favorites)
       /\ \E f \in Bijection(free, page.favorites) :
             wire' = [c \in Connections |->
                        IF c \in free THEN [op |-> "team", at |-> "sent", team |-> f[c]]
                        ELSE wire[c]]

ServeTeam(c) ==
    /\ Serve(c, "team")
    /\ \/ /\ server.up /\ server.published /\ UNCHANGED server
          /\ Answer(c, [m \in MatchesOf(wire[c].team) |-> server.match[m]])
       \/ ~(server.up /\ server.published) /\ Refuse(c)

Reached == page.connected /\ server.up /\ server.published

\* What a match is compared with, once it was seen.
Tell(was, is) ==
    IF was.status # "LIVE" /\ is.status = "LIVE" THEN <<"started">>
    ELSE IF is.score # None /\ is.score # was.score THEN <<is.score>> ELSE <<>>

\* Mutant: the last state is kept for each favourite.
GotTeamByFavorite(c) ==
    /\ Back(c, "team") /\ Hang(c)
    /\ LET got == wire[c].data IN
       page' = [page EXCEPT
           !.seen = Overlay(got, @),
           !.kept = @ \cup {m \in DOMAIN got \ DOMAIN page.seen : Reached},
           !.alerts = [m \in Matches |->
               IF m \in DOMAIN got /\ m \in DOMAIN page.seen
               THEN @[m] \o Tell(IF wire[c].team = CHOOSE t \in Playing[m] : TRUE
                                 THEN page.seen[m] ELSE Unplayed, got[m])
               ELSE @[m]]]

GotTeam(c) ==
    /\ Back(c, "team") /\ Hang(c)
    /\ LET got == wire[c].data IN
       page' = [page EXCEPT
           !.seen = Overlay(got, @),
           !.kept = @ \cup {m \in DOMAIN got \ DOMAIN page.seen : Reached},
           !.alerts = [m \in Matches |->
               IF m \in DOMAIN got /\ m \in DOMAIN page.seen
               THEN @[m] \o Tell(page.seen[m], got[m]) ELSE @[m]]]

GotTeamFailure(c) == Refused(c) /\ wire[c].op = "team" /\ Hang(c) /\ UNCHANGED page

(***************************************************************************)
(* The organizer enters a score, validates or clears it, or declares a     *)
(* forfeit; the stream reports each                                        *)
(***************************************************************************)
Become(m, op, state) ==
    /\ Spend(op) /\ (Calm => Quiet) /\ UNCHANGED wire
    /\ server' = [server EXCEPT !.match[m] = state]
    /\ LET watched == m \in page.kept
           told == IF op # "score" THEN <<>>
                   ELSE IF server.match[m].status # "LIVE" THEN <<"started">>
                   ELSE IF server.match[m].score = state.score THEN <<>> ELSE <<state.score>>
       IN page' = [page EXCEPT !.tick = @ \/ (page.connected /\ server.up),
                               !.news[m] = IF watched THEN @ \o told ELSE @]

Score(m) == \E score \in Scores : Become(m, "score", [status |-> "LIVE", score |-> score])
Validate(m) ==
    server.match[m].score # None /\ Become(m, "validate", [server.match[m] EXCEPT !.status = "COMPLETED"])
Clear(m) == server.match[m].score # None /\ Become(m, "clear", Unplayed)
Forfeit(m) == Become(m, "forfeit", [status |-> "FORFEITED", score |-> None])

(***************************************************************************)
(* The application is closed and opened, keeping favourites and copy; the  *)
(* network goes and comes; the tournament is unpublished                   *)
(***************************************************************************)
Restart ==
    /\ Spend("restart") /\ UNCHANGED server
    /\ page' = Closed(page) /\ wire' = [c \in Connections |-> Idle]

Network ==
    /\ server.up => server.failures < MaxFailures
    /\ server' = [server EXCEPT !.up = ~@, !.failures = IF server.up THEN @ + 1 ELSE @]
    /\ page' = [page EXCEPT !.kept = {}] /\ UNCHANGED <<wire, left>>

Unpublish ==
    /\ server.published /\ server.failures < MaxFailures
    /\ server' = [server EXCEPT !.published = FALSE, !.failures = @ + 1]
    /\ page' = [page EXCEPT !.kept = {}] /\ UNCHANGED <<wire, left>>

Next ==
    \/ Toggle \/ Check \/ Restart \/ Network \/ Unpublish
    \/ \E m \in Matches : Score(m) \/ Validate(m) \/ Clear(m) \/ Forfeit(m)
    \/ \E c \in Connections :
       \/ Load(c) \/ ServeLoad(c) \/ GotLoad(c) \/ GotLoadFailure(c)
       \/ ServeTeam(c) \/ GotTeam(c) \/ GotTeamFailure(c)

Spec == Init /\ [][Next]_vars

--------------------------------------------------------------------------------
\* Once every answer is in, a match followed without a gap since it was first seen
\* has been alerted of once for each start and once for each score changed while it
\* was live, in that order, one of its teams being a favourite or both (checkTeam).
EveryChangeIsToldOnce == Quiet => \A m \in page.kept : page.alerts[m] = page.news[m]
================================================================================
