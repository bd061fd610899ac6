--------------------------------- MODULE Recap ---------------------------------
(***************************************************************************)
(* The figures of the public recap of a tournament (wrapped.util.ts), as   *)
(* functions of the validated matches.  A match is                         *)
(*     [home, away : team names, hg, ag : goals, shootout : side or None]. *)
(* `history` holds the matches of the whole organization in the order of   *)
(* their validation; those from `first` on are the tournament's.  The      *)
(* Glicko-2 arithmetic is left out: Rated(p, q, points) stands for the new *)
(* rating of a team rated p after its match against one rated q, where a   *)
(* win gives 2 points and a draw 1.                                        *)
(***************************************************************************)
EXTENDS Integers, Sequences, SequencesExt

CONSTANTS
    Rated(_, _, _),
    InitialRating,
    MinMatches,    \* MIN_MATCHES_FOR_DEFENSE_RANKING
    TopSize,       \* rows of a ranking
    None

VARIABLES history, first

Tournament == SubSeq(history, first, Len(history))

Abs(n) == IF n < 0 THEN -n ELSE n

Total(m) == m.hg + m.ag
Margin(m) == Abs(m.hg - m.ag)
ByShootout(m) == Margin(m) = 0 /\ m.shootout # None

(***************************************************************************)
(* computeMatchStats: one pass over the matches                            *)
(***************************************************************************)
Outcome(m) ==
    CASE ByShootout(m) -> "shootout"
      [] m.hg = m.ag /\ ~ByShootout(m) -> "draw"
      [] m.hg > m.ag -> "homeWin"
      [] OTHER -> "awayWin"

Outcomes == [o \in {"homeWin", "awayWin", "draw", "shootout"} |->
                Len(SelectSeq(Tournament, LAMBDA m : Outcome(m) = o))]

TotalGoals == FoldLeft(LAMBDA sum, m : sum + Total(m), 0, Tournament)

\* Of equals, the first met stays.
HighestScoring ==
    FoldLeft(LAMBDA best, m : IF best = None \/ Total(m) > Total(best) THEN m ELSE best,
             None, Tournament)

BiggestWin ==
    FoldLeft(LAMBDA best, m : IF Margin(m) > 0 /\ (best = None \/ Margin(m) > Margin(best))
                              THEN m ELSE best, None, Tournament)

\* Mutant: a draw is the closest of matches.
WonOrDrawn(m) == Margin(m) >= 0

Decided(m) == Margin(m) > 0 \/ ByShootout(m)

Closest ==
    FoldLeft(LAMBDA best, m : IF Decided(m) /\ (best = None \/ Margin(m) < Margin(best))
                              THEN m ELSE best, None, Tournament)

Teams == UNION {{m.home, m.away} : m \in ToSet(Tournament)}

\* Mutant: the home team's goals go to both.
HomeGoals(t) == FoldLeft(LAMBDA n, m : n + (IF t \in {m.home, m.away} THEN m.hg ELSE 0), 0, Tournament)

GoalsFor(t) ==
    FoldLeft(LAMBDA n, m : n + (IF m.home = t THEN m.hg ELSE 0) + (IF m.away = t THEN m.ag ELSE 0),
             0, Tournament)
GoalsAgainst(t) ==
    FoldLeft(LAMBDA n, m : n + (IF m.home = t THEN m.ag ELSE 0) + (IF m.away = t THEN m.hg ELSE 0),
             0, Tournament)
Matches(t) == Len(SelectSeq(Tournament, LAMBDA m : t \in {m.home, m.away}))

\* The teams in the order they are first met, which the sort keeps among equals.
Met == FoldLeft(LAMBDA names, m : names \o SelectSeq(<<m.home, m.away>>,
                                            LAMBDA t : ~Contains(names, t)), <<>>, Tournament)

Position(t) == CHOOSE i \in DOMAIN Met : Met[i] = t

Top(rows) == SubSeq(rows, 1, IF Len(rows) < TopSize THEN Len(rows) ELSE TopSize)

TopAttack ==
    Top(SortSeq(Met, LAMBDA t, u : \/ GoalsFor(t) > GoalsFor(u)
                                   \/ GoalsFor(t) = GoalsFor(u) /\ Position(t) < Position(u)))

\* Mutant: teams that hardly played are ranked among the defences.
Appeared(t) == Matches(t) > 0

CountsAsDefence(t) == Matches(t) >= MinMatches

TopDefense ==
    Top(SortSeq(SelectSeq(Met, CountsAsDefence),
                LAMBDA t, u : \/ GoalsAgainst(t) < GoalsAgainst(u)
                              \/ GoalsAgainst(t) = GoalsAgainst(u) /\ Position(t) < Position(u)))

(***************************************************************************)
(* findBiggestUpset: the ratings are replayed over the matches of the      *)
(* tournament's teams, and each match of the tournament is judged by the   *)
(* ratings its two teams had before it.                                    *)
(***************************************************************************)
InScope(i) == i >= first

Entries ==
    SelectSeq([i \in DOMAIN history |-> [match |-> history[i], inScope |-> InScope(i)]],
              LAMBDA e : {e.match.home, e.match.away} \cap Teams # {})

Winner(m) ==
    CASE m.hg > m.ag \/ (m.hg = m.ag /\ m.shootout = "home") -> m.home
      [] m.hg < m.ag \/ (m.hg = m.ag /\ m.shootout = "away") -> m.away
      [] OTHER -> None

Loser(m) == IF Winner(m) = m.home THEN m.away ELSE m.home

Points(m, t) == CASE Winner(m) = None -> 1 [] Winner(m) = t -> 2 [] OTHER -> 0

\* Mutant: the away team meets the home team's new rating.
ReplayInTurn(ratings, m) ==
    LET home == Rated(ratings[m.home], ratings[m.away], Points(m, m.home))
    IN  [ratings EXCEPT ![m.home] = home,
                        ![m.away] = Rated(@, home, Points(m, m.away))]

Replay(ratings, m) ==
    [ratings EXCEPT ![m.home] = Rated(@, ratings[m.away], Points(m, m.home)),
                    ![m.away] = Rated(@, ratings[m.home], Points(m, m.away))]

Gap(ratings, m) ==
    IF Winner(m) = None THEN 0 ELSE ratings[Loser(m)] - ratings[Winner(m)]

AllTeams == UNION {{m.home, m.away} : m \in ToSet(history)}

Judge(state, e) ==
    [ratings |-> Replay(state.ratings, e.match),
     best |-> IF e.inScope /\ Gap(state.ratings, e.match) > state.best.gap
              THEN [match |-> e.match, gap |-> Gap(state.ratings, e.match)]
              ELSE state.best]

BiggestUpset ==
    FoldLeft(Judge, [ratings |-> [t \in AllTeams |-> InitialRating],
                     best |-> [match |-> None, gap |-> 0]], Entries).best

--------------------------------------------------------------------------------
Sum(f, S) == FoldLeft(LAMBDA n, t : n + f[t], 0, SetToSeq(S))

\* computeMatchStats counts each match once under one outcome and each goal once
\* for its scorers and once against the others, so the recap's panels agree.
PanelsAddUp ==
    /\ Sum(Outcomes, DOMAIN Outcomes) = Len(Tournament)
    /\ Sum([t \in Teams |-> GoalsFor(t)], Teams) = TotalGoals
    /\ Sum([t \in Teams |-> GoalsAgainst(t)], Teams) = TotalGoals
    /\ Sum([t \in Teams |-> Matches(t)], Teams) = 2 * Len(Tournament)

IsFirst(m, Among(_), Above(_, _)) ==
    LET P == {i \in DOMAIN Tournament : Among(Tournament[i])} IN
    IF P = {} THEN m = None
    ELSE \E i \in P : /\ m = Tournament[i]
                      /\ \A j \in P : IF j < i THEN Above(m, Tournament[j])
                                      ELSE ~Above(Tournament[j], m)

\* The highlighted matches are the extremes they claim to be, the earliest of
\* several; the closest match had a winner, and a shootout is closer than any goal.
\* A defence is only praised over MinMatches matches, and no better attack or defence
\* is left out (computeMatchStats).
HighlightsAreExtremes ==
    /\ IsFirst(HighestScoring, LAMBDA m : TRUE, LAMBDA m, n : Total(m) > Total(n))
    /\ IsFirst(BiggestWin, LAMBDA m : Winner(m) # None /\ ~ByShootout(m),
               LAMBDA m, n : Margin(m) > Margin(n))
    /\ IsFirst(Closest, LAMBDA m : Winner(m) # None, LAMBDA m, n : Margin(m) < Margin(n))
    /\ \A t \in ToSet(TopAttack), u \in Teams \ ToSet(TopAttack) : GoalsFor(u) <= GoalsFor(t)
    /\ \A t \in ToSet(TopDefense) :
          /\ Matches(t) >= MinMatches
          /\ \A u \in Teams \ ToSet(TopDefense) :
                Matches(u) >= MinMatches => GoalsAgainst(t) <= GoalsAgainst(u)

\* A team's rating before the n-th entry, computed back from its own last match.
RatingBefore[n \in Nat] ==
    IF n = 1 THEN [t \in AllTeams |-> InitialRating]
    ELSE LET m == Entries[n - 1].match  before == RatingBefore[n - 1] IN
         [t \in AllTeams |->
            CASE t = m.home -> Rated(before[t], before[m.away], Points(m, t))
              [] t = m.away -> Rated(before[t], before[m.home], Points(m, t))
              [] OTHER -> before[t]]

\* The upset shown is a win of the tournament against the ratings of the moment,
\* however many matches outside it came between, and none was more surprising
\* (findBiggestUpset).
UpsetIsTheBiggest ==
    LET GapAt(n) == Gap(RatingBefore[n], Entries[n].match)
        Won == {n \in DOMAIN Entries : Entries[n].inScope /\ GapAt(n) > 0}
    IN  IF Won = {} THEN BiggestUpset.match = None
        ELSE \E n \in Won : /\ BiggestUpset = [match |-> Entries[n].match, gap |-> GapAt(n)]
                            /\ \A k \in Won : GapAt(k) <= GapAt(n)
================================================================================
