------------------------------- MODULE Standings -------------------------------
(***************************************************************************)
(* The ordering of a pool, and of the best N across pools                  *)
(* (standings.util.ts).  Teams are numbers in the alphabetical order of    *)
(* their names; a result is a validated match with its score.              *)
(***************************************************************************)
EXTENDS Integers, SequencesExt

Criteria == {"POINTS", "GOAL_DIFFERENCE", "GOALS_SCORED", "HEAD_TO_HEAD"}

\* PointsScheme: a StandingRule's winPoints, drawPoints and lossPoints.
Award(scored, conceded, scheme) ==
    CASE scored > conceded -> scheme.win
      [] scored = conceded -> scheme.draw
      [] OTHER -> scheme.loss

Scored(t, m) == IF m.home = t THEN m.homeScore ELSE m.awayScore

Conceded(t, m) == IF m.home = t THEN m.awayScore ELSE m.homeScore

Of(t, results) == {m \in results : t \in {m.home, m.away}}

Points(t, results, scheme) ==
    MapThenSumSet(LAMBDA m : Award(Scored(t, m), Conceded(t, m), scheme), Of(t, results))

GoalsFor(t, results) == MapThenSumSet(LAMBDA m : Scored(t, m), Of(t, results))

\* Mutant: the goals conceded are those of the home side, whoever it is.
GoalsAgainstHome(t, results) == MapThenSumSet(LAMBDA m : m.homeScore, Of(t, results))

GoalsAgainst(t, results) == MapThenSumSet(LAMBDA m : Conceded(t, m), Of(t, results))

\* computeStandings' statistics of a team, as far as the criteria use them.
Stats(t, results, scheme) ==
    [POINTS |-> Points(t, results, scheme),
     GOAL_DIFFERENCE |-> GoalsFor(t, results) - GoalsAgainst(t, results),
     GOALS_SCORED |-> GoalsFor(t, results)]

Within(teams, results) == {m \in results : {m.home, m.away} \subseteq teams}

\* criterionValueGetter: head-to-head points count the matches of the teams
\* still tied, and of no other.
ValueOf(t, teams, stats, results, criterion, scheme) ==
    IF criterion = "HEAD_TO_HEAD" THEN Points(t, Within(teams, results), scheme)
    ELSE stats[t][criterion]

\* groupByCriterion: the teams by decreasing value.
GroupByCriterion(teams, stats, results, criterion, scheme) ==
    LET value(t) == ValueOf(t, teams, stats, results, criterion, scheme)
        levels == SetToSortSeq({value(t) : t \in teams}, >)
    IN [i \in DOMAIN levels |-> {t \in teams : value(t) = levels[i]}]

\* What every criterion in turn leaves tied, best first: each one splits the
\* groups the ones before it left.
Tied(teams, stats, results, criteria, scheme) ==
    FoldLeft(LAMBDA groups, criterion :
                 FlattenSeq([i \in DOMAIN groups |->
                     GroupByCriterion(groups[i], stats, results, criterion, scheme)]),
             <<teams>>, criteria)

\* A team the organizer has not picked ranks behind every picked one.
ManualRank(t, manualOrder) ==
    IF Contains(manualOrder, t) THEN SelectInSeq(manualOrder, LAMBDA u : u = t)
    ELSE Len(manualOrder) + 1

\* resolveOrder, with Alphabetical(_, _) as the order of the names.
ResolveOrder(teams, stats, results, criteria, scheme, manualOrder, Alphabetical(_, _)) ==
    LET groups == Tied(teams, stats, results, criteria, scheme)
        before(t, u) ==
            LET i == ManualRank(t, manualOrder)
                j == ManualRank(u, manualOrder)
            IN i < j \/ (i = j /\ Alphabetical(t, u))
    IN FlattenSeq([i \in DOMAIN groups |-> SetToSortSeq(groups[i], before)])

\* Mutant: the organizer's picks are not looked at.
FindAlphabeticalTies(teams, stats, results, criteria, scheme, manualOrder) ==
    LET groups == Tied(teams, stats, results, criteria, scheme)
    IN {groups[i] : i \in {j \in DOMAIN groups : Cardinality(groups[j]) > 1}}

\* Mutant: one pick closes the whole tie.
FindUntouchedTies(teams, stats, results, criteria, scheme, manualOrder) ==
    {tie \in FindAlphabeticalTies(teams, stats, results, criteria, scheme, manualOrder) :
        \A t \in tie : ~Contains(manualOrder, t)}

\* findUnresolvedTies: what no criterion and no pick tells apart.
FindUnresolvedTies(teams, stats, results, criteria, scheme, manualOrder) ==
    LET groups == Tied(teams, stats, results, criteria, scheme)
        undecided(group) ==
            {{t \in group : ManualRank(t, manualOrder) = i} : i \in 1 .. Len(manualOrder) + 1}
    IN {tie \in UNION {undecided(groups[i]) : i \in DOMAIN groups} : Cardinality(tie) > 1}

\* rankCrossGroupCandidates: the teams at one position of every pool, ranked by
\* their own pools' statistics; they never met, so there are no results.
NoScheme == [win |-> 0, draw |-> 0, loss |-> 0]

RankCrossGroupCandidates(candidates, stats, criteria, manualOrder) ==
    ResolveOrder(candidates, stats, {}, criteria, NoScheme, manualOrder, <)

CrossGroupTies(candidates, stats, criteria, manualOrder) ==
    FindUnresolvedTies(candidates, stats, {}, criteria, NoScheme, manualOrder)
================================================================================
