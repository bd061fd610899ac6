------------------------------ MODULE MCStandings ------------------------------
(***************************************************************************)
(* Qualification and TieBreaks checked in one run.  A behaviour is of one  *)
(* part, among those the constant Parts names: two pools and the two       *)
(* brackets they feed, whose winners meet in the main one and whose        *)
(* seconds, ranked across the pools, in the consolation; the same one      *)
(* request at a time; the standings of one pool; or the picks between its  *)
(* tied teams.                                                             *)
(***************************************************************************)
EXTENDS Qualification, TLC

RequestSymmetry == Permutations(Requests)

CONSTANTS r1, Parts

VARIABLES
    poolResults, poolRule, poolPicks,   \* validated, rule and manualOrder of TieBreaks
    part

Phases == {"main", "consolation"}
Winners == "main" :> {1} @@ "consolation" :> {}
Second == "main" :> 1 @@ "consolation" :> 2
BestTwo == "main" :> 0 @@ "consolation" :> 2
MainOnly == {"main"}
MainWinners == "main" :> {1}
MainSecond == "main" :> 2
MainNone == "main" :> 0
SomeScores == {<<0, 1>>, <<0, 2>>, <<0, 0>>}
OneNil == {<<1, 0>>, <<0, 1>>}
OneScore == {<<0, 1>>}
PointsFirst == <<"POINTS", "GOAL_DIFFERENCE">>

AllCalls == {"enter", "validate", "generate", "pick", "correct", "forfeit"}
Forfeits == {"enter", "validate", "generate", "forfeit"}
Uncorrecting == {"enter", "validate", "generate", "pick"}

ThreeTeams == {1, 2, 3}
Lists == {<<"POINTS", "GOAL_DIFFERENCE", "GOALS_SCORED">>,
          <<"HEAD_TO_HEAD", "POINTS">>, <<"POINTS", "HEAD_TO_HEAD", "GOALS_SCORED">>}
DefaultList == {<<"POINTS", "GOAL_DIFFERENCE", "GOALS_SCORED", "HEAD_TO_HEAD">>}
ThreePoints == {[win |-> 3, draw |-> 1, loss |-> 0]}
AnyPoints == ThreePoints \cup {[win |-> 2, draw |-> 1, loss |-> 0]}

\* One pool: any rule, results of up to two goals.
Pool == INSTANCE TieBreaks WITH
    Teams <- ThreeTeams, Scores <- OneNil \cup {<<1, 1>>, <<2, 0>>},
    CriteriaLists <- Lists, Schemes <- AnyPoints, Requests <- {r1}, MaxCalls <- 4,
    validated <- poolResults, rule <- poolRule, manualOrder <- poolPicks

\* One pool: the default rule, a longer sequence of results and picks.
Picked == INSTANCE TieBreaks WITH
    Teams <- ThreeTeams, Scores <- OneNil, CriteriaLists <- DefaultList,
    Schemes <- ThreePoints, Requests <- {r1}, MaxCalls <- 6,
    validated <- poolResults, rule <- poolRule, manualOrder <- poolPicks

ASSUME Pool!Parameters /\ Picked!Parameters

tieVars == <<poolResults, poolRule, poolPicks>>
qualificationVars == <<score, valid, forfeited, poolOrder, bestOrder, seeds, generations,
                       failures>>

NoPool == poolResults = << >> /\ poolRule = << >> /\ poolPicks = << >>

NoBrackets ==
    /\ score = << >> /\ valid = {} /\ forfeited = {} /\ poolOrder = << >>
    /\ bestOrder = << >> /\ seeds = << >> /\ generations = << >> /\ failures = 0

MCInit ==
    /\ part \in Parts
    /\ \/ part = "requests" /\ Init /\ NoPool
       \/ part = "single" /\ Init /\ NoPool /\ \A p \in Pools : score[p] \in OneScore
       \/ part = "pool" /\ Pool!Init /\ NoBrackets
       \/ part = "picks" /\ Picked!Init /\ NoBrackets

\* Three calls to validate, to generate or to settle a tie across the pools, two at once
\* and none lost; no result is changed and no tie of a pool settled by hand.
Uncorrected ==
    /\ Next
    /\ calls' >= MaxCalls - 3
    /\ req' # req
    /\ score' = score /\ forfeited' = {} /\ failures' = 0
    /\ \A r \in Requests : req'[r].step # "pickInPool"

\* One request at a time: a call arrives when the one before it is answered.
OneAtATime ==
    /\ Next
    /\ \A r \in Requests \ {r1} : req'[r] = Idle
    /\ calls' # calls => req[r1] = Idle

MCNext ==
    /\ \/ part = "requests" /\ Uncorrected /\ UNCHANGED tieVars
       \/ part = "single" /\ OneAtATime /\ UNCHANGED tieVars
       \/ part = "pool" /\ Pool!Next /\ UNCHANGED qualificationVars
       \/ part = "picks" /\ Picked!Next /\ UNCHANGED qualificationVars
    /\ UNCHANGED part

MCSpec == MCInit /\ [][MCNext]_<<vars, tieVars, part>>


\* OneGeneration and FirstRoundResolved, one request at a time: a bracket is generated
\* once and its first round filled when its pools are complete (generateMatches,
\* tryResolveFirstRound); and TypeOK.
FirstRoundResolvedAlone == part = "single" => TypeOK /\ OneGeneration /\ FirstRoundResolved

\* GoalsBalance and NamesDecideOnlyTies of the pool: the alphabet only decides what is
\* reported as a tie (applyResult, findUnresolvedTies); and TypeOK.
StandingsReportTheirTies ==
    part = "pool" => Pool!TypeOK /\ Pool!GoalsBalance /\ Pool!NamesDecideOnlyTies

\* A pick takes its team out of every tie and ahead of those it was tied with, and picks
\* are kept until the order is cleared (setManualTieBreakChoice).
PicksSettle ==
    /\ \A r \in {r1} : Picked!WriteOrder(r) =>
           LET t == req[r].team
               after == Picked!StandingBy(poolPicks')
           IN /\ t \notin UNION Picked!TiesBy(poolPicks')
              /\ \A tie \in Picked!UnresolvedTies : t \in tie =>
                     \A u \in tie \ {t} :
                         Picked!PositionIn(t, after) < Picked!PositionIn(u, after)
    /\ poolPicks' = <<>> \/ IsPrefix(poolPicks, poolPicks')

\* One request at a time: whoever is written into the first round holds the slot by the
\* standings of that moment (tryResolveFirstRound), and PicksSettle.
SlotsAndPicksFollowAlone ==
    [][/\ part = "single" => \A b \in Brackets : seeds'[b] # seeds[b] =>
              LET now == CurrentSlots(b) IN
              \A i \in DOMAIN seeds'[b] :
                  \/ seeds[b] # <<>> /\ seeds'[b][i] = seeds[b][i]
                  \/ seeds'[b][i] \in {NoTeam, now[i]}
       /\ part = "picks" /\ tieVars' # tieVars => PicksSettle]_<<vars, tieVars>>
================================================================================
