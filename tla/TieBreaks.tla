------------------------------- MODULE TieBreaks -------------------------------
(***************************************************************************)
(* One pool: its validated results, its standing rule, and the organizer's *)
(* picks between tied teams (StandingsService, StandingRulesService).  A   *)
(* pick reads the manual order and writes it back whole: two requests.     *)
(***************************************************************************)
EXTENDS Standings

CONSTANTS
    Teams,         \* the teams of the pool, by name
    Scores,        \* the scores a match may have
    CriteriaLists, \* the tie-break orders a standing rule may have
    Schemes,       \* the points a standing rule may give
    Requests,      \* the requests the API serves concurrently
    MaxCalls       \* bound: calls in one behaviour

Parameters ==
    /\ Teams \subseteq Nat /\ IsFiniteSet(Teams)
    /\ MaxCalls \in Nat

VARIABLES
    validated,    \* the validated score of each match of the pool, if any
    rule,         \* StandingRule: the points and the order of the criteria
    manualOrder,  \* StandingRule.manualTieBreakOrder
    req,          \* the picks in flight: the team, and the order read
    calls         \* calls still to come

vars == <<validated, rule, manualOrder, req, calls>>

Matches == {m \in Teams \X Teams : m[1] < m[2]}

NoScore == <<>>

Results ==
    {[home |-> m[1], away |-> m[2], homeScore |-> validated[m][1], awayScore |-> validated[m][2]]
        : m \in {n \in Matches : validated[n] # NoScore}}

Rows == [t \in Teams |-> Stats(t, Results, rule.scheme)]

StandingBy(order) ==
    ResolveOrder(Teams, Rows, Results, rule.criteria, rule.scheme, order, <)

TiesBy(order) ==
    FindUnresolvedTies(Teams, Rows, Results, rule.criteria, rule.scheme, order)

Standing == StandingBy(manualOrder)

UnresolvedTies == TiesBy(manualOrder)

Idle == [team |-> 0, read |-> <<>>]

Init ==
    /\ validated = [m \in Matches |-> NoScore]
    /\ rule \in [criteria : CriteriaLists, scheme : Schemes]
    /\ manualOrder = <<>>
    /\ req = [r \in Requests |-> Idle]
    /\ calls = MaxCalls

\* A request arrives while a slot is free to serve it.
Spend ==
    /\ \E r \in Requests : req[r] = Idle
    /\ calls > 0 /\ calls' = calls - 1

\* ScoresService: a result is validated, corrected or cleared.
SetResult(m, s) ==
    /\ Spend
    /\ validated' = [validated EXCEPT ![m] = s]
    /\ UNCHANGED <<rule, manualOrder, req>>

\* StandingRulesService.update.
UpdateRule ==
    /\ Spend
    /\ rule' \in [criteria : CriteriaLists, scheme : Schemes]
    /\ UNCHANGED <<validated, manualOrder, req>>

\* setManualTieBreakChoice, on a team the page shows as tied.
ReadOrder(r, t) ==
    /\ Spend
    /\ req[r] = Idle
    /\ t \in UNION UnresolvedTies
    /\ req' = [req EXCEPT ![r] = [team |-> t, read |-> manualOrder]]
    /\ UNCHANGED <<validated, rule, manualOrder>>

\* Mutant: the pick is put in front of the earlier ones.
PrependOrder(r) ==
    /\ req[r] # Idle
    /\ manualOrder' = IF Contains(req[r].read, req[r].team) THEN manualOrder
                      ELSE <<req[r].team>> \o req[r].read
    /\ req' = [req EXCEPT ![r] = Idle]
    /\ UNCHANGED <<validated, rule, calls>>

WriteOrder(r) ==
    /\ req[r] # Idle
    /\ manualOrder' = IF Contains(req[r].read, req[r].team) THEN manualOrder
                      ELSE Append(req[r].read, req[r].team)
    /\ req' = [req EXCEPT ![r] = Idle]
    /\ UNCHANGED <<validated, rule, calls>>

\* clearManualTieBreakOrder.
ClearOrder ==
    /\ Spend
    /\ manualOrder' = <<>>
    /\ UNCHANGED <<validated, rule, req>>

Next ==
    \/ \E m \in Matches, s \in Scores \cup {NoScore} : SetResult(m, s)
    \/ UpdateRule \/ ClearOrder
    \/ \E r \in Requests : WriteOrder(r) \/ \E t \in Teams : ReadOrder(r, t)

Spec == Init /\ [][Next]_vars

--------------------------------------------------------------------------------
(***************************************************************************)
(* Properties                                                              *)
(***************************************************************************)
\* The columns hold values of their types; the order names a team once.
TypeOK ==
    /\ validated \in [Matches -> Scores \cup {NoScore}]
    /\ rule \in [criteria : CriteriaLists, scheme : Schemes]
    /\ manualOrder \in Seq(Teams) /\ IsInjective(manualOrder)
    /\ req \in [Requests -> [team : Teams \cup {0}, read : Seq(Teams)]]
    /\ calls \in Nat

PositionIn(t, order) == SelectInSeq(order, LAMBDA u : u = t)

\* What is scored is conceded by somebody, and every match awards its points
\* to both sides (applyResult is called once for each).
GoalsBalance ==
    /\ MapThenSumSet(LAMBDA t : Rows[t].GOAL_DIFFERENCE, Teams) = 0
    /\ MapThenSumSet(LAMBDA t : Rows[t].GOALS_SCORED, Teams)
         = MapThenSumSet(LAMBDA m : m.homeScore + m.awayScore, Results)

\* brackets.service.ts:708 "a coin flip (the alphabetical fallback)": only the
\* teams findUnresolvedTies reports owe their position to their names.
NamesDecideOnlyTies ==
    LET reversed == ResolveOrder(Teams, Rows, Results, rule.criteria, rule.scheme,
                                 manualOrder, >)
    IN \A t \in Teams \ UNION UnresolvedTies :
           PositionIn(t, Standing) = PositionIn(t, reversed)

\* standings.service.ts:176 "resolving a 3+-way tie takes one pick per remaining
\* subgroup": a pick takes its team out of every tie and ahead of those it was tied with.
PickSettlesItsTeam ==
    [][\A r \in Requests : WriteOrder(r) =>
           LET t == req[r].team
               after == StandingBy(manualOrder')
           IN /\ t \notin UNION TiesBy(manualOrder')
              /\ \A tie \in UnresolvedTies : t \in tie =>
                     \A u \in tie \ {t} : PositionIn(t, after) < PositionIn(u, after)]_vars

\* standings.service.ts:176 "appended, not replacing the whole order": only
\* clearing the order takes a pick out of it.
PicksAreKept ==
    [][manualOrder' = <<>> \/ IsPrefix(manualOrder, manualOrder')]_vars
================================================================================
