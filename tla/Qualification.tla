----------------------------- MODULE Qualification -----------------------------
(***************************************************************************)
(* From the pools of a phase to the first round of the brackets they feed  *)
(* (BracketsService.generateMatches, generateAllMatches,                   *)
(* tryResolveFirstRound; CrossGroupQualificationRulesService; the pool     *)
(* side of ScoresService).  A pool here is two teams and the match between *)
(* them; a bracket takes some positions of every pool, then the best of    *)
(* another position across the pools.  A handler reads the pools' standings*)
(* one by one, and the steps of several requests interleave.               *)
(***************************************************************************)
EXTENDS Standings

CONSTANTS
    PoolCount,     \* the pools of the phase are numbered by name
    Brackets,      \* the knockout phases fed by them
    Positions,     \* the positions of each pool that go to a bracket
    BestPosition,  \* the position a bracket's cross-group rule ranks
    BestCount,     \* how many of them it takes
    Scores,        \* the scores a match may have
    InitialScores, \* the scores entered, not validated yet, to start from
    Criterion,     \* the tie-break order of every pool's standing rule
    Requests,      \* the requests the API serves concurrently
    Operations,    \* the calls considered
    MaxCalls,      \* bound: calls in one behaviour
    MaxFailures    \* bound: requests lost half-way

ASSUME Parameters ==
    /\ PoolCount \in Nat \ {0} /\ MaxCalls \in Nat /\ MaxFailures \in Nat
    /\ Positions \in [Brackets -> SUBSET (1 .. 2)]
    /\ BestPosition \in [Brackets -> 1 .. 2]
    /\ BestCount \in [Brackets -> 0 .. PoolCount]

VARIABLES
    score,        \* MatchScore of each pool's match, if any
    valid,        \* the pools whose score is validated
    forfeited,    \* the pools whose match is forfeited
    poolOrder,    \* StandingRule.manualTieBreakOrder of each pool, by seat
    bestOrder,    \* CrossGroupQualificationRule.manualTieBreakOrder
    seeds,        \* the teams seeded in each bracket's first round, once generated
    generations,  \* how many times each bracket's matches were generated
    req,          \* what each request in flight does next, and what it has read
    calls,        \* calls still to come
    failures      \* requests lost so far

scoreVars == <<score, valid, forfeited>>
ruleVars == <<poolOrder, bestOrder>>
bracketVars == <<seeds, generations>>
vars == <<score, valid, forfeited, poolOrder, bestOrder, seeds,
          generations, req, calls, failures>>

Pools == 1 .. PoolCount

TeamsOf(p) == {2 * p - 1, 2 * p}

Teams == 1 .. 2 * PoolCount

NoTeam == 0
NoScore == <<>>

(***************************************************************************)
(* Who qualifies: resolveQualificationSlots and resolveSlots.  A pool's    *)
(* standing depends on its score and on the picks; the tables hold it for  *)
(* every score and every pick there can be, with the two teams as seats;   *)
(* <<>> @@ f is f, which TLC then computes once.                           *)
(***************************************************************************)
Scheme == [win |-> 3, draw |-> 1, loss |-> 0]

Seats == 1 .. 2

Picks(n) == SeqOf(1 .. n, n)

SeatResults(s) ==
    IF s = NoScore THEN {}
    ELSE {[home |-> 1, away |-> 2, homeScore |-> s[1], awayScore |-> s[2]]}

SeatRows(s) == [t \in Seats |-> Stats(t, SeatResults(s), Scheme)]

SeatStandings == <<>> @@ [s \in Scores \cup {NoScore}, picks \in Picks(2) |->
    ResolveOrder(Seats, SeatRows(s), SeatResults(s), Criterion, Scheme, picks, <)]

TiedSeats == <<>> @@ [s \in Scores \cup {NoScore}, picks \in Picks(2) |->
    UNION FindUnresolvedTies(Seats, SeatRows(s), SeatResults(s), Criterion, Scheme, picks)]

\* The statistics of the teams at one position of each pool.
CandidateRows(scores, position) ==
    [p \in Pools |-> SeatRows(scores[p])[SeatStandings[scores[p], <<>>][position]]]

BestPools == <<>> @@ [scores \in [Pools -> Scores], position \in Seats, picks \in Picks(PoolCount) |->
    RankCrossGroupCandidates(Pools, CandidateRows(scores, position), Criterion, picks)]

TiedPools == <<>> @@ [scores \in [Pools -> Scores], position \in Seats, picks \in Picks(PoolCount) |->
    UNION CrossGroupTies(Pools, CandidateRows(scores, position), Criterion, picks)]

Validated(p) == IF p \in valid THEN score[p] ELSE NoScore

\* The team at a position of pool p, by name when it is tied.
Standing(p, position) == 2 * (p - 1) + SeatStandings[Validated(p), poolOrder[p]][position]

TiedTeams(p) == {2 * (p - 1) + t : t \in TiedSeats[Validated(p), poolOrder[p]]}

\* getStandings' isComplete: every match has a validated score.
Complete(p) == p \in valid


\* A position is withheld until the pool is complete and the tie over it settled.
Qualified(p, position) ==
    IF Complete(p) /\ Standing(p, position) \notin TiedTeams(p) THEN Standing(p, position)
    ELSE NoTeam

\* What is read of a pool's standings: the team at each position, or none.
Reading(p) == <<Qualified(p, 1), Qualified(p, 2)>>

Unread == <<>>

\* Direct slots by position, then by pool.
DirectSlots(b, seen) ==
    FlattenSeq([position \in 1 .. 2 |->
        IF position \in Positions[b] THEN [p \in Pools |-> seen[p][position]] ELSE <<>>])

AllComplete == \A p \in Pools : Complete(p)

Candidate(b, p) == Standing(p, BestPosition[b])

\* The pools whose candidate was picked by hand.
PickedPools(b) ==
    LET current == SelectSeq(bestOrder[b], LAMBDA t : t = Candidate(b, (t + 1) \div 2))
    IN [i \in DOMAIN current |-> (current[i] + 1) \div 2]

BestTies(b) ==
    IF AllComplete THEN {Candidate(b, p) : p \in TiedPools[score, BestPosition[b], PickedPools(b)]}
    ELSE {}

\* resolveSlots: rankings are only made of complete pools, ties withheld.
BestSlots(b) ==
    [i \in 1 .. BestCount[b] |->
        IF ~AllComplete THEN NoTeam
        ELSE LET t == Candidate(b, BestPools[score, BestPosition[b], PickedPools(b)][i])
             IN IF t \in BestTies(b) THEN NoTeam ELSE t]

Slots(b, seen) == DirectSlots(b, seen) \o BestSlots(b)

\* The slots as the standings are now.
CurrentSlots(b) == Slots(b, [p \in Pools |-> Reading(p)])

\* Round 1 pairs slot i with slot n + 1 - i (seedOrder); a match is named by its
\* better seed.
Opponent(b, i) == Len(seeds[b]) + 1 - i

Pending(b) ==
    {i \in 1 .. Len(seeds[b]) \div 2 : NoTeam \in {seeds[b][i], seeds[b][Opponent(b, i)]}}

(***************************************************************************)
(* Requests in flight                                                      *)
(***************************************************************************)
Steps == {"idle",
          "mark",                                       \* validateScore
          "pickInPool", "pickAcross",                   \* setManualTieBreakChoice
          "complete", "pending",                        \* tryResolveFirstRound
          "count",                                      \* generateMatches
          "readPool", "readBest", "seed", "create"}     \* slots, and their use

\* team, order: the pick, and the picks read; brackets: what is left to do; plan: the
\* slots read for each; pools: those tryResolveFirstRound is still to be called for.
NoPlan == [b \in Brackets |-> <<>>]

Idle == [op |-> "none", step |-> "idle", pool |-> 0, pools |-> <<>>, brackets |-> {},
         bracket |-> {}, seen |-> [p \in Pools |-> Unread], matches |-> {},
         plan |-> NoPlan, targets |-> {}, team |-> NoTeam, order |-> <<>>]

Init ==
    /\ score \in [Pools -> InitialScores]
    /\ valid = {}
    /\ forfeited = {}
    /\ poolOrder = [p \in Pools |-> <<>>]
    /\ bestOrder = [b \in Brackets |-> <<>>]
    /\ seeds = [b \in Brackets |-> <<>>]
    /\ generations = [b \in Brackets |-> 0]
    /\ req = [r \in Requests |-> Idle]
    /\ calls = MaxCalls
    /\ failures = 0

Spend(op) == op \in Operations /\ calls > 0 /\ calls' = calls - 1

\* A call of one step is served by a free slot.
Serve(op) ==
    /\ Spend(op)
    /\ \E r \in Requests : req[r] = Idle
    /\ UNCHANGED <<req, failures>>

Accept(r, op, state) ==
    /\ Spend(op)
    /\ req[r] = Idle
    /\ req' = [req EXCEPT ![r] = state]
    /\ UNCHANGED failures

Goto(r, step) == req' = [req EXCEPT ![r].step = step]

Finish(r) == req' = [req EXCEPT ![r] = Idle]

NoWrites == UNCHANGED <<scoreVars, ruleVars, bracketVars, calls, failures>>

\* tryResolveFirstRound for each of some pools in turn.
Resolving(op, pools) ==
    [Idle EXCEPT !.op = op, !.step = "complete", !.pools = pools]

(***************************************************************************)
(* ScoresService, on the match of pool p.                                  *)
(***************************************************************************)
\* upsertScore; correcting a validated score is the "correct" operation.
UpsertScore(p, s) ==
    /\ Serve(IF p \in valid THEN "correct" ELSE "enter")
    /\ p \notin forfeited
    /\ score' = [score EXCEPT ![p] = s]
    /\ valid' = valid \ {p}
    /\ UNCHANGED <<forfeited, ruleVars, bracketVars>>

\* Mutant: the validation stays.
ClearScoreOnly(p) ==
    /\ Serve("correct")
    /\ score[p] # NoScore
    /\ score' = [score EXCEPT ![p] = NoScore]
    /\ UNCHANGED <<valid, forfeited, ruleVars, bracketVars>>

ClearScore(p) ==
    /\ Serve("correct")
    /\ score[p] # NoScore
    /\ score' = [score EXCEPT ![p] = NoScore]
    /\ valid' = valid \ {p}
    /\ UNCHANGED <<forfeited, ruleVars, bracketVars>>

StartValidateScore(r, p) ==
    /\ score[p] # NoScore
    /\ Accept(r, "validate", [Idle EXCEPT !.op = "validate", !.step = "mark", !.pool = p])
    /\ UNCHANGED <<scoreVars, ruleVars, bracketVars>>

\* The update throws when the score was deleted since.
MarkValidated(r) ==
    /\ req[r].step = "mark"
    /\ IF score[req[r].pool] = NoScore
       THEN Finish(r) /\ UNCHANGED valid
       ELSE /\ valid' = valid \cup {req[r].pool}
            /\ req' = [req EXCEPT ![r] = Resolving("validate", <<req[r].pool>>)]
    /\ UNCHANGED <<score, forfeited, ruleVars, bracketVars, calls, failures>>

DeclareForfeit(r, p) ==
    /\ Accept(r, "forfeit", Resolving("forfeit", <<p>>))
    /\ score' = [score EXCEPT ![p] = NoScore]
    /\ valid' = valid \ {p}
    /\ forfeited' = forfeited \cup {p}
    /\ UNCHANGED <<ruleVars, bracketVars>>

UndoForfeit(p) ==
    /\ Serve("forfeit")
    /\ p \in forfeited
    /\ forfeited' = forfeited \ {p}
    /\ UNCHANGED <<score, valid, ruleVars, bracketVars>>

(***************************************************************************)
(* Ties settled by hand; each pick is followed by a resolution.            *)
(***************************************************************************)
\* setManualTieBreakChoice of a pool: the order picked so far is read with the rule.
PickInPool(r, p) == \E t \in TiedTeams(p) :
    /\ Accept(r, "pick", [Idle EXCEPT !.op = "pick", !.step = "pickInPool", !.pool = p,
                                      !.team = t - 2 * (p - 1), !.order = poolOrder[p]])
    /\ UNCHANGED <<scoreVars, ruleVars, bracketVars>>

\* The same of a cross-group rule.
PickAcrossPools(r, b) == \E t \in BestTies(b) :
    /\ Accept(r, "pick", [Idle EXCEPT !.op = "pick", !.step = "pickAcross", !.bracket = {b},
                                      !.team = t, !.order = bestOrder[b]])
    /\ UNCHANGED <<scoreVars, ruleVars, bracketVars>>

\* The order read, and the team at its end unless it was picked already.
WithPick(r) ==
    IF req[r].team \in ToSet(req[r].order) THEN req[r].order
    ELSE Append(req[r].order, req[r].team)

\* The order is written whole, whatever it has become since; nothing is written for
\* a team picked already.
WritePickInPool(r) ==
    /\ req[r].step = "pickInPool"
    /\ LET p == req[r].pool IN
          /\ poolOrder' = IF WithPick(r) = req[r].order THEN poolOrder
                          ELSE [poolOrder EXCEPT ![p] = WithPick(r)]
          /\ req' = [req EXCEPT ![r] = Resolving("pick", <<p>>)]
    /\ UNCHANGED <<scoreVars, bestOrder, bracketVars, calls, failures>>

\* Every pool of the phase is then looked at, by name.
WritePickAcross(r) ==
    /\ req[r].step = "pickAcross"
    /\ bestOrder' = IF WithPick(r) = req[r].order THEN bestOrder
                    ELSE [b \in Brackets |-> IF b \in req[r].bracket THEN WithPick(r)
                                             ELSE bestOrder[b]]
    /\ req' = [req EXCEPT ![r] = Resolving("pick", [p \in Pools |-> p])]
    /\ UNCHANGED <<scoreVars, poolOrder, bracketVars, calls, failures>>

ClearPicks ==
    /\ Serve("pick")
    /\ \/ \E p \in Pools : poolOrder[p] # <<>>
                           /\ poolOrder' = [poolOrder EXCEPT ![p] = <<>>] /\ UNCHANGED bestOrder
       \/ \E b \in Brackets : bestOrder[b] # <<>>
                              /\ bestOrder' = [bestOrder EXCEPT ![b] = <<>>] /\ UNCHANGED poolOrder
    /\ UNCHANGED <<scoreVars, bracketVars>>

(***************************************************************************)
(* generateMatches (one bracket) and generateAllMatches (all of them): for *)
(* each, the matches are counted and the slots read; one transaction then  *)
(* creates everything.                                                     *)
(***************************************************************************)
StartGenerate(r) == \E targets \in {{b} : b \in Brackets} \cup {Brackets} :
    /\ Accept(r, "generate", [Idle EXCEPT !.op = "generate", !.step = "count",
                                          !.brackets = targets, !.targets = targets])
    /\ UNCHANGED <<scoreVars, ruleVars, bracketVars>>

Read(r, b) ==
    req' = [req EXCEPT ![r].step = "readPool", ![r].bracket = {b},
                       ![r].seen = Idle.seen]

\* Mutant: the matches are not counted.
DoNotCount(r) ==
    /\ req[r].step = "count"
    /\ IF req[r].brackets = {} THEN Goto(r, "create") ELSE \E b \in req[r].brackets : Read(r, b)
    /\ NoWrites

Count(r) ==
    /\ req[r].step = "count"
    /\ IF req[r].brackets = {} THEN Goto(r, "create")
       ELSE \E b \in req[r].brackets : IF seeds[b] # <<>> THEN Finish(r) ELSE Read(r, b)
    /\ NoWrites

\* One pool's standings, in the order of the names.
ReadPool(r) ==
    /\ req[r].step = "readPool"
    /\ \E b \in req[r].bracket :
          LET unread == {p \in Pools : Positions[b] # {} /\ req[r].seen[p] = Unread} IN
          IF unread = {} THEN Goto(r, "readBest")
          ELSE \E p \in unread :
                  /\ \A q \in unread : p <= q
                  /\ req' = [req EXCEPT ![r].seen[p] = Reading(p)]
    /\ NoWrites

Known(slots) == \A i \in DOMAIN slots : slots[i] # NoTeam

\* The cross-group rule reads every pool at once; a resolution goes on only
\* when every slot of the bracket has its team.
ReadBest(r) ==
    /\ req[r].step = "readBest"
    /\ \E b \in req[r].bracket : LET slots == Slots(b, req[r].seen) IN
          req' = [req EXCEPT ![r].plan[b] = slots,
                             ![r].brackets = @ \ {b},
                             ![r].step = CASE req[r].op = "generate" -> "count"
                                           [] req[r].op # "generate" /\ Known(slots) -> "seed"
                                           [] OTHER -> "pending"]
    /\ NoWrites

Create(r) ==
    /\ req[r].step = "create"
    /\ seeds' = [b \in Brackets |-> IF b \in req[r].targets THEN req[r].plan[b] ELSE seeds[b]]
    /\ generations' = [b \in Brackets |->
                          IF b \in req[r].targets THEN generations[b] + 1 ELSE generations[b]]
    /\ Finish(r)
    /\ UNCHANGED <<scoreVars, ruleVars, calls, failures>>

(***************************************************************************)
(* tryResolveFirstRound                                                    *)
(***************************************************************************)
\* Mutant: only the brackets with a direct rule are looked at.
CheckDirectOnly(r) ==
    /\ req[r].step = "complete"
    /\ CASE req[r].pools = <<>> -> Finish(r)
         [] req[r].pools # <<>> /\ Complete(Head(req[r].pools)) ->
               req' = [req EXCEPT ![r].step = "pending", ![r].pools = Tail(@),
                                  ![r].brackets = {b \in Brackets : Positions[b] # {}}]
         [] OTHER -> req' = [req EXCEPT ![r].pools = Tail(@)]
    /\ NoWrites

CheckComplete(r) ==
    /\ req[r].step = "complete"
    /\ CASE req[r].pools = <<>> -> Finish(r)
         [] req[r].pools # <<>> /\ Complete(Head(req[r].pools)) ->
               req' = [req EXCEPT ![r].step = "pending", ![r].pools = Tail(@),
                                  ![r].brackets = Brackets]
         [] OTHER -> req' = [req EXCEPT ![r].pools = Tail(@)]
    /\ NoWrites

FindPending(r) ==
    /\ req[r].step = "pending"
    /\ IF req[r].brackets = {} THEN Goto(r, "complete")
       ELSE \E b \in req[r].brackets :
               IF Pending(b) = {} THEN req' = [req EXCEPT ![r].brackets = @ \ {b}]
               ELSE req' = [req EXCEPT ![r].step = "readPool", ![r].bracket = {b},
                                       ![r].seen = Idle.seen, ![r].matches = Pending(b)]
    /\ NoWrites

\* Mutant: the two sides of a match are swapped.
SeedMatchSwapped(r) ==
    /\ req[r].step = "seed"
    /\ \E b \in req[r].bracket :
          IF req[r].matches = {} THEN Goto(r, "pending") /\ UNCHANGED seeds
          ELSE \E i \in req[r].matches :
                  LET j == Opponent(b, i) IN
                  /\ seeds' = [seeds EXCEPT ![b][i] = req[r].plan[b][j],
                                            ![b][j] = req[r].plan[b][i]]
                  /\ req' = [req EXCEPT ![r].matches = @ \ {i}]
    /\ UNCHANGED <<scoreVars, ruleVars, generations, calls, failures>>

\* One update per match, both teams at once, whatever the match holds by now.
SeedMatch(r) ==
    /\ req[r].step = "seed"
    /\ \E b \in req[r].bracket :
          IF req[r].matches = {} THEN Goto(r, "pending") /\ UNCHANGED seeds
          ELSE \E i \in req[r].matches :
                  LET j == Opponent(b, i) IN
                  /\ seeds' = [seeds EXCEPT ![b][i] = req[r].plan[b][i],
                                            ![b][j] = req[r].plan[b][j]]
                  /\ req' = [req EXCEPT ![r].matches = @ \ {i}]
    /\ UNCHANGED <<scoreVars, ruleVars, generations, calls, failures>>

\* A request is lost between two of its steps.
Fail(r) ==
    /\ req[r] # Idle
    /\ failures < MaxFailures
    /\ failures' = failures + 1
    /\ Finish(r)
    /\ UNCHANGED <<scoreVars, ruleVars, bracketVars, calls>>

Start(r) ==
    \/ \E p \in Pools : StartValidateScore(r, p) \/ DeclareForfeit(r, p) \/ PickInPool(r, p)
    \/ \E b \in Brackets : PickAcrossPools(r, b)
    \/ StartGenerate(r)

Proceed(r) ==
    \/ MarkValidated(r) \/ WritePickInPool(r) \/ WritePickAcross(r) \/ Count(r) \/ ReadPool(r)
    \/ ReadBest(r) \/ Create(r)
    \/ CheckComplete(r) \/ FindPending(r) \/ SeedMatch(r)

Next ==
    \/ \E r \in Requests : Start(r) \/ Proceed(r) \/ Fail(r)
    \/ \E p \in Pools : ClearScore(p) \/ UndoForfeit(p) \/ \E s \in Scores : UpsertScore(p, s)
    \/ ClearPicks

Spec == Init /\ [][Next]_vars

--------------------------------------------------------------------------------
(***************************************************************************)
(* Properties                                                              *)
(***************************************************************************)
\* The columns hold values of their types; a generated bracket has its size.
TypeOK ==
    /\ score \in [Pools -> Scores \cup {NoScore}]
    /\ valid \subseteq {p \in Pools : score[p] # NoScore}
    /\ forfeited \subseteq Pools \ valid
    /\ \A b \in Brackets :
          /\ seeds[b] \in Seq(Teams \cup {NoTeam})
          /\ Len(seeds[b]) \in {0, Cardinality(Positions[b]) * PoolCount + BestCount[b]}
    /\ \A r \in Requests : req[r].step \in Steps

\* brackets.service.ts:665 "A slot never appears with the wrong team": whoever is
\* written into the first round holds the slot by the standings of that moment.
SlotsAreQualified ==
    [][\A b \in Brackets : seeds'[b] # seeds[b] =>
           LET now == CurrentSlots(b) IN
           \A i \in DOMAIN seeds'[b] :
               (seeds[b] # <<>> /\ seeds'[b][i] = seeds[b][i]) \/ seeds'[b][i] \in {NoTeam, now[i]}]_vars

\* brackets.service.ts:665 "A slot never appears with the wrong team": no team is seeded
\* twice, in one bracket or in two.  The cross-group slots withhold the ties across the
\* pools only, the direct slots those of their pool.
NoTeamTwice ==
    \A b, c \in Brackets : \A i \in DOMAIN seeds[b], j \in DOMAIN seeds[c] :
        (<<b, i>> # <<c, j>> /\ seeds[b][i] # NoTeam) => seeds[b][i] # seeds[c][j]

\* brackets.service.ts:75 "Les matchs de ce tableau ont déjà été générés.": the
\* matches of a bracket are generated once.
OneGeneration == \A b \in Brackets : generations[b] <= 1

Filled(b) == seeds[b] # <<>> /\ Known(seeds[b])

\* No request is in flight, and none was lost.
AtRest == failures = 0 /\ \A r \in Requests : req[r] = Idle

\* brackets.service.ts:561 "fills them in for real once *every* feeding pool is
\* complete": when every request is answered, a generated bracket whose pools are
\* complete and whose ties are settled has its first round.
FirstRoundResolved ==
    AtRest => \A b \in Brackets : (seeds[b] # <<>> /\ Known(CurrentSlots(b))) => Filled(b)

\* brackets.service.ts:557 "Called after a pool match's score is validated or it's
\* forfeited": when every request is answered, a generated bracket whose pool
\* matches are all decided, with no tie left, has its first round.
DecidedPoolsResolve ==
    (AtRest /\ valid \cup forfeited = Pools /\ \A p \in valid : TiedTeams(p) = {}) =>
        \A b \in Brackets : seeds[b] # <<>> => Filled(b)
================================================================================
