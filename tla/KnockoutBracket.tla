---------------------------- MODULE KnockoutBracket ----------------------------
(***************************************************************************)
(* One knockout bracket of a tournament: its matches, the score handlers   *)
(* the organisers call on them (ScoresService) and the automatic seeding   *)
(* of the following round (BracketsService.tryAdvanceRound) or of round 1  *)
(* (tryResolveFirstRound).  The API holds no lock and opens no transaction *)
(* around these reads and writes, so a handler is a sequence of steps, one *)
(* per awaited query, and the handlers of concurrent requests interleave   *)
(* between any two of them.                                                *)
(*                                                                         *)
(* A team is named by the leaf the seeding order puts it on: leaf 2s and   *)
(* leaf 2s+1 meet in slot s of round 1.                                    *)
(***************************************************************************)
EXTENDS Integers

CONSTANTS
    Rounds,       \* log2 of the bracket's size
    Width,        \* Width[r]: matches created for round r; Width[0]: the leaves
    HasRanking,   \* the bracket has a third-place match
    Known,        \* leaves whose pool was complete when round 1 was generated
    Requests,     \* the requests the API serves concurrently
    Operations,   \* the calls organisers make
    MaxCalls,     \* bound: calls in one behaviour
    MaxFailures,  \* bound: requests lost half-way (failed query, process killed)
    None          \* SQL NULL

ASSUME BracketShape ==
    /\ Rounds \in Nat \ {0}
    /\ Width \in [0..Rounds -> Nat \ {0}]
    /\ Width[Rounds] = 1
    /\ \A r \in 1..Rounds : Width[r - 1] = 2 * Width[r]
    /\ \A r \in 1..Rounds : Width[r] <= Width[1]   \* a consequence, by induction
    /\ HasRanking \in BOOLEAN

ASSUME KnownLeaves == Known \subseteq Nat

ASSUME NoneIsNotATeam == None \notin Nat

ASSUME Bounds == MaxCalls \in Nat /\ MaxFailures \in Nat

VARIABLES
    home,        \* Match.homeTeamId
    away,        \* Match.awayTeamId
    status,      \* Match.status
    score,       \* the MatchScore row of each match
    forfeited,   \* Match.forfeitedTeamId
    played,      \* TeamRating.matchesPlayed of each team
    req,         \* what each request in flight does next, and what it has read
    calls,       \* calls still to come
    failures     \* requests lost so far

dbVars == <<home, away, status, score, forfeited, played>>
vars == <<home, away, status, score, forfeited, played, req, calls, failures>>

(***************************************************************************)
(* The bracket's shape                                                     *)
(***************************************************************************)
Slots == 0 .. (Width[1] - 1)

Team == 0 .. (Width[0] - 1)

TeamOrNone == Team \cup {None}

Match == {m \in [round : 1..Rounds, slot : Slots, third : BOOLEAN] :
             /\ m.slot < Width[m.round]
             /\ m.third => HasRanking /\ m.round = Rounds}

Main(r, s) == [round |-> r, slot |-> s, third |-> FALSE]

Final == Main(Rounds, 0)

ThirdPlace == [round |-> Rounds, slot |-> 0, third |-> TRUE]

\* The matches whose outcomes fill the home and the away side of m.
HomeFeeder(m) == Main(m.round - 1, 2 * m.slot)
AwayFeeder(m) == Main(m.round - 1, 2 * m.slot + 1)

(***************************************************************************)
(* Scores and outcomes.  Goals and shootouts are abstracted to the side    *)
(* they designate; "DRAW" is a level score no shootout decides.            *)
(***************************************************************************)
Results == {"HOME", "AWAY", "DRAW"}

NoScore == [result |-> "NONE", validated |-> FALSE]

Score == [result : Results \cup {"NONE"}, validated : BOOLEAN]

Statuses == {"SCHEDULED", "LIVE", "COMPLETED", "FORFEITED"}

Winner(m) ==
    IF status[m] = "FORFEITED"
    THEN CASE forfeited[m] = home[m] -> away[m]
           [] forfeited[m] # home[m] /\ forfeited[m] = away[m] -> home[m]
           [] OTHER -> None
    ELSE IF ~score[m].validated THEN None
    ELSE CASE score[m].result = "HOME" -> home[m]
           [] score[m].result = "AWAY" -> away[m]
           [] OTHER -> None

\* Mutant: the winner goes to the third-place match too.
LoserIsWinner(m) == Winner(m)

Loser(m) ==
    CASE Winner(m) = None -> None
      [] Winner(m) # None /\ Winner(m) = home[m] -> away[m]
      [] OTHER -> home[m]

(***************************************************************************)
(* Requests in flight                                                      *)
(***************************************************************************)
Steps == {"idle",
          "writeScore", "setLive",                      \* upsertScore
          "markValidated", "setCompleted",              \* validateScore
          "deleteScore", "setScheduled",                \* clearScore
          "writeForfeit", "readForfeit",                \* declareForfeit
          "undoForfeit",                                \* undoForfeit
          "readRound", "readNext", "seed", "seedThird", \* tryAdvanceRound
          "rate",                                       \* recordMatchResult
          "resolve"}                                    \* tryResolveFirstRound

NoTeams == [s \in Slots |-> None]

Idle == [step |-> "idle", match |-> Final, result |-> "NONE", team |-> None,
         win |-> NoTeams, lose |-> NoTeams, next |-> 0,
         rated |-> [home |-> None, away |-> None]]

Request == [step : Steps, match : Match, result : Results \cup {"NONE"},
            team : TeamOrNone, win : [Slots -> TeamOrNone],
            lose : [Slots -> TeamOrNone], next : Nat,
            rated : [home : TeamOrNone, away : TeamOrNone]]

\* generateMatches creates every round up front; only round 1 knows teams, and a
\* side of it only when the pool it comes from is complete.
Init ==
    /\ home = [m \in Match |->
                 IF m.round = 1 /\ ~m.third /\ 2 * m.slot \in Known
                 THEN 2 * m.slot ELSE None]
    /\ away = [m \in Match |->
                 IF m.round = 1 /\ ~m.third /\ 2 * m.slot + 1 \in Known
                 THEN 2 * m.slot + 1 ELSE None]
    /\ status = [m \in Match |-> "SCHEDULED"]
    /\ score = [m \in Match |-> NoScore]
    /\ forfeited = [m \in Match |-> None]
    /\ played = [t \in Team |-> 0]
    /\ req = [r \in Requests |-> Idle]
    /\ calls = MaxCalls
    /\ failures = 0

\* A request arrives and its handler passes its checks: op is the call, and
\* state is what the handler keeps from the reads it made.
Accept(r, op, state) ==
    /\ op \in Operations
    /\ req[r].step = "idle"
    /\ calls > 0
    /\ calls' = calls - 1
    /\ req' = [req EXCEPT ![r] = state]
    /\ UNCHANGED <<dbVars, failures>>

Goto(r, step) == req' = [req EXCEPT ![r].step = step]

Finish(r) == req' = [req EXCEPT ![r] = Idle]

(***************************************************************************)
(* ScoresService.upsertScore: read the match, write the score row as       *)
(* provisional, then put the match LIVE.                                   *)
(***************************************************************************)
StartUpsertScore(r) == \E m \in Match, result \in Results :
    /\ status[m] # "FORFEITED"
    /\ Accept(r, "upsertScore",
              [Idle EXCEPT !.step = "writeScore", !.match = m, !.result = result])

WriteScore(r) ==
    /\ req[r].step = "writeScore"
    /\ score' = [score EXCEPT ![req[r].match] =
                    [result |-> req[r].result, validated |-> FALSE]]
    /\ Goto(r, "setLive")
    /\ UNCHANGED <<home, away, status, forfeited, played, calls, failures>>

SetLive(r) ==
    /\ req[r].step = "setLive"
    /\ status' = [status EXCEPT ![req[r].match] = "LIVE"]
    /\ Finish(r)
    /\ UNCHANGED <<home, away, score, forfeited, played, calls, failures>>

(***************************************************************************)
(* ScoresService.validateScore: check the score that was read, validate    *)
(* the score row there is by then, complete the match, advance the round.  *)
(***************************************************************************)
Validatable(m) == score[m] # NoScore /\ score[m].result # "DRAW"

StartValidateScore(r) == \E m \in Match :
    /\ Validatable(m)
    /\ Accept(r, "validateScore", [Idle EXCEPT !.step = "markValidated", !.match = m])

\* The update throws when the row has been deleted since it was read.
MarkValidated(r) ==
    /\ req[r].step = "markValidated"
    /\ LET m == req[r].match IN
       \/ /\ score[m] # NoScore
          /\ score' = [score EXCEPT ![m].validated = TRUE]
          /\ Goto(r, "setCompleted")
       \/ /\ score[m] = NoScore
          /\ Finish(r)
          /\ UNCHANGED score
    /\ UNCHANGED <<home, away, status, forfeited, played, calls, failures>>

\* The updated row, with both teams, is what the ratings will be fed.
SetCompleted(r) ==
    /\ req[r].step = "setCompleted"
    /\ LET m == req[r].match IN
       /\ status' = [status EXCEPT ![m] = "COMPLETED"]
       /\ req' = [req EXCEPT ![r].step = "readRound",
                             ![r].rated = [home |-> home[m], away |-> away[m]]]
    /\ UNCHANGED <<home, away, score, forfeited, played, calls, failures>>

(***************************************************************************)
(* ScoresService.clearScore                                                *)
(***************************************************************************)
StartClearScore(r) == \E m \in Match :
    /\ score[m] # NoScore
    /\ Accept(r, "clearScore", [Idle EXCEPT !.step = "deleteScore", !.match = m])

\* The delete throws when another request has deleted the row first.
DeleteScore(r) ==
    /\ req[r].step = "deleteScore"
    /\ IF score[req[r].match] # NoScore THEN Goto(r, "setScheduled") ELSE Finish(r)
    /\ score' = [score EXCEPT ![req[r].match] = NoScore]
    /\ UNCHANGED <<home, away, status, forfeited, played, calls, failures>>

\* Mutant: clearing a score leaves the match's status alone.
SetScheduledForgotten(r) ==
    /\ req[r].step = "setScheduled"
    /\ Finish(r)
    /\ UNCHANGED <<home, away, status, score, forfeited, played, calls, failures>>

SetScheduled(r) ==
    /\ req[r].step = "setScheduled"
    /\ status' = [status EXCEPT ![req[r].match] = "SCHEDULED"]
    /\ Finish(r)
    /\ UNCHANGED <<home, away, score, forfeited, played, calls, failures>>

(***************************************************************************)
(* ScoresService.declareForfeit and undoForfeit                            *)
(***************************************************************************)
StartDeclareForfeit(r) == \E m \in Match : \E t \in {home[m], away[m]} \ {None} :
    Accept(r, "declareForfeit",
           [Idle EXCEPT !.step = "writeForfeit", !.match = m, !.team = t])

\* One transaction: delete the score, forfeit the match.
WriteForfeit(r) ==
    /\ req[r].step = "writeForfeit"
    /\ LET m == req[r].match IN
       /\ score' = [score EXCEPT ![m] = NoScore]
       /\ status' = [status EXCEPT ![m] = "FORFEITED"]
       /\ forfeited' = [forfeited EXCEPT ![m] = req[r].team]
    /\ Goto(r, "readForfeit")
    /\ UNCHANGED <<home, away, played, calls, failures>>

ReadForfeit(r) ==
    /\ req[r].step = "readForfeit"
    /\ LET m == req[r].match IN
       req' = [req EXCEPT ![r].step = "readRound",
                          ![r].rated = [home |-> home[m], away |-> away[m]]]
    /\ UNCHANGED <<dbVars, calls, failures>>

StartUndoForfeit(r) == \E m \in Match :
    /\ status[m] = "FORFEITED"
    /\ Accept(r, "undoForfeit", [Idle EXCEPT !.step = "undoForfeit", !.match = m])

\* Mutant: the status is nulled along with the forfeiting team.
UndoForfeitNulled(r) ==
    /\ req[r].step = "undoForfeit"
    /\ status' = [status EXCEPT ![req[r].match] = None]
    /\ forfeited' = [forfeited EXCEPT ![req[r].match] = None]
    /\ Finish(r)
    /\ UNCHANGED <<home, away, score, played, calls, failures>>

UndoForfeit(r) ==
    /\ req[r].step = "undoForfeit"
    /\ status' = [status EXCEPT ![req[r].match] = "SCHEDULED"]
    /\ forfeited' = [forfeited EXCEPT ![req[r].match] = None]
    /\ Finish(r)
    /\ UNCHANGED <<home, away, score, played, calls, failures>>

(***************************************************************************)
(* BracketsService.tryAdvanceRound, reached from validateScore and         *)
(* declareForfeit with the round of the match they decided.                *)
(***************************************************************************)
RoundSlots(r) == 0 .. (Width[r] - 1)

\* Mutant: one decided match is enough to seed the next round.
RoundPartlyDecided(r) == \E s \in RoundSlots(r) : Winner(Main(r, s)) # None

RoundDecided(r) == \A s \in RoundSlots(r) : Winner(Main(r, s)) # None

\* Mutant: the next round's matches are not looked at.
RoundNotChecked(r) == r \in Nat

Untouched(m) == home[m] = None /\ away[m] = None

\* Mutant: the check looks at the decided round instead of the next one.
DecidedRoundUntouched(r) == \A m \in Match : m.round = r - 1 => Untouched(m)

RoundUntouched(r) == \A m \in Match : m.round = r => Untouched(m)

\* Mutant: both sides of a pair are taken from its first match.
PairedWinners(n) ==
    [s \in Slots |-> IF s < Width[n] THEN Winner(Main(n, 2 * (s \div 2))) ELSE None]

\* The outcomes in slot order: entries 2s and 2s+1 meet in slot s of the next round.
Winners(n) == [s \in Slots |-> IF s < Width[n] THEN Winner(Main(n, s)) ELSE None]

Losers(n) == [s \in Slots |-> IF s < Width[n] THEN Loser(Main(n, s)) ELSE None]

\* The round's matches are read at once; the winners are kept in the handler.
\* The final and the third-place match have no round after theirs.
ReadRound(r) ==
    /\ req[r].step = "readRound"
    /\ LET n == req[r].match.round IN
       \/ /\ n < Rounds
          /\ RoundDecided(n)
          /\ req' = [req EXCEPT
                ![r].step = "readNext",
                ![r].win  = Winners(n),
                ![r].lose = Losers(n)]
       \/ /\ n >= Rounds \/ ~RoundDecided(n)
          /\ Goto(r, "rate")
    /\ UNCHANGED <<dbVars, calls, failures>>

\* "Already advanced" means any match of the next round has a team.
ReadNextRound(r) ==
    /\ req[r].step = "readNext"
    /\ IF RoundUntouched(req[r].match.round + 1) THEN Goto(r, "seed") ELSE Goto(r, "rate")
    /\ UNCHANGED <<dbVars, calls, failures>>

\* One update per match of the next round, in slot order.  The third-place
\* match of the final round follows the final.
SeedMatch(r) ==
    /\ req[r].step = "seed"
    /\ LET n == req[r].match.round + 1
           s == req[r].next
       IN /\ home' = [home EXCEPT ![Main(n, s)] = req[r].win[2 * s]]
          /\ away' = [away EXCEPT ![Main(n, s)] = req[r].win[2 * s + 1]]
          /\ \/ /\ n = Rounds /\ HasRanking
                /\ Goto(r, "seedThird")
             \/ /\ ~(n = Rounds /\ HasRanking)
                /\ s + 1 < Width[n]
                /\ req' = [req EXCEPT ![r].next = s + 1]
             \/ /\ ~(n = Rounds /\ HasRanking)
                /\ s + 1 >= Width[n]
                /\ Goto(r, "rate")
    /\ UNCHANGED <<status, score, forfeited, played, calls, failures>>

SeedThirdPlace(r) ==
    /\ req[r].step = "seedThird"
    /\ home' = [home EXCEPT ![ThirdPlace] = req[r].lose[0]]
    /\ away' = [away EXCEPT ![ThirdPlace] = req[r].lose[1]]
    /\ Goto(r, "rate")
    /\ UNCHANGED <<status, score, forfeited, played, calls, failures>>

\* RatingsService.recordMatchResult on the row read when the match was decided:
\* it counts one more match for both teams (the Glicko-2 values are abstracted)
\* and does nothing when a side was still unknown.
Rate(r) ==
    /\ req[r].step = "rate"
    /\ LET sides == req[r].rated IN
       played' = IF sides.home # None /\ sides.away # None
                 THEN [t \in Team |-> IF t \in {sides.home, sides.away}
                                      THEN played[t] + 1 ELSE played[t]]
                 ELSE played
    /\ Finish(r)
    /\ UNCHANGED <<home, away, status, score, forfeited, calls, failures>>

(***************************************************************************)
(* BracketsService.tryResolveFirstRound, reached when a pool match or a    *)
(* tie-break choice leaves every pool feeding the bracket complete.  The   *)
(* pools are outside this module: once complete they keep naming the same  *)
(* teams, those of the leaves.  The pending matches are read at once (kept *)
(* in win), then updated one by one in slot order from next on.            *)
(***************************************************************************)
Pending(s) == home[Main(1, s)] = None \/ away[Main(1, s)] = None

StartResolve(r) ==
    /\ \E s \in Slots : Pending(s)
    /\ Accept(r, "resolve",
              [Idle EXCEPT !.step = "resolve",
                           !.win = [s \in Slots |-> IF Pending(s) THEN s ELSE None]])

ResolveMatch(r) ==
    /\ req[r].step = "resolve"
    /\ LET s == req[r].next IN
       /\ IF req[r].win[s] # None
          THEN /\ home' = [home EXCEPT ![Main(1, s)] = 2 * s]
               /\ away' = [away EXCEPT ![Main(1, s)] = 2 * s + 1]
          ELSE UNCHANGED <<home, away>>
       /\ IF s + 1 < Width[1]
          THEN req' = [req EXCEPT ![r].next = s + 1]
          ELSE Finish(r)
    /\ UNCHANGED <<status, score, forfeited, played, calls, failures>>

(***************************************************************************)
(* A request is lost between two of its queries: a query fails or times    *)
(* out, or the process is stopped.  Nothing is rolled back and no job      *)
(* picks the handler up again.                                             *)
(***************************************************************************)
Fail(r) ==
    /\ req[r].step # "idle"
    /\ failures < MaxFailures
    /\ failures' = failures + 1
    /\ Finish(r)
    /\ UNCHANGED <<dbVars, calls>>

Start(r) ==
    \/ StartUpsertScore(r)
    \/ StartValidateScore(r)
    \/ StartClearScore(r)
    \/ StartDeclareForfeit(r)
    \/ StartUndoForfeit(r)
    \/ StartResolve(r)

Proceed(r) ==
    \/ WriteScore(r) \/ SetLive(r)
    \/ MarkValidated(r) \/ SetCompleted(r)
    \/ DeleteScore(r) \/ SetScheduled(r)
    \/ WriteForfeit(r) \/ ReadForfeit(r)
    \/ UndoForfeit(r)
    \/ ReadRound(r) \/ ReadNextRound(r) \/ SeedMatch(r) \/ SeedThirdPlace(r)
    \/ Rate(r)
    \/ ResolveMatch(r)

Next == \E r \in Requests : Start(r) \/ Proceed(r) \/ Fail(r)

Spec == Init /\ [][Next]_vars

\* An accepted request that is not lost runs to its end: the event loop resumes
\* a handler after each of its queries.
Fairness == \A r \in Requests : WF_vars(Proceed(r))

FairSpec == Spec /\ Fairness

--------------------------------------------------------------------------------
(***************************************************************************)
(* Properties                                                              *)
(***************************************************************************)
\* The columns and the handlers' locals hold values of their types.
TypeOK ==
    /\ home \in [Match -> TeamOrNone]
    /\ away \in [Match -> TeamOrNone]
    /\ status \in [Match -> Statuses]
    /\ score \in [Match -> Score]
    /\ forfeited \in [Match -> TeamOrNone]
    /\ played \in [Team -> Nat]
    /\ req \in [Requests -> Request]
    /\ calls \in Nat
    /\ failures \in Nat

Sides(m) == {home[m], away[m]} \ {None}

\* However the handlers of concurrent requests interleave, fail and correct
\* scores (scores.service.ts, brackets.service.ts), no team ever plays itself
\* nor stands in two matches of one round.  (The third-place match is outside
\* the tree of rounds.)
OneMatchPerRound ==
    /\ \A m \in Match : home[m] # None => home[m] # away[m]
    /\ \A m, n \in Match :
          (m.round = n.round /\ ~m.third /\ ~n.third /\ m # n) => Sides(m) \cap Sides(n) = {}

\* A match of round 2 or later always learns its two teams together, and a round
\* is only seeded once every match of the round before it knows a team
\* (tryAdvanceRound; round 1 may have been generated with one side unknown).
RoundsFillInOrder ==
    /\ \A m \in Match : m.round > 1 /\ ~m.third => (home[m] = None <=> away[m] = None)
    /\ \A m, n \in Match :
          (n.round = m.round + 1 /\ ~m.third /\ ~Untouched(n)) => ~Untouched(m)

(***************************************************************************)
(* The inductive invariant behind the two properties above.                *)
(***************************************************************************)
\* The slot of round r through which the path of leaf t to the final passes.
Place(t, r) == (t * Width[r]) \div Width[0]

Seeding == {"readNext", "seed", "seedThird"}

\* What a handler that is seeding a round remembers of the round before: it is
\* complete in the handler's memory, and every known outcome is on its own path.
HandlerInv(r) ==
    LET n == req[r].match.round IN
    /\ req[r].step \in Seeding =>
          /\ n < Rounds
          /\ \A s \in RoundSlots(n) :
                /\ req[r].win[s] \in Team /\ Place(req[r].win[s], n) = s
                /\ req[r].lose[s] # None => Place(req[r].lose[s], n) = s
                /\ ~Untouched(Main(n, s))
    /\ req[r].step \in {"markValidated", "setCompleted", "writeForfeit",
                         "readForfeit", "readRound", "readNext"} => req[r].next = 0
    /\ req[r].step = "seed" => req[r].next < Width[n + 1]
    /\ req[r].step = "seedThird" => HasRanking /\ n + 1 = Rounds
    /\ req[r].step = "resolve" => req[r].next < Width[1]

HandlersInv == \A r \in Requests : HandlerInv(r)

\* A team only stands on the path from its leaf to the final.
PathInv ==
    \A m \in Match :
        /\ home[m] # None => Place(home[m], m.round - 1) = 2 * m.slot
        /\ away[m] # None => Place(away[m], m.round - 1) = 2 * m.slot + 1

BracketInv == TypeOK /\ HandlersInv /\ PathInv /\ RoundsFillInOrder

Quiet == \A r \in Requests : req[r].step = "idle"

\* When no request is in flight, a match's status, score row and forfeit agree.
StatusAgreesWithScore ==
    Quiet => \A m \in Match :
        /\ status[m] = "SCHEDULED" => score[m] = NoScore
        /\ status[m] = "LIVE" => score[m] # NoScore /\ ~score[m].validated
        /\ status[m] = "COMPLETED" => score[m].validated /\ score[m].result # "DRAW"
        /\ status[m] = "FORFEITED" => score[m] = NoScore /\ forfeited[m] \in Sides(m)
        /\ (forfeited[m] # None) <=> (status[m] = "FORFEITED")

\* No team plays both the final and the third-place match.
FinalistsNotInThirdPlace ==
    HasRanking => Sides(Final) \cap Sides(ThirdPlace) = {}

\* brackets.service.ts:492 "must be a no-op on repeat calls once it's already
\* filled these in": a place given to a team is not given to another one.
PlacesAreKept ==
    [][\A m \in Match : /\ home[m] # None => home'[m] = home[m]
                        /\ away[m] # None => away'[m] = away[m]]_<<home, away>>

\* A place of round 2 or later goes to the winner of the match that feeds it at
\* that moment, and a place of the third-place match to the loser.
SeededFromOutcomes ==
    [][\A m \in Match : m.round > 1 =>
          LET Outcome(f) == IF m.third THEN Loser(f) ELSE Winner(f) IN
          /\ home'[m] # home[m] => home'[m] = Outcome(HomeFeeder(m))
          /\ away'[m] # away[m] => away'[m] = Outcome(AwayFeeder(m))]_<<home, away>>

RoundSeeded(r) == \A m \in Match : m.round = r => home[m] # None /\ away[m] # None

\* brackets.service.ts:453 "Once every match in a round has a decided winner,
\* seeds the next round": a round that stays decided gets its next round seeded.
DecidedRoundAdvances ==
    \A r \in 1 .. (Rounds - 1) : <>[]RoundDecided(r) => <>RoundSeeded(r + 1)
================================================================================
