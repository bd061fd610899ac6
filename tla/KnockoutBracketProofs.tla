------------------------- MODULE KnockoutBracketProofs -------------------------
(***************************************************************************)
(* Proofs about KnockoutBracket, for brackets of every size, every number  *)
(* of concurrent requests, of calls and of lost handlers; and, at the end, *)
(* about the scenario of MCKnockoutBracket with one request at a time.     *)
(***************************************************************************)
EXTENDS MCKnockoutBracket, TLAPS

(***************************************************************************)
(* Arithmetic of the tree                                                  *)
(***************************************************************************)
\* The quotient is the only number whose multiple brackets the dividend.
LEMMA QuotientUnique ==
    ASSUME NEW a \in Nat, NEW d \in Nat \ {0}, NEW q \in Nat,
           q * d <= a, a < (q + 1) * d
    PROVE  a \div d = q
  OBVIOUS

\* Halving a quotient is dividing by twice as much.
LEMMA HalfQuotient ==
    ASSUME NEW a \in Nat, NEW d \in Nat \ {0}
    PROVE  ((2 * a) \div d) \div 2 = a \div d
  <1> DEFINE q == (2 * a) \div d
             p == q \div 2
  <1>1. q \in Nat /\ q * d <= 2 * a /\ 2 * a < (q + 1) * d
    OBVIOUS
  <1>2. p \in Nat /\ 2 * p <= q /\ q <= 2 * p + 1
    BY <1>1
  <1> HIDE DEF q, p
  <1>3. (2 * p) * d <= q * d /\ (q + 1) * d <= (2 * p + 2) * d
    BY <1>1, <1>2
  <1>4. p * d <= a /\ a < (p + 1) * d
    BY <1>1, <1>2, <1>3
  <1>5. a \div d = p
    BY <1>2, <1>4, QuotientUnique
  <1> QED
    BY <1>5 DEF p, q

\* On the path of a leaf, the slot of the next round is half the slot of this one.
LEMMA PlaceHalves ==
    ASSUME NEW t \in Nat, NEW r \in 1..Rounds
    PROVE  Place(t, r) = Place(t, r - 1) \div 2
  <1>1. Width[r] \in Nat \ {0} /\ Width[0] \in Nat \ {0} /\ Width[r - 1] = 2 * Width[r]
    BY BracketShape
  <1>2. t * Width[r - 1] = 2 * (t * Width[r]) /\ t * Width[r] \in Nat
    BY <1>1
  <1>3. ((2 * (t * Width[r])) \div Width[0]) \div 2 = (t * Width[r]) \div Width[0]
    BY <1>1, <1>2, HalfQuotient
  <1> QED
    BY <1>2, <1>3 DEF Place

\* A path starts at its leaf.
LEMMA PlaceOfLeaf ==
    ASSUME NEW t \in Nat
    PROVE  Place(t, 0) = t
  <1>1. Width[0] \in Nat \ {0}
    BY BracketShape
  <1>2. t * Width[0] \in Nat /\ t * Width[0] < (t + 1) * Width[0]
    BY <1>1
  <1> QED
    BY <1>1, <1>2, QuotientUnique DEF Place

(***************************************************************************)
(* Shape of the bracket                                                    *)
(***************************************************************************)
\* A round has a number of matches.
LEMMA WidthIsNat == ASSUME NEW n \in 1..Rounds PROVE Width[n] \in Nat
  BY BracketShape

\* The slots of a round are slots, and a slot of the next round has its two
\* feeders in this one.
LEMMA RoundSlotsFit ==
    /\ \A r \in 1..Rounds : RoundSlots(r) \subseteq Slots
    /\ \A r \in 1..Rounds : \A s \in RoundSlots(r) : Main(r, s) \in Match
    /\ \A r \in 1..Rounds : \A s \in Nat : s < Width[r + 1] /\ r < Rounds =>
          /\ Main(r + 1, s) \in Match
          /\ 2 * s \in RoundSlots(r) /\ 2 * s + 1 \in RoundSlots(r)
    /\ \A s \in Slots : s \in Team /\ 2 * s \in Team /\ 2 * s + 1 \in Team
    /\ Final \in Match
    /\ HasRanking => ThirdPlace \in Match
  <1>1. ASSUME NEW r \in 1..Rounds
        PROVE  RoundSlots(r) \subseteq Slots
    <2>1. Width[r] \in Nat /\ Width[1] \in Nat /\ Width[r] <= Width[1]
      BY BracketShape
    <2> QED
      BY <2>1 DEF RoundSlots, Slots
  <1>2. ASSUME NEW r \in 1..Rounds, NEW s \in RoundSlots(r)
        PROVE  Main(r, s) \in Match
    <2>1. s < Width[r]
      BY BracketShape DEF RoundSlots
    <2>2. Main(r, s) \in [round : 1..Rounds, slot : Slots, third : BOOLEAN]
      BY <1>1 DEF Main
    <2> QED
      BY <2>1, <2>2 DEF Match, Main
  <1>3. ASSUME NEW r \in 1..Rounds, NEW s \in Nat, s < Width[r + 1], r < Rounds
        PROVE  /\ Main(r + 1, s) \in Match
               /\ 2 * s \in RoundSlots(r) /\ 2 * s + 1 \in RoundSlots(r)
    <2>1. r + 1 \in 1..Rounds /\ Width[r] = 2 * Width[r + 1] /\ Width[r + 1] \in Nat
      BY <1>3, BracketShape
    <2>2. s \in RoundSlots(r + 1)
      BY <1>3, <2>1 DEF RoundSlots
    <2> QED
      BY <1>2, <1>3, <2>1, <2>2 DEF RoundSlots
  <1>4. \A s \in Slots : s \in Team /\ 2 * s \in Team /\ 2 * s + 1 \in Team
    <2>1. 1 \in 1..Rounds /\ Width[1 - 1] = 2 * Width[1] /\ Width[1] \in Nat
      BY BracketShape
    <2>2. Width[0] = 2 * Width[1]
      BY <2>1
    <2> QED
      BY <2>1, <2>2 DEF Slots, Team
  <1>5. 0 \in RoundSlots(Rounds) /\ Rounds \in 1..Rounds
    BY BracketShape DEF RoundSlots
  <1>6. Final \in Match
    BY <1>2, <1>5 DEF Final
  <1>7. HasRanking => ThirdPlace \in Match
    BY <1>1, <1>5, BracketShape DEF ThirdPlace, Match
  <1> QED
    BY <1>1, <1>2, <1>3, <1>4, <1>6, <1>7

LEMMA NextWidth ==
    ASSUME NEW r \in 1..Rounds, r < Rounds
    PROVE  0 < Width[r + 1]
  <1>1. r + 1 \in 0..Rounds
    BY BracketShape
  <1>2. Width[r + 1] \in Nat \ {0}
    BY <1>1, BracketShape
  <1> QED
    BY <1>2

\* The winner of a match is one of its sides, and so is the loser.
LEMMA OutcomesAreSides ==
    ASSUME TypeOK, NEW m \in Match
    PROVE  /\ Winner(m) \in {home[m], away[m], None}
           /\ Loser(m) \in {home[m], away[m], None}
  <1>1. Winner(m) \in {home[m], away[m], None}
    BY Zenon DEF Winner
  <1>2. Loser(m) \in {home[m], away[m], None}
    BY DEF Loser
  <1> QED
    BY <1>1, <1>2

(***************************************************************************)
(* Steps that leave the bracket's places alone                             *)
(***************************************************************************)
\* A handler that does not move keeps its invariant as long as no match of the tree of rounds empties.
LEMMA HandlerFrame ==
    ASSUME NEW q \in Requests, HandlerInv(q), TypeOK, req'[q] = req[q],
           \A m \in Match : ~m.third /\ ~Untouched(m) => ~Untouched(m)'
    PROVE  HandlerInv(q)'
  <1>1. req[q].match \in Match /\ req[q].match.round \in 1..Rounds
    BY DEF TypeOK, Request, Match
  <1>2. \A s \in RoundSlots(req[q].match.round) :
           /\ Main(req[q].match.round, s) \in Match
           /\ ~Main(req[q].match.round, s).third
    BY <1>1, RoundSlotsFit DEF Main
  <1> QED
    BY <1>1, <1>2 DEF HandlerInv, Place, RoundSlots, Team, Untouched

\* A step of request r that changes no place and does not bring r to a step of
\* tryAdvanceRound or tryResolveFirstRound keeps the invariant.
LEMMA PlainStep ==
    ASSUME BracketInv, TypeOK', NEW r \in Requests,
           home' = home, away' = away,
           \A q \in Requests \ {r} : req'[q] = req[q],
           req'[r].step \notin Seeding \cup {"resolve"},
           req'[r].step \in {"markValidated", "setCompleted", "writeForfeit",
                             "readForfeit", "readRound"} => req'[r].next = 0
    PROVE  BracketInv'
  <1>1. PathInv'
    BY DEF BracketInv, PathInv, Place
  <1>2. RoundsFillInOrder'
    BY DEF BracketInv, RoundsFillInOrder, Untouched
  <1>3. HandlerInv(r)'
    BY Zenon DEF HandlerInv, Seeding
  <1>4. ASSUME NEW q \in Requests \ {r}
        PROVE  HandlerInv(q)'
    BY <1>4, HandlerFrame DEF Untouched, BracketInv, HandlersInv
  <1> QED
    BY <1>1, <1>2, <1>3, <1>4 DEF BracketInv, HandlersInv

LEMMA IdleIsARequest == Idle \in Request /\ Idle.next = 0 /\ Idle.step = "idle"
  BY RoundSlotsFit DEF Idle, Request, Steps, NoTeams, TeamOrNone

\* What ends a handler, or moves it to another step, changes req in its own entry only.
LEMMA FinishFacts ==
    ASSUME TypeOK, NEW r \in Requests, Finish(r)
    PROVE  /\ req' \in [Requests -> Request]
           /\ req'[r] = Idle
           /\ \A q \in Requests \ {r} : req'[q] = req[q]
  BY IdleIsARequest DEF Finish, TypeOK

LEMMA GotoFacts ==
    ASSUME TypeOK, NEW r \in Requests, NEW step \in Steps, Goto(r, step)
    PROVE  /\ req' \in [Requests -> Request]
           /\ req'[r] = [req[r] EXCEPT !.step = step]
           /\ req'[r].step = step /\ req'[r].next = req[r].next
           /\ \A q \in Requests \ {r} : req'[q] = req[q]
  <1>1. req[r] \in Request
    BY DEF TypeOK
  <1>2. [req[r] EXCEPT !.step = step] \in Request
    BY <1>1 DEF Request
  <1>3. req' = [req EXCEPT ![r] = [req[r] EXCEPT !.step = step]]
    BY DEF Goto
  <1>4. /\ [req[r] EXCEPT !.step = step].step = step
        /\ [req[r] EXCEPT !.step = step].next = req[r].next
    BY <1>1 DEF Request
  <1> QED
    BY <1>2, <1>3, <1>4 DEF TypeOK

\* Accepting a call whose handler has read nothing but its own match.
LEMMA AcceptStep ==
    ASSUME BracketInv, NEW r \in Requests, NEW op, NEW call \in Request,
           call.next = 0, call.step \notin Seeding \cup {"resolve"}, Accept(r, op, call)
    PROVE  BracketInv'
  <1>1. TypeOK /\ TypeOK'
    BY DEF BracketInv, TypeOK, Accept, dbVars
  <1>2. /\ home' = home /\ away' = away /\ req'[r] = call
        /\ \A q \in Requests \ {r} : req'[q] = req[q]
    BY <1>1 DEF Accept, dbVars, TypeOK
  <1> QED
    BY <1>1, <1>2, PlainStep

\* Every accepted call keeps the invariant.
LEMMA StartStep ==
    ASSUME BracketInv, NEW r \in Requests, Start(r)
    PROVE  BracketInv'
  <1> USE IdleIsARequest
  <1>0. TypeOK
    BY DEF BracketInv
  <1>1. ASSUME NEW m \in Match, NEW result \in Results,
               Accept(r, "upsertScore",
                      [Idle EXCEPT !.step = "writeScore", !.match = m, !.result = result])
        PROVE  BracketInv'
    <2> DEFINE call == [Idle EXCEPT !.step = "writeScore", !.match = m, !.result = result]
    <2>1. call \in Request /\ call.next = 0 /\ call.step \notin Seeding \cup {"resolve"}
      BY <1>0, <1>1 DEF Request, Steps, Seeding, Results, TypeOK
    <2> QED
      BY <1>1, <2>1, AcceptStep
  <1>2. ASSUME NEW m \in Match,
               Accept(r, "validateScore",
                      [Idle EXCEPT !.step = "markValidated", !.match = m])
        PROVE  BracketInv'
    <2> DEFINE call == [Idle EXCEPT !.step = "markValidated", !.match = m]
    <2>1. call \in Request /\ call.next = 0 /\ call.step \notin Seeding \cup {"resolve"}
      BY <1>0, <1>2 DEF Request, Steps, Seeding, Results, TypeOK
    <2> QED
      BY <1>2, <2>1, AcceptStep
  <1>3. ASSUME NEW m \in Match,
               Accept(r, "clearScore",
                      [Idle EXCEPT !.step = "deleteScore", !.match = m])
        PROVE  BracketInv'
    <2> DEFINE call == [Idle EXCEPT !.step = "deleteScore", !.match = m]
    <2>1. call \in Request /\ call.next = 0 /\ call.step \notin Seeding \cup {"resolve"}
      BY <1>0, <1>3 DEF Request, Steps, Seeding, Results, TypeOK
    <2> QED
      BY <1>3, <2>1, AcceptStep
  <1>4. ASSUME NEW m \in Match, NEW t \in {home[m], away[m]} \ {None},
               Accept(r, "declareForfeit",
                      [Idle EXCEPT !.step = "writeForfeit", !.match = m, !.team = t])
        PROVE  BracketInv'
    <2> DEFINE call == [Idle EXCEPT !.step = "writeForfeit", !.match = m, !.team = t]
    <2>1. call \in Request /\ call.next = 0 /\ call.step \notin Seeding \cup {"resolve"}
      BY <1>0, <1>4 DEF Request, Steps, Seeding, Results, TypeOK
    <2> QED
      BY <1>4, <2>1, AcceptStep
  <1>5. ASSUME NEW m \in Match,
               Accept(r, "undoForfeit",
                      [Idle EXCEPT !.step = "undoForfeit", !.match = m])
        PROVE  BracketInv'
    <2> DEFINE call == [Idle EXCEPT !.step = "undoForfeit", !.match = m]
    <2>1. call \in Request /\ call.next = 0 /\ call.step \notin Seeding \cup {"resolve"}
      BY <1>0, <1>5 DEF Request, Steps, Seeding, Results, TypeOK
    <2> QED
      BY <1>5, <2>1, AcceptStep
  <1>6. ASSUME StartResolve(r) PROVE BracketInv'
    <2> DEFINE pend == [s \in Slots |-> IF Pending(s) THEN s ELSE None]
               call == [Idle EXCEPT !.step = "resolve", !.win = pend]
    <2>1. /\ req' = [req EXCEPT ![r] = call] /\ calls' = calls - 1 /\ calls > 0
          /\ UNCHANGED dbVars /\ UNCHANGED failures
      BY <1>6 DEF StartResolve, Accept
    <2>2. pend \in [Slots -> TeamOrNone]
      BY RoundSlotsFit DEF TeamOrNone
    <2> HIDE DEF pend
    <2>3. call \in Request /\ call.step = "resolve" /\ call.next = 0
      BY <2>2 DEF Request, Steps
    <2> HIDE DEF call
    <2>4. TypeOK'
      BY <1>0, <2>1, <2>3 DEF TypeOK, dbVars
    <2>5. HandlerInv(r)'
      BY <1>0, <2>1, <2>3, BracketShape DEF TypeOK, HandlerInv, Seeding
    <2>6. ASSUME NEW q \in Requests \ {r} PROVE HandlerInv(q)'
      BY <1>0, <2>1, <2>6, HandlerFrame DEF Untouched, BracketInv, HandlersInv, TypeOK, dbVars
    <2>7. PathInv' /\ RoundsFillInOrder'
      BY <2>1 DEF BracketInv, PathInv, Place, RoundsFillInOrder, Untouched, dbVars
    <2> QED
      BY <2>4, <2>5, <2>6, <2>7 DEF BracketInv, HandlersInv
  <1> QED
    BY <1>1, <1>2, <1>3, <1>4, <1>5, <1>6
       DEF Start, StartUpsertScore, StartValidateScore, StartClearScore,
           StartDeclareForfeit, StartUndoForfeit

\* The steps of a handler that touch no place of the bracket.
LEMMA ScoreStep ==
    ASSUME BracketInv, NEW r \in Requests,
           \/ WriteScore(r) \/ SetLive(r) \/ MarkValidated(r) \/ SetCompleted(r)
           \/ DeleteScore(r) \/ SetScheduled(r) \/ WriteForfeit(r) \/ ReadForfeit(r)
           \/ UndoForfeit(r) \/ Rate(r) \/ Fail(r)
    PROVE  BracketInv'
  <1> USE IdleIsARequest
  <1>0. TypeOK /\ req[r] \in Request /\ HandlerInv(r)
    BY DEF BracketInv, TypeOK, HandlersInv
  <1>1. ASSUME WriteScore(r) PROVE BracketInv'
    <2>1. Goto(r, "setLive") /\ "setLive" \in Steps /\ home' = home /\ away' = away
      BY <1>0, <1>1 DEF WriteScore, Steps, HandlerInv
    <2>2. TypeOK'
      BY <1>0, <1>1, <2>1, GotoFacts DEF WriteScore, TypeOK, Request, Score, NoScore, Results, Statuses, TeamOrNone, dbVars
    <2> QED
      BY <1>0, <2>1, <2>2, GotoFacts, PlainStep DEF Seeding
  <1>2. ASSUME SetLive(r) PROVE BracketInv'
    <2>1. Finish(r) /\ home' = home /\ away' = away
      BY <1>2 DEF SetLive, dbVars
    <2>2. TypeOK'
      BY <1>0, <1>2, <2>1, FinishFacts DEF SetLive, TypeOK, Request, Score, NoScore, Results, Statuses, TeamOrNone, dbVars
    <2> QED
      BY <1>0, <2>1, <2>2, FinishFacts, PlainStep DEF Seeding
  <1>3. ASSUME MarkValidated(r) PROVE BracketInv'
    <2>0. home' = home /\ away' = away /\ req[r].next = 0
      BY <1>0, <1>3 DEF MarkValidated, HandlerInv
    <2>s. score' \in [Match -> Score] /\ UNCHANGED <<status, forfeited, played, calls, failures>>
      <3>1. req[r].match \in Match /\ score[req[r].match] \in Score
        BY <1>0 DEF TypeOK, Request
      <3>2. [score[req[r].match] EXCEPT !.validated = TRUE] \in Score
        BY <3>1 DEF Score
      <3> QED
        BY <1>0, <1>3, <3>1, <3>2 DEF MarkValidated, TypeOK
    <2>1. CASE Goto(r, "setCompleted")
      <3>1. "setCompleted" \in Steps
        BY DEF Steps
      <3>2. TypeOK'
        BY <1>0, <2>0, <2>s, <2>1, <3>1, GotoFacts DEF TypeOK
      <3> QED
        BY <1>0, <2>0, <2>1, <3>1, <3>2, GotoFacts, PlainStep DEF Seeding
    <2>2. CASE Finish(r)
      <3>1. TypeOK'
        BY <1>0, <2>0, <2>s, <2>2, FinishFacts DEF TypeOK
      <3> QED
        BY <1>0, <2>0, <2>2, <3>1, FinishFacts, PlainStep DEF Seeding
    <2> QED
      BY <1>3, <2>1, <2>2 DEF MarkValidated
  <1>4. ASSUME SetCompleted(r) PROVE BracketInv'
    <2> DEFINE sides == [home |-> home[req[r].match], away |-> away[req[r].match]]
               moved == [req[r] EXCEPT !.step = "readRound", !.rated = sides]
    <2>1. req' = [req EXCEPT ![r] = moved] /\ home' = home /\ away' = away
      BY <1>4 DEF SetCompleted, dbVars
    <2>2. moved \in Request /\ moved.step = "readRound" /\ moved.next = 0
      BY <1>0, <1>4 DEF SetCompleted, HandlerInv, TypeOK, Request, Steps
    <2> HIDE DEF moved
    <2>3. TypeOK'
      BY <1>0, <1>4, <2>1, <2>2 DEF SetCompleted, TypeOK, Statuses, dbVars
    <2>4. req'[r] = moved /\ \A q \in Requests \ {r} : req'[q] = req[q]
      BY <1>0, <2>1 DEF TypeOK
    <2> QED
      BY <1>0, <2>1, <2>2, <2>3, <2>4, PlainStep DEF Seeding
  <1>5. ASSUME DeleteScore(r) PROVE BracketInv'
    <2>0. home' = home /\ away' = away
      BY <1>0, <1>5 DEF DeleteScore, HandlerInv
    <2>1. CASE Goto(r, "setScheduled")
      <3>1. "setScheduled" \in Steps
        BY DEF Steps
      <3>2. TypeOK'
        BY <1>0, <1>5, <2>1, <3>1, GotoFacts DEF DeleteScore, TypeOK, Request, Score, NoScore, Results, Statuses, TeamOrNone, dbVars
      <3> QED
        BY <1>0, <2>0, <2>1, <3>1, <3>2, GotoFacts, PlainStep DEF Seeding
    <2>2. CASE Finish(r)
      <3>1. TypeOK'
        BY <1>0, <1>5, <2>2, FinishFacts DEF DeleteScore, TypeOK, Request, Score, NoScore, Results, Statuses, TeamOrNone, dbVars
      <3> QED
        BY <1>0, <2>0, <2>2, <3>1, FinishFacts, PlainStep DEF Seeding
    <2> QED
      BY <1>5, <2>1, <2>2 DEF DeleteScore
  <1>6. ASSUME SetScheduled(r) PROVE BracketInv'
    <2>1. Finish(r) /\ home' = home /\ away' = away
      BY <1>6 DEF SetScheduled, dbVars
    <2>2. TypeOK'
      BY <1>0, <1>6, <2>1, FinishFacts DEF SetScheduled, TypeOK, Request, Score, NoScore, Results, Statuses, TeamOrNone, dbVars
    <2> QED
      BY <1>0, <2>1, <2>2, FinishFacts, PlainStep DEF Seeding
  <1>7. ASSUME WriteForfeit(r) PROVE BracketInv'
    <2>1. Goto(r, "readForfeit") /\ "readForfeit" \in Steps /\ home' = home /\ away' = away /\ req[r].next = 0
      BY <1>0, <1>7 DEF WriteForfeit, Steps, HandlerInv
    <2>2. TypeOK'
      BY <1>0, <1>7, <2>1, GotoFacts DEF WriteForfeit, TypeOK, Request, Score, NoScore, Results, Statuses, TeamOrNone, dbVars
    <2> QED
      BY <1>0, <2>1, <2>2, GotoFacts, PlainStep DEF Seeding
  <1>8. ASSUME ReadForfeit(r) PROVE BracketInv'
    <2> DEFINE sides == [home |-> home[req[r].match], away |-> away[req[r].match]]
               moved == [req[r] EXCEPT !.step = "readRound", !.rated = sides]
    <2>1. req' = [req EXCEPT ![r] = moved] /\ home' = home /\ away' = away
      BY <1>8 DEF ReadForfeit, dbVars
    <2>2. moved \in Request /\ moved.step = "readRound" /\ moved.next = 0
      BY <1>0, <1>8 DEF ReadForfeit, HandlerInv, TypeOK, Request, Steps
    <2> HIDE DEF moved
    <2>3. TypeOK'
      BY <1>0, <1>8, <2>1, <2>2 DEF ReadForfeit, TypeOK, Statuses, dbVars
    <2>4. req'[r] = moved /\ \A q \in Requests \ {r} : req'[q] = req[q]
      BY <1>0, <2>1 DEF TypeOK
    <2> QED
      BY <1>0, <2>1, <2>2, <2>3, <2>4, PlainStep DEF Seeding
  <1>9. ASSUME UndoForfeit(r) PROVE BracketInv'
    <2>1. Finish(r) /\ home' = home /\ away' = away
      BY <1>9 DEF UndoForfeit, dbVars
    <2>2. TypeOK'
      BY <1>0, <1>9, <2>1, FinishFacts DEF UndoForfeit, TypeOK, Request, Score, NoScore, Results, Statuses, TeamOrNone, dbVars
    <2> QED
      BY <1>0, <2>1, <2>2, FinishFacts, PlainStep DEF Seeding
  <1>10. ASSUME Rate(r) PROVE BracketInv'
    <2>1. Finish(r) /\ home' = home /\ away' = away
      BY <1>10 DEF Rate, dbVars
    <2>2. TypeOK'
      BY <1>0, <1>10, <2>1, FinishFacts DEF Rate, TypeOK, Request, Score, NoScore, Results, Statuses, TeamOrNone, dbVars
    <2> QED
      BY <1>0, <2>1, <2>2, FinishFacts, PlainStep DEF Seeding
  <1>11. ASSUME Fail(r) PROVE BracketInv'
    <2>1. Finish(r) /\ home' = home /\ away' = away
      BY <1>11 DEF Fail, dbVars
    <2>2. TypeOK'
      BY <1>0, <1>11, <2>1, FinishFacts DEF Fail, TypeOK, Request, Score, NoScore, Results, Statuses, TeamOrNone, dbVars
    <2> QED
      BY <1>0, <2>1, <2>2, FinishFacts, PlainStep DEF Seeding
  <1> QED
    BY <1>1, <1>2, <1>3, <1>4, <1>5, <1>6, <1>7, <1>8, <1>9, <1>10, <1>11

(***************************************************************************)
(* tryAdvanceRound and tryResolveFirstRound                                *)
(***************************************************************************)
\* What tryAdvanceRound's one read of a round keeps, when all of it is decided.
LEMMA OutcomesOnPath ==
    ASSUME BracketInv, NEW n \in 1..Rounds, NEW s \in RoundSlots(n),
           Winner(Main(n, s)) # None
    PROVE  /\ Winner(Main(n, s)) \in Team /\ Place(Winner(Main(n, s)), n) = s
           /\ Loser(Main(n, s)) # None => Place(Loser(Main(n, s)), n) = s
           /\ ~Untouched(Main(n, s))
  <1> DEFINE m == Main(n, s)
  <1>1. m \in Match /\ m.round = n /\ m.slot = s /\ s \in Nat
    BY RoundSlotsFit, BracketShape DEF Main, RoundSlots
  <1>2. TypeOK /\ PathInv
    BY DEF BracketInv
  <1> HIDE DEF m
  <1>3. Winner(m) \in {home[m], away[m], None} /\ Loser(m) \in {home[m], away[m], None}
    BY <1>1, <1>2, OutcomesAreSides
  <1>4. Winner(m) # None
    BY DEF m
  <1>5. ASSUME NEW t, t \in {home[m], away[m]}, t # None
        PROVE  t \in Team /\ Place(t, n) = s
    <2>1. t \in Team
      BY <1>1, <1>2, <1>5 DEF TypeOK, TeamOrNone
    <2>2. Place(t, n - 1) = 2 * s \/ Place(t, n - 1) = 2 * s + 1
      BY <1>1, <1>2, <1>5 DEF PathInv
    <2>3. Place(t, n) = Place(t, n - 1) \div 2
      BY <2>1, PlaceHalves DEF Team
    <2>4. (2 * s) \div 2 = s /\ (2 * s + 1) \div 2 = s
      BY <1>1
    <2> QED
      BY <2>1, <2>2, <2>3, <2>4
  <1>6. ~Untouched(m)
    BY <1>3, <1>4 DEF Untouched
  <1>7. Winner(m) \in Team /\ Place(Winner(m), n) = s
    BY <1>3, <1>4, <1>5
  <1>8. Loser(m) # None => Place(Loser(m), n) = s
    BY <1>3, <1>5
  <1> QED
    BY <1>6, <1>7, <1>8 DEF m

\* A match outside the third-place match is the main match of its round and slot.
LEMMA MainMatch ==
    ASSUME NEW m \in Match, ~m.third
    PROVE  m = Main(m.round, m.slot) /\ m.round \in 1..Rounds /\ m.slot \in RoundSlots(m.round)
  <1>1. m.round \in 1..Rounds /\ m.slot \in Slots /\ m.slot < Width[m.round]
    BY DEF Match
  <1>2. m = Main(m.round, m.slot)
    BY DEF Match, Main
  <1>3. Width[1] \in Nat /\ Width[m.round] \in Nat
    BY <1>1, BracketShape
  <1>4. m.slot \in Nat
    BY <1>1, <1>3 DEF Slots
  <1>5. m.slot \in RoundSlots(m.round)
    BY <1>1, <1>3, <1>4 DEF RoundSlots
  <1> QED
    BY <1>1, <1>2, <1>5

\* Filling one match with teams that come there by their own paths, when the round
\* before is known, keeps what is said of the places.
LEMMA FillMatch ==
    ASSUME BracketInv, NEW M \in Match, NEW x \in TeamOrNone, NEW y \in TeamOrNone,
           x # None => Place(x, M.round - 1) = 2 * M.slot,
           y # None => Place(y, M.round - 1) = 2 * M.slot + 1,
           ~M.third => x # None /\ y # None,
           M.round > 1 => \A s \in RoundSlots(M.round - 1) : ~Untouched(Main(M.round - 1, s)),
           home' = [home EXCEPT ![M] = x],
           away' = [away EXCEPT ![M] = y]
    PROVE  /\ home' \in [Match -> TeamOrNone] /\ away' \in [Match -> TeamOrNone]
           /\ PathInv' /\ RoundsFillInOrder'
           /\ \A m \in Match : ~m.third /\ ~Untouched(m) => ~Untouched(m)'
  <1>1. /\ home \in [Match -> TeamOrNone] /\ away \in [Match -> TeamOrNone]
        /\ PathInv /\ RoundsFillInOrder
    BY DEF BracketInv, TypeOK
  <1>2. home' \in [Match -> TeamOrNone] /\ away' \in [Match -> TeamOrNone]
    BY <1>1
  <1>3. \A m \in Match : home'[m] = IF m = M THEN x ELSE home[m]
    BY <1>1
  <1>4. \A m \in Match : away'[m] = IF m = M THEN y ELSE away[m]
    BY <1>1
  <1>5. PathInv'
    <2> SUFFICES ASSUME NEW m \in Match
                 PROVE  /\ home'[m] # None => Place(home'[m], m.round - 1) = 2 * m.slot
                        /\ away'[m] # None => Place(away'[m], m.round - 1) = 2 * m.slot + 1
      BY DEF PathInv, Place
    <2> QED
      BY <1>1, <1>3, <1>4 DEF PathInv
  <1>6. \A m \in Match : ~m.third /\ ~Untouched(m) => ~Untouched(m)'
    BY <1>3, <1>4 DEF Untouched
  <1>7. RoundsFillInOrder'
    <2>1. ASSUME NEW m \in Match, m.round > 1, ~m.third
          PROVE  (home'[m] = None) <=> (away'[m] = None)
      BY <1>1, <1>3, <1>4, <2>1 DEF RoundsFillInOrder
    <2>2. ASSUME NEW m \in Match, NEW n \in Match,
                 n.round = m.round + 1, ~m.third, ~Untouched(n)'
          PROVE  ~Untouched(m)'
      <3>1. CASE n = M
        <4>1. m.round \in 1..Rounds /\ M.round > 1 /\ M.round - 1 = m.round
          BY <2>2, <3>1 DEF Match
        <4>2. ~Untouched(m)
          BY <2>2, <4>1, MainMatch
        <4> QED
          BY <1>6, <2>2, <4>2
      <3>2. CASE n # M
        <4>1. ~Untouched(n)
          BY <1>3, <1>4, <2>2, <3>2 DEF Untouched
        <4>2. ~Untouched(m)
          BY <1>1, <2>2, <4>1 DEF RoundsFillInOrder
        <4> QED
          BY <1>6, <2>2, <4>2
      <3> QED
        BY <3>1, <3>2
    <2> QED
      BY <2>1, <2>2 DEF RoundsFillInOrder
  <1> QED
    BY <1>2, <1>5, <1>6, <1>7

\* tryAdvanceRound's reads.
LEMMA ReadStep ==
    ASSUME BracketInv, NEW r \in Requests, ReadRound(r) \/ ReadNextRound(r)
    PROVE  BracketInv'
  <1> DEFINE n == req[r].match.round
  <1>0. /\ TypeOK /\ req[r] \in Request /\ HandlerInv(r)
        /\ n \in 1..Rounds /\ req[r].match \in Match
        /\ PathInv /\ RoundsFillInOrder /\ HandlersInv
    BY DEF BracketInv, TypeOK, HandlersInv, Request, Match
  <1>1. home' = home /\ away' = away /\ UNCHANGED <<dbVars, calls, failures>>
    BY DEF ReadRound, ReadNextRound, dbVars
  <1>2. CASE Goto(r, "rate")
    <2>1. "rate" \in Steps
      BY DEF Steps
    <2>2. TypeOK'
      BY <1>0, <1>1, <1>2, <2>1, GotoFacts DEF TypeOK, dbVars
    <2> QED
      BY <1>0, <1>1, <1>2, <2>1, <2>2, GotoFacts, PlainStep DEF Seeding
  <1>3. PathInv' /\ RoundsFillInOrder'
    BY <1>0, <1>1 DEF PathInv, RoundsFillInOrder, Untouched, Place
  <1>4. ASSUME ReadRound(r), n < Rounds, RoundDecided(n),
               req' = [req EXCEPT
                ![r].step = "readNext",
                ![r].win  = Winners(n),
                ![r].lose = Losers(n)]
        PROVE  BracketInv'
    <2> DEFINE win == [s \in Slots |-> IF s < Width[n] THEN Winner(Main(n, s)) ELSE None]
               lose == [s \in Slots |-> IF s < Width[n] THEN Loser(Main(n, s)) ELSE None]
               moved == [req[r] EXCEPT !.step = "readNext", !.win = win, !.lose = lose]
    <2>1. ASSUME NEW s \in RoundSlots(n)
          PROVE  /\ win[s] \in Team /\ Place(win[s], n) = s
                 /\ lose[s] \in TeamOrNone
                 /\ lose[s] # None => Place(lose[s], n) = s
                 /\ ~Untouched(Main(n, s))
      <3>1. s \in Slots /\ s < Width[n]
        <4>1. Width[n] \in Nat
          BY <1>0, WidthIsNat
        <4>2. s \in Slots
          BY <1>0, RoundSlotsFit
        <4> QED
          BY <4>1, <4>2 DEF RoundSlots
      <3>2. Winner(Main(n, s)) # None
        BY <1>4 DEF RoundDecided
      <3>3. QED
        <4>1. Main(n, s) \in Match
          BY <1>0, RoundSlotsFit
        <4>2. Loser(Main(n, s)) \in TeamOrNone
          BY <1>0, <4>1, OutcomesAreSides DEF TypeOK, TeamOrNone
        <4> QED
          BY <1>0, <3>1, <3>2, <4>2, OutcomesOnPath
    <2>2. win \in [Slots -> TeamOrNone] /\ lose \in [Slots -> TeamOrNone]
      <3>1. ASSUME NEW s \in Slots, s < Width[n] PROVE s \in RoundSlots(n)
        <4>1. Width[n] \in Nat
          BY <1>0, WidthIsNat
        <4>2. s \in Nat
          BY DEF Slots
        <4> QED
          BY <3>1, <4>1, <4>2 DEF RoundSlots
      <3>2. \A s \in Slots : win[s] \in TeamOrNone /\ lose[s] \in TeamOrNone
        BY <2>1, <3>1 DEF TeamOrNone
      <3> QED
        BY <3>2
    <2> HIDE DEF win, lose
    <2>3. moved \in Request
      BY <1>0, <2>2 DEF Request, Steps
    <2>4. /\ moved.step = "readNext" /\ moved.match = req[r].match /\ moved.next = req[r].next
          /\ moved.win = win /\ moved.lose = lose
      BY <1>0 DEF Request
    <2>5. req' = [req EXCEPT ![r] = moved]
      BY <1>4 DEF win, lose, Winners, Losers
    <2> HIDE DEF moved
    <2>6. req'[r] = moved /\ \A q \in Requests \ {r} : req'[q] = req[q]
      BY <1>0, <2>5 DEF TypeOK
    <2>7. TypeOK'
      BY <1>0, <1>1, <2>3, <2>5 DEF TypeOK, dbVars
    <2>8. req[r].next = 0
      BY <1>0, <1>4 DEF ReadRound, HandlerInv
    <2>9. \A s \in RoundSlots(n) : ~(home'[Main(n, s)] = None /\ away'[Main(n, s)] = None)
      BY <1>1, <2>1 DEF Untouched
    <2>10. HandlerInv(r)'
      <3>1. /\ req'[r].step = "readNext" /\ req'[r].match.round = n /\ req'[r].next = 0
            /\ req'[r].win = win /\ req'[r].lose = lose
        BY <2>4, <2>6, <2>8
      <3>2. \A s \in RoundSlots(n) :
              /\ win[s] \in Team /\ Place(win[s], n) = s
              /\ lose[s] # None => Place(lose[s], n) = s
              /\ ~(home'[Main(n, s)] = None /\ away'[Main(n, s)] = None)
        BY <2>1, <2>9
      <3> QED
        BY <1>4, <3>1, <3>2 DEF HandlerInv, Seeding, Untouched
    <2>11. ASSUME NEW q \in Requests \ {r} PROVE HandlerInv(q)'
      BY <1>0, <1>1, <2>6, <2>11, HandlerFrame DEF Untouched, HandlersInv
    <2> QED
      BY <1>3, <2>7, <2>10, <2>11 DEF BracketInv, HandlersInv
  <1>5. ASSUME ReadNextRound(r), Goto(r, "seed")
        PROVE  BracketInv'
    <2>1. "seed" \in Steps
      BY DEF Steps
    <2>2. /\ req' \in [Requests -> Request] /\ req'[r] = [req[r] EXCEPT !.step = "seed"]
          /\ \A q \in Requests \ {r} : req'[q] = req[q]
      BY <1>0, <1>5, <2>1, GotoFacts
    <2>3. /\ req'[r].step = "seed" /\ req'[r].match = req[r].match
          /\ req'[r].next = req[r].next
          /\ req'[r].win = req[r].win /\ req'[r].lose = req[r].lose
      BY <1>0, <2>2 DEF Request
    <2>4. TypeOK'
      BY <1>0, <1>1, <2>2 DEF TypeOK, dbVars
    <2>5. req[r].step = "readNext" /\ req[r].next = 0 /\ n < Rounds
      BY <1>0, <1>5 DEF ReadNextRound, HandlerInv, Seeding
    <2>6. 0 < Width[n + 1]
      <3>1. n \in 1..Rounds /\ n < Rounds
        BY <1>0, <2>5
      <3> QED
        BY <3>1, NextWidth
    <2>7. HandlerInv(r)'
      BY <1>0, <1>1, <2>3, <2>5, <2>6 DEF HandlerInv, Seeding, Place, RoundSlots, Team, Untouched
    <2>8. ASSUME NEW q \in Requests \ {r} PROVE HandlerInv(q)'
      BY <1>0, <1>1, <2>2, <2>8, HandlerFrame DEF Untouched, HandlersInv
    <2> QED
      BY <1>3, <2>4, <2>7, <2>8 DEF BracketInv, HandlersInv
  <1> QED
    BY <1>2, <1>4, <1>5 DEF ReadRound, ReadNextRound

\* tryAdvanceRound's update of one match of the next round.
LEMMA SeedStep ==
    ASSUME BracketInv, NEW r \in Requests, SeedMatch(r)
    PROVE  BracketInv'
  <1> DEFINE n == req[r].match.round
             s == req[r].next
             M == Main(n + 1, s)
  <1>0. /\ TypeOK /\ req[r] \in Request /\ HandlerInv(r) /\ HandlersInv
        /\ n \in 1..Rounds /\ req[r].match \in Match /\ s \in Nat
    BY DEF BracketInv, TypeOK, HandlersInv, Request, Match
  <1>1. req[r].step = "seed" /\ n < Rounds /\ s < Width[n + 1]
    BY <1>0 DEF SeedMatch, HandlerInv, Seeding
  <1>2. M \in Match /\ 2 * s \in RoundSlots(n) /\ 2 * s + 1 \in RoundSlots(n)
    BY <1>0, <1>1, RoundSlotsFit
  <1>3. M.round = n + 1 /\ M.slot = s
    BY DEF Main
  <1>4. /\ home' = [home EXCEPT ![M] = req[r].win[2 * s]]
        /\ away' = [away EXCEPT ![M] = req[r].win[2 * s + 1]]
        /\ UNCHANGED <<status, score, forfeited, played, calls, failures>>
    BY DEF SeedMatch
  <1> HIDE DEF M
  <1>5. /\ req[r].win[2 * s] \in Team /\ Place(req[r].win[2 * s], n) = 2 * s
        /\ req[r].win[2 * s + 1] \in Team /\ Place(req[r].win[2 * s + 1], n) = 2 * s + 1
        /\ \A u \in RoundSlots(n) : ~Untouched(Main(n, u))
    BY <1>0, <1>1, <1>2 DEF HandlerInv, Seeding
  <1>6. M.round - 1 = n
    BY <1>0, <1>3
  <1>7. /\ home' \in [Match -> TeamOrNone] /\ away' \in [Match -> TeamOrNone]
        /\ PathInv' /\ RoundsFillInOrder'
        /\ \A m \in Match : ~m.third /\ ~Untouched(m) => ~Untouched(m)'
    <2>1. /\ req[r].win[2 * s] \in TeamOrNone /\ req[r].win[2 * s] # None
          /\ req[r].win[2 * s + 1] \in TeamOrNone /\ req[r].win[2 * s + 1] # None
      BY <1>5, NoneIsNotATeam DEF Team, TeamOrNone
    <2> QED
      BY <1>2, <1>3, <1>4, <1>5, <1>6, <2>1, FillMatch
  <1>8. ASSUME NEW moved \in Request, req' = [req EXCEPT ![r] = moved],
               moved.match = req[r].match, moved.win = req[r].win, moved.lose = req[r].lose,
               \/ moved.step = "seed" /\ moved.next < Width[n + 1]
               \/ moved.step = "seedThird" /\ HasRanking /\ n + 1 = Rounds
               \/ moved.step = "rate"
        PROVE  BracketInv'
    <2>1. req'[r] = moved /\ \A q \in Requests \ {r} : req'[q] = req[q]
      BY <1>0, <1>8 DEF TypeOK
    <2>2. TypeOK'
      BY <1>0, <1>4, <1>7, <1>8 DEF TypeOK
    <2>3. \A u \in RoundSlots(n) :
             /\ ~(home'[Main(n, u)] = None /\ away'[Main(n, u)] = None)
             /\ req[r].win[u] \in Team /\ Place(req[r].win[u], n) = u
             /\ req[r].lose[u] # None => Place(req[r].lose[u], n) = u
      <3>1. \A u \in RoundSlots(n) : Main(n, u) \in Match /\ ~Main(n, u).third
        BY <1>0, RoundSlotsFit DEF Main
      <3> QED
        BY <1>0, <1>1, <1>5, <1>7, <3>1 DEF Untouched, HandlerInv, Seeding
    <2>4. HandlerInv(r)'
      <3>1. /\ req'[r].match.round = n /\ n < Rounds
            /\ req'[r].win = req[r].win /\ req'[r].lose = req[r].lose
            /\ \/ req'[r].step = "seed" /\ req'[r].next < Width[n + 1]
               \/ req'[r].step = "seedThird" /\ HasRanking /\ n + 1 = Rounds
               \/ req'[r].step = "rate"
        BY <1>1, <1>8, <2>1
      <3> QED
        BY <2>3, <3>1 DEF HandlerInv, Seeding, Place, RoundSlots, Team, Untouched
    <2>5. ASSUME NEW q \in Requests \ {r} PROVE HandlerInv(q)'
      BY <1>0, <1>7, <2>1, <2>5, HandlerFrame DEF Untouched, HandlersInv
    <2> QED
      BY <1>7, <2>2, <2>4, <2>5 DEF BracketInv, HandlersInv
  <1>9. CASE n + 1 = Rounds /\ HasRanking /\ Goto(r, "seedThird")
    <2> DEFINE moved == [req[r] EXCEPT !.step = "seedThird"]
    <2>1. /\ moved \in Request /\ moved.step = "seedThird" /\ moved.match = req[r].match
          /\ moved.win = req[r].win /\ moved.lose = req[r].lose
      BY <1>0 DEF Request, Steps
    <2>2. req' = [req EXCEPT ![r] = moved]
      BY <1>9 DEF Goto
    <2> QED
      BY <1>8, <1>9, <2>1, <2>2
  <1>10. CASE s + 1 < Width[n + 1] /\ req' = [req EXCEPT ![r].next = s + 1]
    <2> DEFINE moved == [req[r] EXCEPT !.next = s + 1]
    <2>1. /\ moved \in Request /\ moved.step = "seed" /\ moved.match = req[r].match
          /\ moved.win = req[r].win /\ moved.lose = req[r].lose /\ moved.next = s + 1
      BY <1>0, <1>1 DEF Request, Steps
    <2>2. req' = [req EXCEPT ![r] = moved]
      BY <1>10
    <2> QED
      BY <1>8, <1>10, <2>1, <2>2
  <1>11. CASE Goto(r, "rate")
    <2> DEFINE moved == [req[r] EXCEPT !.step = "rate"]
    <2>1. /\ moved \in Request /\ moved.step = "rate" /\ moved.match = req[r].match
          /\ moved.win = req[r].win /\ moved.lose = req[r].lose
      BY <1>0 DEF Request, Steps
    <2>2. req' = [req EXCEPT ![r] = moved]
      BY <1>11 DEF Goto
    <2> QED
      BY <1>8, <2>1, <2>2
  <1> QED
    BY <1>9, <1>10, <1>11 DEF SeedMatch

\* tryAdvanceRound's update of the third-place match with the two losers.
LEMMA SeedThirdStep ==
    ASSUME BracketInv, NEW r \in Requests, SeedThirdPlace(r)
    PROVE  BracketInv'
  <1> DEFINE n == req[r].match.round
  <1>0. /\ TypeOK /\ req[r] \in Request /\ HandlerInv(r) /\ HandlersInv
        /\ n \in 1..Rounds /\ req[r].match \in Match
    BY DEF BracketInv, TypeOK, HandlersInv, Request, Match
  <1>1. req[r].step = "seedThird" /\ HasRanking /\ n + 1 = Rounds
    BY <1>0 DEF SeedThirdPlace, HandlerInv
  <1>2. 0 < Width[n + 1]
    <2>1. Width[Rounds] = 1
      BY BracketShape
    <2> QED
      BY <1>1, <2>1
  <1>3. 0 \in RoundSlots(n) /\ 1 \in RoundSlots(n)
    <2>1. 2 * 0 \in RoundSlots(n) /\ 2 * 0 + 1 \in RoundSlots(n)
      BY <1>0, <1>1, <1>2, RoundSlotsFit
    <2> QED
      BY <2>1
  <1>4. /\ req[r].lose[0] # None => Place(req[r].lose[0], n) = 0
        /\ req[r].lose[1] # None => Place(req[r].lose[1], n) = 1
        /\ \A u \in RoundSlots(n) : ~Untouched(Main(n, u))
    BY <1>0, <1>1, <1>3 DEF HandlerInv, Seeding
  <1>5. /\ ThirdPlace \in Match /\ ThirdPlace.third
        /\ ThirdPlace.round - 1 = n /\ ThirdPlace.slot = 0
    BY <1>0, <1>1, RoundSlotsFit DEF ThirdPlace
  <1>6. /\ home' = [home EXCEPT ![ThirdPlace] = req[r].lose[0]]
        /\ away' = [away EXCEPT ![ThirdPlace] = req[r].lose[1]]
        /\ UNCHANGED <<status, score, forfeited, played, calls, failures>>
        /\ Goto(r, "rate") /\ "rate" \in Steps
    BY DEF SeedThirdPlace, Steps
  <1>7. /\ home' \in [Match -> TeamOrNone] /\ away' \in [Match -> TeamOrNone]
        /\ PathInv' /\ RoundsFillInOrder'
        /\ \A m \in Match : ~m.third /\ ~Untouched(m) => ~Untouched(m)'
    <2>1. /\ req[r].lose[0] # None =>
                Place(req[r].lose[0], ThirdPlace.round - 1) = 2 * ThirdPlace.slot
          /\ req[r].lose[1] # None =>
                Place(req[r].lose[1], ThirdPlace.round - 1) = 2 * ThirdPlace.slot + 1
      BY <1>4, <1>5
    <2>2. \A u \in RoundSlots(ThirdPlace.round - 1) :
             ~Untouched(Main(ThirdPlace.round - 1, u))
      BY <1>4, <1>5
    <2>3. req[r].lose[0] \in TeamOrNone /\ req[r].lose[1] \in TeamOrNone
      BY <1>0, <1>3, BracketShape, RoundSlotsFit DEF Request, Slots, RoundSlots
    <2> QED
      BY <1>5, <1>6, <2>1, <2>2, <2>3, FillMatch
  <1>8. /\ req' \in [Requests -> Request] /\ req'[r].step = "rate"
        /\ \A q \in Requests \ {r} : req'[q] = req[q]
    BY <1>0, <1>6, GotoFacts
  <1>9. TypeOK'
    BY <1>0, <1>6, <1>7, <1>8 DEF TypeOK
  <1>10. HandlerInv(r)'
    BY <1>8 DEF HandlerInv, Seeding
  <1>11. ASSUME NEW q \in Requests \ {r} PROVE HandlerInv(q)'
    BY <1>0, <1>7, <1>8, <1>11, HandlerFrame DEF Untouched, HandlersInv
  <1> QED
    BY <1>7, <1>9, <1>10, <1>11 DEF BracketInv, HandlersInv

\* tryResolveFirstRound's update of one pending match of round 1.
LEMMA ResolveStep ==
    ASSUME BracketInv, NEW r \in Requests, ResolveMatch(r)
    PROVE  BracketInv'
  <1> DEFINE s == req[r].next
             M == Main(1, s)
  <1>0. /\ TypeOK /\ req[r] \in Request /\ HandlerInv(r) /\ HandlersInv
        /\ PathInv /\ RoundsFillInOrder /\ s \in Nat /\ 1 \in 1..Rounds
    BY BracketShape DEF BracketInv, TypeOK, HandlersInv, Request
  <1>1. req[r].step = "resolve" /\ s < Width[1] /\ s \in Slots /\ s \in RoundSlots(1)
    <2>1. req[r].step = "resolve" /\ s < Width[1]
      BY <1>0 DEF ResolveMatch, HandlerInv
    <2>2. Width[1] \in Nat
      BY <1>0, BracketShape
    <2> QED
      BY <1>0, <2>1, <2>2 DEF Slots, RoundSlots
  <1>2. M \in Match /\ 2 * s \in Team /\ 2 * s + 1 \in Team
    BY <1>0, <1>1, RoundSlotsFit
  <1>3. M.round = 1 /\ M.slot = s
    BY DEF Main
  <1>4. UNCHANGED <<status, score, forfeited, played, calls, failures>>
    BY DEF ResolveMatch
  <1>5. \/ home' = [home EXCEPT ![M] = 2 * s] /\ away' = [away EXCEPT ![M] = 2 * s + 1]
        \/ home' = home /\ away' = away
    BY DEF ResolveMatch
  <1> HIDE DEF M
  <1>6. /\ home' \in [Match -> TeamOrNone] /\ away' \in [Match -> TeamOrNone]
        /\ PathInv' /\ RoundsFillInOrder'
        /\ \A m \in Match : ~m.third /\ ~Untouched(m) => ~Untouched(m)'
    <2>1. CASE home' = home /\ away' = away
      BY <1>0, <2>1 DEF TypeOK, PathInv, RoundsFillInOrder, Untouched, Place
    <2>2. CASE home' = [home EXCEPT ![M] = 2 * s] /\ away' = [away EXCEPT ![M] = 2 * s + 1]
      <3>1. 2 * s \in Nat /\ 2 * s + 1 \in Nat /\ M.round - 1 = 0
        BY <1>0, <1>3
      <3>2. Place(2 * s, 0) = 2 * s /\ Place(2 * s + 1, 0) = 2 * s + 1
        BY <3>1, PlaceOfLeaf
      <3>3. /\ Place(2 * s, M.round - 1) = 2 * M.slot
            /\ Place(2 * s + 1, M.round - 1) = 2 * M.slot + 1
            /\ ~(M.round > 1)
        BY <1>3, <3>1, <3>2
      <3> QED
        <4>1. /\ 2 * s \in TeamOrNone /\ 2 * s # None
              /\ 2 * s + 1 \in TeamOrNone /\ 2 * s + 1 # None
          BY <1>2, NoneIsNotATeam DEF Team, TeamOrNone
        <4> QED
          BY <1>2, <2>2, <3>3, <4>1, FillMatch
    <2> QED
      BY <1>5, <2>1, <2>2
  <1>7. /\ req' \in [Requests -> Request]
        /\ req'[r].step = "idle" \/ (req'[r].step = "resolve" /\ req'[r].next < Width[1])
        /\ \A q \in Requests \ {r} : req'[q] = req[q]
    <2>1. CASE s + 1 < Width[1] /\ req' = [req EXCEPT ![r].next = s + 1]
      <3> DEFINE moved == [req[r] EXCEPT !.next = s + 1]
      <3>1. moved \in Request /\ moved.step = "resolve" /\ moved.next = s + 1
        BY <1>0, <1>1 DEF Request
      <3>2. req' = [req EXCEPT ![r] = moved]
        BY <2>1
      <3> HIDE DEF moved
      <3> QED
        BY <1>0, <2>1, <3>1, <3>2 DEF TypeOK
    <2>2. CASE Finish(r)
      BY <1>0, <2>2, FinishFacts, IdleIsARequest
    <2> QED
      BY <2>1, <2>2 DEF ResolveMatch
  <1>8. TypeOK'
    BY <1>0, <1>4, <1>6, <1>7 DEF TypeOK
  <1>9. HandlerInv(r)'
    BY <1>7 DEF HandlerInv, Seeding
  <1>10. ASSUME NEW q \in Requests \ {r} PROVE HandlerInv(q)'
    BY <1>0, <1>6, <1>7, <1>10, HandlerFrame DEF Untouched, HandlersInv
  <1> QED
    BY <1>6, <1>8, <1>9, <1>10 DEF BracketInv, HandlersInv

(***************************************************************************)
(* Theorems                                                                *)
(***************************************************************************)
\* A bracket whose round 1 alone has teams, those of its leaves, and no request in flight.
LEMMA BracketBegins ==
    ASSUME home = [m \in Match |->
                     IF m.round = 1 /\ ~m.third /\ 2 * m.slot \in Known
                     THEN 2 * m.slot ELSE None],
           away = [m \in Match |->
                     IF m.round = 1 /\ ~m.third /\ 2 * m.slot + 1 \in Known
                     THEN 2 * m.slot + 1 ELSE None],
           status \in [Match -> Statuses], score \in [Match -> Score],
           forfeited = [m \in Match |-> None], played = [t \in Team |-> 0],
           req = [r \in Requests |-> Idle], calls \in Nat, failures = 0
    PROVE  BracketInv
  <1>1. ASSUME NEW m \in Match, m.round = 1
        PROVE  m.slot \in Slots /\ 2 * m.slot \in Team /\ 2 * m.slot + 1 \in Team
               /\ 2 * m.slot \in Nat /\ 2 * m.slot + 1 \in Nat
    BY RoundSlotsFit DEF Match, Slots
  <1>2. TypeOK
    <2>1. home \in [Match -> TeamOrNone] /\ away \in [Match -> TeamOrNone]
      BY <1>1 DEF TeamOrNone
    <2>3. /\ forfeited \in [Match -> TeamOrNone] /\ played \in [Team -> Nat]
          /\ failures \in Nat
      BY DEF TeamOrNone
    <2>4. req \in [Requests -> Request]
      BY IdleIsARequest
    <2> QED
      BY <2>1, <2>3, <2>4 DEF TypeOK
  <1>3. HandlersInv
    BY IdleIsARequest DEF HandlersInv, HandlerInv, Seeding
  <1>4. PathInv
    <2> SUFFICES ASSUME NEW m \in Match
                 PROVE  /\ home[m] # None => Place(home[m], m.round - 1) = 2 * m.slot
                        /\ away[m] # None => Place(away[m], m.round - 1) = 2 * m.slot + 1
      BY DEF PathInv
    <2>1. home[m] # None => m.round = 1 /\ home[m] = 2 * m.slot
      OBVIOUS
    <2>2. away[m] # None => m.round = 1 /\ away[m] = 2 * m.slot + 1
      OBVIOUS
    <2>3. m.round = 1 => /\ m.round - 1 = 0
                         /\ Place(2 * m.slot, 0) = 2 * m.slot
                         /\ Place(2 * m.slot + 1, 0) = 2 * m.slot + 1
      BY <1>1, PlaceOfLeaf
    <2> QED
      BY <2>1, <2>2, <2>3
  <1>5. RoundsFillInOrder
    <2>1. ASSUME NEW m \in Match, m.round > 1 PROVE Untouched(m)
      BY <2>1 DEF Untouched
    <2>2. ASSUME NEW m \in Match, NEW n \in Match, n.round = m.round + 1, ~Untouched(n)
          PROVE  FALSE
      <3>1. n.round > 1
        BY <2>2 DEF Match
      <3> QED
        BY <2>1, <2>2, <3>1
    <2> QED
      BY <2>1, <2>2 DEF RoundsFillInOrder, Untouched
  <1> QED
    BY <1>2, <1>3, <1>4, <1>5 DEF BracketInv

LEMMA InitInv == Init => BracketInv
  <1> SUFFICES ASSUME Init PROVE BracketInv
    OBVIOUS
  <1>1. status \in [Match -> Statuses] /\ score \in [Match -> Score] /\ calls \in Nat
    BY Bounds DEF Init, Statuses, Score, NoScore
  <1> QED
    BY <1>1, BracketBegins DEF Init

LEMMA NextInv == BracketInv /\ [Next]_vars => BracketInv'
  <1> SUFFICES ASSUME BracketInv, [Next]_vars PROVE BracketInv'
    OBVIOUS
  <1>1. CASE UNCHANGED vars
    BY <1>1 DEF vars, BracketInv, TypeOK, HandlersInv, HandlerInv, PathInv, RoundsFillInOrder,
                Untouched, Place, RoundSlots
  <1>2. ASSUME NEW r \in Requests, Start(r) \/ Proceed(r) \/ Fail(r)
        PROVE  BracketInv'
    BY <1>2, StartStep, ScoreStep, ReadStep, SeedStep, SeedThirdStep, ResolveStep DEF Proceed
  <1> QED
    BY <1>1, <1>2 DEF Next

LEMMA BracketInvariant == Spec => []BracketInv
  BY InitInv, NextInv, PTL DEF Spec

\* The database columns and the handlers' locals keep their types.
THEOREM TypeCorrect == Spec => []TypeOK
  <1>1. BracketInv => TypeOK
    BY DEF BracketInv
  <1> QED
    BY <1>1, BracketInvariant, PTL

\* A match of round 2 or later learns both its teams together, and only once every
\* match of the round before it knows a team (tryAdvanceRound).
THEOREM RoundsInOrder == Spec => []RoundsFillInOrder
  <1>1. BracketInv => RoundsFillInOrder
    BY DEF BracketInv
  <1> QED
    BY <1>1, BracketInvariant, PTL

\* No interleaving of score corrections, forfeits, seedings and lost requests puts
\* a team in two matches of one round, or against itself: both sides of a match
\* come from disjoint halves of its subtree.
LEMMA PathsAreDisjoint == BracketInv => OneMatchPerRound
  <1> SUFFICES ASSUME BracketInv PROVE OneMatchPerRound
    OBVIOUS
  <1>0. PathInv
    BY DEF BracketInv
  <1>1. \A m \in Match : m.slot \in Nat
    BY DEF Match, Slots
  <1>2. ASSUME NEW m \in Match, home[m] # None PROVE home[m] # away[m]
    BY <1>0, <1>1, <1>2 DEF PathInv
  <1>3. ASSUME NEW m \in Match, NEW n \in Match, NEW t,
               t \in Sides(m), t \in Sides(n),
               m.round = n.round, ~m.third, ~n.third
        PROVE  m = n
    <2>1. /\ Place(t, m.round - 1) \in {2 * m.slot, 2 * m.slot + 1}
          /\ Place(t, m.round - 1) \in {2 * n.slot, 2 * n.slot + 1}
      BY <1>0, <1>3 DEF PathInv, Sides
    <2>2. m.slot = n.slot
      BY <1>1, <2>1
    <2> QED
      BY <1>3, <2>2, MainMatch
  <1> QED
    BY <1>2, <1>3 DEF OneMatchPerRound

THEOREM BracketIntegrity == Spec => []OneMatchPerRound
  BY PathsAreDisjoint, BracketInvariant, PTL

(***************************************************************************)
(* One request at a time: the scenario of MCKnockoutBracket whose slots    *)
(* are all closed but r1's.  Nobody writes between two steps of a handler, *)
(* so what it remembers of the bracket is still so when it uses it.        *)
(***************************************************************************)
Closed == [Idle EXCEPT !.step = "closed"]

\* A seeding handler holds the outcomes of its round as they are, and the places it has
\* yet to fill are empty.
MemoryHolds ==
    LET q == req[r1]
        n == q.match.round
    IN
    /\ q.step \in Seeding => n < Rounds /\ q.win = Winners(n) /\ q.lose = Losers(n)
    /\ q.step \in {"markValidated", "setCompleted", "writeForfeit",
                   "readForfeit", "readRound", "readNext"} => q.next = 0
    /\ q.step = "seed" =>
          /\ q.next < Width[n + 1]
          /\ \A m \in Match : m.round = n + 1 /\ (m.third \/ m.slot >= q.next) => Untouched(m)
    /\ q.step = "seedThird" => HasRanking /\ n + 1 = Rounds /\ Untouched(ThirdPlace)
    /\ q.step = "resolve" => q.next < Width[1]

\* The teams of round 1 are those of its leaves.
LeavesInv ==
    \A m \in Match : m.round = 1 =>
        home[m] \in {None, 2 * m.slot} /\ away[m] \in {None, 2 * m.slot + 1}

ColumnTypes ==
    /\ home \in [Match -> TeamOrNone]
    /\ away \in [Match -> TeamOrNone]
    /\ status \in [Match -> Statuses]
    /\ score \in [Match -> Score]
    /\ forfeited \in [Match -> TeamOrNone]
    /\ failures \in Nat

SlotTypes ==
    /\ req \in [Requests -> Request \cup {Closed}]
    /\ req[r1] \in Request
    /\ \A q \in Requests \ {r1} : req[q] = Closed

PlacesInv == ColumnTypes /\ SlotTypes /\ LeavesInv /\ MemoryHolds

LEMMA ClosedIsNoStep == Closed.step = "closed" /\ Closed \notin Request
  BY IdleIsARequest DEF Closed, Request, Steps

\* The winners and losers of a round are teams, or nobody.
LEMMA OutcomesTyped ==
    ASSUME ColumnTypes, NEW n \in 1..Rounds
    PROVE  Winners(n) \in [Slots -> TeamOrNone] /\ Losers(n) \in [Slots -> TeamOrNone]
  <1>1. ASSUME NEW s \in Slots, s < Width[n]
        PROVE  Winner(Main(n, s)) \in TeamOrNone /\ Loser(Main(n, s)) \in TeamOrNone
    <2>1. s \in RoundSlots(n)
      BY <1>1, BracketShape DEF RoundSlots, Slots
    <2> DEFINE m == Main(n, s)
    <2>2. m \in Match
      BY <2>1, RoundSlotsFit
    <2> HIDE DEF m
    <2>3. Winner(m) \in {home[m], away[m], None}
      BY Zenon DEF Winner
    <2>4. Loser(m) \in {home[m], away[m], None}
      BY <2>3 DEF Loser
    <2>5. home[m] \in TeamOrNone /\ away[m] \in TeamOrNone /\ None \in TeamOrNone
      BY <2>2 DEF ColumnTypes, TeamOrNone
    <2>6. Winner(m) \in TeamOrNone /\ Loser(m) \in TeamOrNone
      BY <2>3, <2>4, <2>5
    <2> QED
      BY <2>6 DEF m
  <1> QED
    BY <1>1 DEF Winners, Losers, TeamOrNone

\* The outcomes of a round are the same after a step that leaves its matches alone.
LEMMA OutcomesStay ==
    ASSUME NEW n \in 1..Rounds,
           \A s \in RoundSlots(n) :
              LET m == Main(n, s) IN
              /\ home'[m] = home[m] /\ away'[m] = away[m] /\ forfeited'[m] = forfeited[m]
              /\ status'[m] = status[m] /\ score'[m] = score[m]
    PROVE  Winners(n)' = Winners(n) /\ Losers(n)' = Losers(n)
  <1>1. ASSUME NEW s \in Slots, s < Width[n]
        PROVE  Winner(Main(n, s))' = Winner(Main(n, s)) /\ Loser(Main(n, s))' = Loser(Main(n, s))
    <2>1. s \in RoundSlots(n)
      BY <1>1, BracketShape DEF RoundSlots, Slots
    <2> DEFINE m == Main(n, s)
    <2>2. /\ home'[m] = home[m] /\ away'[m] = away[m] /\ forfeited'[m] = forfeited[m]
          /\ status'[m] = status[m] /\ score'[m] = score[m]
      BY <2>1
    <2>3. m' = m
      BY DEF Main
    <2> HIDE DEF m
    <2>4. Winner(m)' = Winner(m)
      BY <2>2, <2>3, Zenon DEF Winner
    <2>5. Loser(m)' = Loser(m)
      BY <2>2, <2>3, <2>4, Zenon DEF Loser
    <2> QED
      BY <2>4, <2>5 DEF m
  <1> QED
    BY <1>1 DEF Winners, Losers

\* Only r1's slot is served; a slot that is closed could only be lost.
LEMMA OnlyOneIsServed ==
    ASSUME SlotTypes, ColumnTypes, MaxFailures = 0, Next
    PROVE  Start(r1) \/ Proceed(r1)
  <1>0. PICK r \in Requests : Start(r) \/ Proceed(r) \/ Fail(r)
    BY DEF Next
  <1>1. Start(r) \/ Proceed(r) => req[r].step # "closed"
    <2>1. CASE Start(r)
      BY <2>1 DEF Start, StartUpsertScore, StartValidateScore, StartClearScore,
                  StartDeclareForfeit, StartUndoForfeit, StartResolve, Accept
    <2>2. CASE Proceed(r)
      BY <2>2 DEF Proceed, WriteScore, SetLive, MarkValidated, SetCompleted, DeleteScore,
                  SetScheduled, WriteForfeit, ReadForfeit, UndoForfeit, ReadRound,
                  ReadNextRound, SeedMatch, SeedThirdPlace, Rate, ResolveMatch
    <2> QED
      BY <2>1, <2>2
  <1>2. ~Fail(r)
    BY DEF Fail, ColumnTypes
  <1> QED
    BY <1>0, <1>1, <1>2, ClosedIsNoStep DEF SlotTypes

\* Status, score row and forfeit of a match agree.
Agrees(m) ==
    /\ status[m] = "SCHEDULED" => score[m] = NoScore
    /\ status[m] = "LIVE" => score[m] # NoScore /\ ~score[m].validated
    /\ status[m] = "COMPLETED" => score[m].validated /\ score[m].result # "DRAW"
    /\ status[m] = "FORFEITED" => score[m] = NoScore /\ forfeited[m] \in Sides(m)
    /\ (forfeited[m] # None) <=> (status[m] = "FORFEITED")

\* Steps before which a handler has written one of its match's columns and not the other.
HalfWritten == {"setLive", "setCompleted", "setScheduled"}

\* What a handler still finds of what it checked, or has written of its match.
RowsAgree ==
    LET q == req[r1]
        m == q.match
    IN
    /\ \A x \in Match : Agrees(x) \/ (x = m /\ q.step \in HalfWritten)
    /\ q.step = "writeScore" => status[m] # "FORFEITED" /\ q.result \in Results
    /\ q.step = "setLive" =>
          score[m] # NoScore /\ ~score[m].validated /\ forfeited[m] = None
    /\ q.step = "markValidated" => Validatable(m)
    /\ q.step = "setCompleted" =>
          score[m].validated /\ score[m].result # "DRAW" /\ forfeited[m] = None
    /\ q.step = "deleteScore" => score[m] # NoScore
    /\ q.step = "setScheduled" => score[m] = NoScore /\ forfeited[m] = None
    /\ q.step = "writeForfeit" => q.team \in Sides(m)
    /\ q.step = "undoForfeit" => status[m] = "FORFEITED"

AloneInv == PlacesInv /\ RowsAgree

\* What is not at a step of the database columns says nothing more of them.
ColumnSteps == {"writeScore", "setLive", "markValidated", "setCompleted", "deleteScore",
                "setScheduled", "writeForfeit", "undoForfeit"}

(***************************************************************************)
(* Frames                                                                  *)
(***************************************************************************)
LEMMA SlotMoves ==
    ASSUME SlotTypes, NEW moved \in Request, req' = [req EXCEPT ![r1] = moved]
    PROVE  SlotTypes' /\ req'[r1] = moved
  BY OneOfThem DEF SlotTypes

LEMMA SlotFinishes ==
    ASSUME SlotTypes, Finish(r1)
    PROVE  SlotTypes' /\ req'[r1] = Idle
  BY SlotMoves, IdleIsARequest DEF Finish

LEMMA SlotGoes ==
    ASSUME SlotTypes, NEW step \in Steps, Goto(r1, step)
    PROVE  /\ SlotTypes' /\ req'[r1].step = step
           /\ req'[r1].match = req[r1].match /\ req'[r1].next = req[r1].next
           /\ req'[r1].win = req[r1].win /\ req'[r1].lose = req[r1].lose
  <1> DEFINE moved == [req[r1] EXCEPT !.step = step]
  <1>1. req[r1] \in Request
    BY DEF SlotTypes
  <1>2. /\ moved \in Request /\ moved.step = step
        /\ moved.match = req[r1].match /\ moved.next = req[r1].next
        /\ moved.win = req[r1].win /\ moved.lose = req[r1].lose
    BY <1>1 DEF Request
  <1>3. req' = [req EXCEPT ![r1] = moved]
    BY DEF Goto
  <1> HIDE DEF moved
  <1> QED
    BY <1>2, <1>3, SlotMoves

\* A step that moves no team, and is not in the middle of tryAdvanceRound or
\* tryResolveFirstRound, keeps what is said of the places.
LEMMA PlacesKept ==
    ASSUME PlacesInv, ColumnTypes', SlotTypes', home' = home, away' = away,
           req'[r1].step \notin Seeding \cup {"resolve"},
           req'[r1].step \in {"markValidated", "setCompleted", "writeForfeit",
                              "readForfeit", "readRound"} => req'[r1].next = 0
    PROVE  PlacesInv'
  <1>1. LeavesInv'
    BY DEF PlacesInv, LeavesInv
  <1>2. MemoryHolds'
    BY Zenon DEF MemoryHolds, Seeding
  <1> QED
    BY <1>1, <1>2 DEF PlacesInv

\* A handler that has nothing more to write of its match leaves rows that agree.
LEMMA RowsKept ==
    ASSUME RowsAgree, UNCHANGED <<home, away, status, score, forfeited>>,
           req[r1].step \notin HalfWritten, req'[r1].step \notin ColumnSteps
    PROVE  RowsAgree'
  <1>1. \A x \in Match : Agrees(x)'
    BY DEF RowsAgree, Agrees, Sides
  <1> QED
    BY <1>1 DEF RowsAgree, ColumnSteps

LEMMA RowsWritten ==
    ASSUME RowsAgree, home' = home, away' = away, NEW m \in Match, m = req[r1].match,
           \A x \in Match \ {m} :
              status'[x] = status[x] /\ score'[x] = score[x] /\ forfeited'[x] = forfeited[x],
           Agrees(m)', req'[r1].step \notin ColumnSteps
    PROVE  RowsAgree'
  <1>1. ASSUME NEW x \in Match \ {m} PROVE Agrees(x)'
    <2>1. Agrees(x)
      BY DEF RowsAgree
    <2> QED
      BY <2>1 DEF Agrees, Sides
  <1>2. \A x \in Match : Agrees(x)'
    BY <1>1
  <1> QED
    BY <1>2 DEF RowsAgree, ColumnSteps

(***************************************************************************)
(* The calls                                                               *)
(***************************************************************************)
LEMMA AloneAccepts ==
    ASSUME AloneInv, NEW op, NEW call \in Request, Accept(r1, op, call),
           call.step \notin Seeding, call.next = 0,
           \/ call.step \notin ColumnSteps
           \/ call.step = "writeScore" /\ status[call.match] # "FORFEITED" /\ call.result \in Results
           \/ call.step = "markValidated" /\ Validatable(call.match)
           \/ call.step = "deleteScore" /\ score[call.match] # NoScore
           \/ call.step = "writeForfeit" /\ call.team \in Sides(call.match)
           \/ call.step = "undoForfeit" /\ status[call.match] = "FORFEITED"
    PROVE  AloneInv'
  <1>1. /\ UNCHANGED <<home, away, status, score, forfeited, failures>>
        /\ req[r1].step = "idle" /\ req' = [req EXCEPT ![r1] = call]
    BY DEF Accept, dbVars
  <1>2. SlotTypes' /\ req'[r1] = call /\ ColumnTypes'
    BY <1>1, SlotMoves DEF AloneInv, PlacesInv, ColumnTypes
  <1>3. LeavesInv'
    BY <1>1 DEF AloneInv, PlacesInv, LeavesInv
  <1>4. MemoryHolds'
    <2>1. 0 < Width[1]
      BY BracketShape
    <2> QED
      BY <1>2, <2>1 DEF MemoryHolds, Seeding
  <1>5. \A x \in Match : Agrees(x)'
    BY <1>1 DEF AloneInv, RowsAgree, HalfWritten, Agrees, Sides
  <1>6. RowsAgree'
    <2>1. /\ status' = status /\ score' = score /\ home' = home /\ away' = away
          /\ req'[r1] = call
      BY <1>1, <1>2
    <2> QED
      BY <1>5, <2>1 DEF RowsAgree, ColumnSteps, Validatable, Sides
  <1> QED
    BY <1>2, <1>3, <1>4, <1>6 DEF AloneInv, PlacesInv

LEMMA AloneStarts ==
    ASSUME AloneInv, Start(r1)
    PROVE  AloneInv'
  <1> USE IdleIsARequest
  <1>0. ColumnTypes
    BY DEF AloneInv, PlacesInv
  <1>1. CASE StartUpsertScore(r1)
    <2> PICK m \in Match, result \in Results :
             /\ status[m] # "FORFEITED"
             /\ Accept(r1, "upsertScore",
                       [Idle EXCEPT !.step = "writeScore", !.match = m, !.result = result])
      BY <1>1 DEF StartUpsertScore
    <2> DEFINE call == [Idle EXCEPT !.step = "writeScore", !.match = m, !.result = result]
    <2>1. /\ call \in Request /\ call.next = 0 /\ call.step = "writeScore"
          /\ call.match = m /\ call.result = result
      BY DEF Request, Steps, Results
    <2> HIDE DEF call
    <2> QED
      BY <2>1, AloneAccepts DEF Seeding, call
  <1>2. CASE StartValidateScore(r1)
    <2> PICK m \in Match :
             /\ Validatable(m)
             /\ Accept(r1, "validateScore", [Idle EXCEPT !.step = "markValidated", !.match = m])
      BY <1>2 DEF StartValidateScore
    <2> DEFINE call == [Idle EXCEPT !.step = "markValidated", !.match = m]
    <2>1. /\ call \in Request /\ call.next = 0 /\ call.step = "markValidated" /\ call.match = m
      BY DEF Request, Steps, Results
    <2> HIDE DEF call
    <2> QED
      BY <2>1, AloneAccepts DEF Seeding, call
  <1>3. CASE StartClearScore(r1)
    <2> PICK m \in Match :
             /\ score[m] # NoScore
             /\ Accept(r1, "clearScore", [Idle EXCEPT !.step = "deleteScore", !.match = m])
      BY <1>3 DEF StartClearScore
    <2> DEFINE call == [Idle EXCEPT !.step = "deleteScore", !.match = m]
    <2>1. /\ call \in Request /\ call.next = 0 /\ call.step = "deleteScore" /\ call.match = m
      BY DEF Request, Steps, Results
    <2> HIDE DEF call
    <2> QED
      BY <2>1, AloneAccepts DEF Seeding, call
  <1>4. CASE StartDeclareForfeit(r1)
    <2> PICK m \in Match : \E t \in {home[m], away[m]} \ {None} :
             Accept(r1, "declareForfeit",
                    [Idle EXCEPT !.step = "writeForfeit", !.match = m, !.team = t])
      BY <1>4 DEF StartDeclareForfeit
    <2> PICK t \in {home[m], away[m]} \ {None} :
             Accept(r1, "declareForfeit",
                    [Idle EXCEPT !.step = "writeForfeit", !.match = m, !.team = t])
      OBVIOUS
    <2> DEFINE call == [Idle EXCEPT !.step = "writeForfeit", !.match = m, !.team = t]
    <2>0. t \in TeamOrNone
      BY <1>0 DEF ColumnTypes
    <2>1. /\ call \in Request /\ call.next = 0 /\ call.step = "writeForfeit"
          /\ call.match = m /\ call.team = t
      BY <2>0 DEF Request, Steps, Results
    <2> HIDE DEF call
    <2> QED
      BY <2>1, AloneAccepts DEF Seeding, Sides, call
  <1>5. CASE StartUndoForfeit(r1)
    <2> PICK m \in Match :
             /\ status[m] = "FORFEITED"
             /\ Accept(r1, "undoForfeit", [Idle EXCEPT !.step = "undoForfeit", !.match = m])
      BY <1>5 DEF StartUndoForfeit
    <2> DEFINE call == [Idle EXCEPT !.step = "undoForfeit", !.match = m]
    <2>1. /\ call \in Request /\ call.next = 0 /\ call.step = "undoForfeit" /\ call.match = m
      BY DEF Request, Steps, Results
    <2> HIDE DEF call
    <2> QED
      BY <2>1, AloneAccepts DEF Seeding, call
  <1>6. CASE StartResolve(r1)
    <2> DEFINE pend == [s \in Slots |-> IF Pending(s) THEN s ELSE None]
               call == [Idle EXCEPT !.step = "resolve", !.win = pend]
    <2>1. Accept(r1, "resolve", call)
      BY <1>6 DEF StartResolve
    <2>2. pend \in [Slots -> TeamOrNone]
      BY RoundSlotsFit DEF TeamOrNone
    <2> HIDE DEF pend
    <2>3. call \in Request /\ call.step = "resolve" /\ call.next = 0
      BY <2>2 DEF Request, Steps
    <2> HIDE DEF call
    <2> QED
      BY <2>1, <2>3, AloneAccepts DEF Seeding, ColumnSteps
  <1> QED
    BY <1>1, <1>2, <1>3, <1>4, <1>5, <1>6 DEF Start

(***************************************************************************)
(* The steps of a handler on its own match                                 *)
(***************************************************************************)
LEMMA AloneFacts ==
    ASSUME AloneInv
    PROVE  /\ ColumnTypes /\ SlotTypes /\ req[r1] \in Request
           /\ req[r1].match \in Match /\ req[r1].match.round \in 1..Rounds
           /\ req[r1].next \in Nat
  BY DEF AloneInv, PlacesInv, SlotTypes, Request, Match

\* Between the two writes of a handler: the other matches still agree.
LEMMA HalfWay ==
    ASSUME RowsAgree, home' = home, away' = away, NEW m \in Match, m = req[r1].match,
           req'[r1].match = m,
           \A x \in Match \ {m} :
              status'[x] = status[x] /\ score'[x] = score[x] /\ forfeited'[x] = forfeited[x],
           forfeited'[m] = None,
           \/ req'[r1].step = "setLive" /\ score'[m] # NoScore /\ ~score'[m].validated
           \/ req'[r1].step = "setCompleted" /\ score'[m].validated /\ score'[m].result # "DRAW"
           \/ req'[r1].step = "setScheduled" /\ score'[m] = NoScore
    PROVE  RowsAgree'
  <1>1. ASSUME NEW x \in Match \ {m} PROVE Agrees(x)'
    <2>1. Agrees(x)
      BY DEF RowsAgree
    <2> QED
      BY <2>1 DEF Agrees, Sides
  <1>2. req'[r1].step \in HalfWritten
    BY DEF HalfWritten
  <1> QED
    BY <1>1, <1>2 DEF RowsAgree

\* upsertScore's two writes.
LEMMA AloneUpserts ==
    ASSUME AloneInv, WriteScore(r1) \/ SetLive(r1)
    PROVE  AloneInv'
  <1>0. ColumnTypes /\ SlotTypes /\ PlacesInv /\ RowsAgree
    BY AloneFacts DEF AloneInv
  <1> PICK m \in Match : m = req[r1].match
    BY AloneFacts
  <1>a. \A x \in Match : status[x] \in Statuses /\ score[x] \in Score /\ forfeited[x] \in TeamOrNone
    BY <1>0 DEF ColumnTypes
  <1>1. CASE WriteScore(r1)
    <2> DEFINE sc == [result |-> req[r1].result, validated |-> FALSE]
    <2>1. /\ req[r1].step = "writeScore" /\ Goto(r1, "setLive") /\ "setLive" \in Steps
          /\ score' = [score EXCEPT ![m] = sc]
          /\ UNCHANGED <<home, away, status, forfeited, failures>>
      BY <1>1 DEF WriteScore, Steps
    <2>2. Agrees(m) /\ status[m] # "FORFEITED" /\ req[r1].result \in Results
      BY <1>0, <2>1 DEF RowsAgree, HalfWritten
    <2>3. sc \in Score /\ sc # NoScore /\ ~sc.validated
      BY <2>2 DEF Score, NoScore, Results
    <2>4. status' = [status EXCEPT ![m] = status[m]] /\ forfeited' = [forfeited EXCEPT ![m] = forfeited[m]]
      BY <1>0, <2>1 DEF ColumnTypes
    <2> HIDE DEF sc
    <2>5. /\ ColumnTypes' /\ score'[m] = sc /\ forfeited'[m] = forfeited[m]
          /\ \A x \in Match \ {m} :
                status'[x] = status[x] /\ score'[x] = score[x] /\ forfeited'[x] = forfeited[x]
      BY <1>0, <1>a, <2>1, <2>3, <2>4 DEF ColumnTypes
    <2>6. SlotTypes' /\ req'[r1].step = "setLive" /\ req'[r1].match = m
      BY <1>0, <2>1, SlotGoes
    <2>7. PlacesInv'
      BY <1>0, <2>1, <2>5, <2>6, PlacesKept DEF Seeding
    <2>8. RowsAgree'
      <3>1. forfeited[m] = None
        BY <2>2 DEF Agrees
      <3> QED
        BY <1>0, <2>1, <2>3, <2>5, <2>6, <3>1, HalfWay
    <2> QED
      BY <2>7, <2>8 DEF AloneInv
  <1>2. CASE SetLive(r1)
    <2>1. /\ req[r1].step = "setLive" /\ Finish(r1)
          /\ status' = [status EXCEPT ![m] = "LIVE"]
          /\ UNCHANGED <<home, away, score, forfeited, failures>>
      BY <1>2 DEF SetLive
    <2>2. score[m] # NoScore /\ ~score[m].validated /\ forfeited[m] = None
      BY <1>0, <2>1 DEF RowsAgree
    <2>4. score' = [score EXCEPT ![m] = score[m]] /\ forfeited' = [forfeited EXCEPT ![m] = forfeited[m]]
      BY <1>0, <2>1 DEF ColumnTypes
    <2>5. /\ ColumnTypes' /\ status'[m] = "LIVE" /\ score'[m] = score[m]
          /\ forfeited'[m] = forfeited[m]
          /\ \A x \in Match \ {m} :
                status'[x] = status[x] /\ score'[x] = score[x] /\ forfeited'[x] = forfeited[x]
      <3>1. "LIVE" \in Statuses
        BY DEF Statuses
      <3> QED
        BY <1>0, <1>a, <2>1, <2>4, <3>1 DEF ColumnTypes
    <2>6. SlotTypes' /\ req'[r1] = Idle
      BY <1>0, <2>1, SlotFinishes
    <2>7. PlacesInv'
      BY <1>0, <2>1, <2>5, <2>6, PlacesKept, IdleIsARequest DEF Seeding
    <2>8. RowsAgree'
      <3>1. Agrees(m)'
        BY <2>2, <2>5 DEF Agrees
      <3> QED
        BY <1>0, <2>1, <2>5, <2>6, <3>1, RowsWritten, IdleIsARequest DEF ColumnSteps
    <2> QED
      BY <2>7, <2>8 DEF AloneInv
  <1> QED
    BY <1>1, <1>2

\* validateScore's two writes.
LEMMA AloneValidates ==
    ASSUME AloneInv, MarkValidated(r1) \/ SetCompleted(r1)
    PROVE  AloneInv'
  <1>0. ColumnTypes /\ SlotTypes /\ PlacesInv /\ RowsAgree
    BY AloneFacts DEF AloneInv
  <1> PICK m \in Match : m = req[r1].match
    BY AloneFacts
  <1>a. \A x \in Match : status[x] \in Statuses /\ score[x] \in Score /\ forfeited[x] \in TeamOrNone
    BY <1>0 DEF ColumnTypes
  <1>1. CASE MarkValidated(r1)
    <2> DEFINE sc == [score[m] EXCEPT !.validated = TRUE]
    <2>0. req[r1].step = "markValidated" /\ req[r1].next = 0
      BY <1>0, <1>1 DEF MarkValidated, PlacesInv, MemoryHolds
    <2>2. Agrees(m) /\ score[m] # NoScore /\ score[m].result # "DRAW"
      BY <1>0, <2>0 DEF RowsAgree, HalfWritten, Validatable
    <2>1. /\ Goto(r1, "setCompleted") /\ "setCompleted" \in Steps
          /\ score' = [score EXCEPT ![m].validated = TRUE]
          /\ UNCHANGED <<home, away, status, forfeited, failures>>
      BY <1>1, <2>2 DEF MarkValidated, Steps
    <2>3. sc \in Score /\ sc.validated /\ sc.result # "DRAW"
      BY <1>a, <2>2 DEF Score
    <2>4. /\ status' = [status EXCEPT ![m] = status[m]]
          /\ forfeited' = [forfeited EXCEPT ![m] = forfeited[m]]
          /\ score' = [score EXCEPT ![m] = sc]
      BY <1>0, <2>1 DEF ColumnTypes
    <2> HIDE DEF sc
    <2>5. /\ ColumnTypes' /\ score'[m] = sc /\ forfeited'[m] = forfeited[m]
          /\ \A x \in Match \ {m} :
                status'[x] = status[x] /\ score'[x] = score[x] /\ forfeited'[x] = forfeited[x]
      BY <1>0, <1>a, <2>1, <2>3, <2>4 DEF ColumnTypes
    <2>6. SlotTypes' /\ req'[r1].step = "setCompleted" /\ req'[r1].match = m /\ req'[r1].next = 0
      BY <1>0, <2>0, <2>1, SlotGoes
    <2>7. PlacesInv'
      BY <1>0, <2>1, <2>5, <2>6, PlacesKept DEF Seeding
    <2>8. RowsAgree'
      <3>1. forfeited[m] = None
        BY <1>a, <2>2 DEF Agrees, Statuses
      <3> QED
        BY <1>0, <2>1, <2>3, <2>5, <2>6, <3>1, HalfWay
    <2> QED
      BY <2>7, <2>8 DEF AloneInv
  <1>2. CASE SetCompleted(r1)
    <2> DEFINE sides == [home |-> home[m], away |-> away[m]]
               moved == [req[r1] EXCEPT !.step = "readRound", !.rated = sides]
    <2>1. /\ req[r1].step = "setCompleted" /\ req' = [req EXCEPT ![r1] = moved]
          /\ status' = [status EXCEPT ![m] = "COMPLETED"]
          /\ UNCHANGED <<home, away, score, forfeited, failures>>
      BY <1>2 DEF SetCompleted
    <2>2. score[m].validated /\ score[m].result # "DRAW" /\ forfeited[m] = None
      BY <1>0, <2>1 DEF RowsAgree
    <2>3. req[r1].next = 0
      BY <1>0, <2>1 DEF PlacesInv, MemoryHolds
    <2>4. score' = [score EXCEPT ![m] = score[m]] /\ forfeited' = [forfeited EXCEPT ![m] = forfeited[m]]
      BY <1>0, <2>1 DEF ColumnTypes
    <2>5. /\ ColumnTypes' /\ status'[m] = "COMPLETED" /\ score'[m] = score[m]
          /\ forfeited'[m] = forfeited[m]
          /\ \A x \in Match \ {m} :
                status'[x] = status[x] /\ score'[x] = score[x] /\ forfeited'[x] = forfeited[x]
      <3>1. "COMPLETED" \in Statuses
        BY DEF Statuses
      <3> QED
        BY <1>0, <1>a, <2>1, <2>4, <3>1 DEF ColumnTypes
    <2>6. moved \in Request /\ moved.step = "readRound" /\ moved.next = 0
      <3>1. sides \in [home : TeamOrNone, away : TeamOrNone] /\ "readRound" \in Steps
        BY <1>0 DEF ColumnTypes, Steps
      <3> HIDE DEF sides
      <3>2. req[r1] \in Request
        BY AloneFacts
      <3> QED
        BY <2>3, <3>1, <3>2 DEF Request
    <2> HIDE DEF moved
    <2>7. SlotTypes' /\ req'[r1] = moved
      BY <1>0, <2>1, <2>6, SlotMoves
    <2>8. PlacesInv'
      BY <1>0, <2>1, <2>5, <2>6, <2>7, PlacesKept DEF Seeding
    <2>9. RowsAgree'
      <3>1. Agrees(m)'
        BY <2>2, <2>5 DEF Agrees
      <3> QED
        BY <1>0, <2>1, <2>5, <2>6, <2>7, <3>1, RowsWritten DEF ColumnSteps
    <2> QED
      BY <2>8, <2>9 DEF AloneInv
  <1> QED
    BY <1>1, <1>2

\* clearScore's two writes.
LEMMA AloneClears ==
    ASSUME AloneInv, DeleteScore(r1) \/ SetScheduled(r1)
    PROVE  AloneInv'
  <1>0. ColumnTypes /\ SlotTypes /\ PlacesInv /\ RowsAgree
    BY AloneFacts DEF AloneInv
  <1> PICK m \in Match : m = req[r1].match
    BY AloneFacts
  <1>a. NoScore \in Score /\ "SCHEDULED" \in Statuses
    BY DEF NoScore, Score, Statuses
  <1>1. CASE DeleteScore(r1)
    <2>1. req[r1].step = "deleteScore"
      BY <1>1 DEF DeleteScore
    <2>2. Agrees(m) /\ score[m] # NoScore
      BY <1>0, <2>1 DEF RowsAgree, HalfWritten
    <2>3. /\ Goto(r1, "setScheduled") /\ "setScheduled" \in Steps
          /\ score' = [score EXCEPT ![m] = NoScore]
          /\ UNCHANGED <<home, away, status, forfeited, failures>>
      BY <1>1, <2>2 DEF DeleteScore, Steps
    <2>4. /\ ColumnTypes' /\ score'[m] = NoScore /\ forfeited'[m] = forfeited[m]
          /\ \A x \in Match \ {m} :
                status'[x] = status[x] /\ score'[x] = score[x] /\ forfeited'[x] = forfeited[x]
      BY <1>0, <1>a, <2>3 DEF ColumnTypes
    <2>5. SlotTypes' /\ req'[r1].step = "setScheduled" /\ req'[r1].match = m
      BY <1>0, <2>3, SlotGoes
    <2>6. PlacesInv'
      BY <1>0, <2>3, <2>4, <2>5, PlacesKept DEF Seeding
    <2>7. RowsAgree'
      <3>1. forfeited[m] = None
        BY <2>2 DEF Agrees
      <3> QED
        BY <1>0, <2>3, <2>4, <2>5, <3>1, HalfWay
    <2> QED
      BY <2>6, <2>7 DEF AloneInv
  <1>2. CASE SetScheduled(r1)
    <2>1. /\ req[r1].step = "setScheduled" /\ Finish(r1)
          /\ status' = [status EXCEPT ![m] = "SCHEDULED"]
          /\ UNCHANGED <<home, away, score, forfeited, failures>>
      BY <1>2 DEF SetScheduled
    <2>2. score[m] = NoScore /\ forfeited[m] = None
      BY <1>0, <2>1 DEF RowsAgree
    <2>3. /\ ColumnTypes' /\ status'[m] = "SCHEDULED" /\ score'[m] = score[m]
          /\ forfeited'[m] = forfeited[m]
          /\ \A x \in Match \ {m} :
                status'[x] = status[x] /\ score'[x] = score[x] /\ forfeited'[x] = forfeited[x]
      BY <1>0, <1>a, <2>1 DEF ColumnTypes
    <2>4. SlotTypes' /\ req'[r1] = Idle
      BY <1>0, <2>1, SlotFinishes
    <2>5. PlacesInv'
      BY <1>0, <2>1, <2>3, <2>4, PlacesKept, IdleIsARequest DEF Seeding
    <2>6. RowsAgree'
      <3>1. Agrees(m)'
        BY <2>2, <2>3 DEF Agrees
      <3> QED
        BY <1>0, <2>1, <2>3, <2>4, <3>1, RowsWritten, IdleIsARequest DEF ColumnSteps
    <2> QED
      BY <2>5, <2>6 DEF AloneInv
  <1> QED
    BY <1>1, <1>2

\* declareForfeit's and undoForfeit's writes, and the ratings of a match.
LEMMA AloneForfeits ==
    ASSUME AloneInv, WriteForfeit(r1) \/ ReadForfeit(r1) \/ UndoForfeit(r1) \/ Rate(r1)
    PROVE  AloneInv'
  <1>0. ColumnTypes /\ SlotTypes /\ PlacesInv /\ RowsAgree /\ req[r1] \in Request
    BY AloneFacts DEF AloneInv
  <1> PICK m \in Match : m = req[r1].match
    BY AloneFacts
  <1>a. NoScore \in Score /\ "SCHEDULED" \in Statuses /\ "FORFEITED" \in Statuses
        /\ None \in TeamOrNone
    BY DEF NoScore, Score, Statuses, TeamOrNone
  <1>1. CASE WriteForfeit(r1)
    <2>1. /\ req[r1].step = "writeForfeit" /\ Goto(r1, "readForfeit") /\ "readForfeit" \in Steps
          /\ score' = [score EXCEPT ![m] = NoScore]
          /\ status' = [status EXCEPT ![m] = "FORFEITED"]
          /\ forfeited' = [forfeited EXCEPT ![m] = req[r1].team]
          /\ UNCHANGED <<home, away, failures>>
      BY <1>1 DEF WriteForfeit, Steps
    <2>2. req[r1].team \in Sides(m) /\ req[r1].next = 0
      BY <1>0, <2>1 DEF RowsAgree, PlacesInv, MemoryHolds
    <2>3. req[r1].team \in TeamOrNone /\ req[r1].team # None
      BY <1>0, <2>2 DEF Sides, ColumnTypes
    <2>4. /\ ColumnTypes' /\ score'[m] = NoScore /\ forfeited'[m] = req[r1].team
          /\ status'[m] = "FORFEITED"
          /\ \A x \in Match \ {m} :
                status'[x] = status[x] /\ score'[x] = score[x] /\ forfeited'[x] = forfeited[x]
      BY <1>0, <1>a, <2>1, <2>3 DEF ColumnTypes
    <2>5. SlotTypes' /\ req'[r1].step = "readForfeit" /\ req'[r1].next = 0
      BY <1>0, <2>1, <2>2, SlotGoes
    <2>6. PlacesInv'
      BY <1>0, <2>1, <2>4, <2>5, PlacesKept DEF Seeding
    <2>7. RowsAgree'
      <3>1. Agrees(m)'
        BY <2>1, <2>2, <2>3, <2>4 DEF Agrees, Sides
      <3> QED
        BY <1>0, <2>1, <2>4, <2>5, <3>1, RowsWritten DEF ColumnSteps
    <2> QED
      BY <2>6, <2>7 DEF AloneInv
  <1>2. CASE ReadForfeit(r1)
    <2> DEFINE sides == [home |-> home[m], away |-> away[m]]
               moved == [req[r1] EXCEPT !.step = "readRound", !.rated = sides]
    <2>1. /\ req[r1].step = "readForfeit" /\ req' = [req EXCEPT ![r1] = moved]
          /\ UNCHANGED <<home, away, status, score, forfeited, failures>>
      BY <1>2 DEF ReadForfeit, dbVars
    <2>2. req[r1].next = 0
      BY <1>0, <2>1 DEF PlacesInv, MemoryHolds
    <2>3. moved \in Request /\ moved.step = "readRound" /\ moved.next = 0
      <3>1. sides \in [home : TeamOrNone, away : TeamOrNone] /\ "readRound" \in Steps
        BY <1>0 DEF ColumnTypes, Steps
      <3> HIDE DEF sides
      <3> QED
        BY <1>0, <2>2, <3>1 DEF Request
    <2> HIDE DEF moved
    <2>4. SlotTypes' /\ req'[r1] = moved /\ ColumnTypes'
      BY <1>0, <2>1, <2>3, SlotMoves DEF ColumnTypes
    <2>5. PlacesInv'
      BY <1>0, <2>1, <2>3, <2>4, PlacesKept DEF Seeding
    <2>6. RowsAgree'
      BY <1>0, <2>1, <2>3, <2>4, RowsKept DEF HalfWritten, ColumnSteps
    <2> QED
      BY <2>5, <2>6 DEF AloneInv
  <1>3. CASE UndoForfeit(r1)
    <2>1. /\ req[r1].step = "undoForfeit" /\ Finish(r1)
          /\ status' = [status EXCEPT ![m] = "SCHEDULED"]
          /\ forfeited' = [forfeited EXCEPT ![m] = None]
          /\ UNCHANGED <<home, away, score, failures>>
      BY <1>3 DEF UndoForfeit
    <2>2. score[m] = NoScore
      BY <1>0, <2>1 DEF RowsAgree, HalfWritten, Agrees
    <2>3. /\ ColumnTypes' /\ status'[m] = "SCHEDULED" /\ score'[m] = score[m]
          /\ forfeited'[m] = None
          /\ \A x \in Match \ {m} :
                status'[x] = status[x] /\ score'[x] = score[x] /\ forfeited'[x] = forfeited[x]
      BY <1>0, <1>a, <2>1 DEF ColumnTypes
    <2>4. SlotTypes' /\ req'[r1] = Idle
      BY <1>0, <2>1, SlotFinishes
    <2>5. PlacesInv'
      BY <1>0, <2>1, <2>3, <2>4, PlacesKept, IdleIsARequest DEF Seeding
    <2>6. RowsAgree'
      <3>1. Agrees(m)'
        BY <2>2, <2>3 DEF Agrees
      <3> QED
        BY <1>0, <2>1, <2>3, <2>4, <3>1, RowsWritten, IdleIsARequest DEF ColumnSteps
    <2> QED
      BY <2>5, <2>6 DEF AloneInv
  <1>4. CASE Rate(r1)
    <2>1. /\ req[r1].step = "rate" /\ Finish(r1)
          /\ UNCHANGED <<home, away, status, score, forfeited, failures>>
      BY <1>4 DEF Rate
    <2>2. SlotTypes' /\ req'[r1] = Idle /\ ColumnTypes'
      BY <1>0, <2>1, SlotFinishes DEF ColumnTypes
    <2>3. PlacesInv'
      BY <1>0, <2>1, <2>2, PlacesKept, IdleIsARequest DEF Seeding
    <2>4. RowsAgree'
      BY <1>0, <2>1, <2>2, RowsKept, IdleIsARequest DEF HalfWritten, ColumnSteps
    <2> QED
      BY <2>3, <2>4 DEF AloneInv
  <1> QED
    BY <1>1, <1>2, <1>3, <1>4

(***************************************************************************)
(* tryAdvanceRound and tryResolveFirstRound, alone                         *)
(***************************************************************************)
LEMMA AloneReads ==
    ASSUME AloneInv, ReadRound(r1) \/ ReadNextRound(r1)
    PROVE  AloneInv'
  <1>0. /\ ColumnTypes /\ SlotTypes /\ PlacesInv /\ RowsAgree /\ req[r1] \in Request
        /\ LeavesInv /\ MemoryHolds
    BY AloneFacts DEF AloneInv, PlacesInv
  <1> PICK n \in 1..Rounds : n = req[r1].match.round
    BY AloneFacts
  <1>1. /\ UNCHANGED <<home, away, status, score, forfeited, failures>>
        /\ req[r1].step \in {"readRound", "readNext"} /\ req[r1].next = 0
    BY <1>0 DEF ReadRound, ReadNextRound, dbVars, MemoryHolds
  <1>2. ColumnTypes' /\ LeavesInv'
    BY <1>0, <1>1 DEF ColumnTypes, LeavesInv
  <1>3. ASSUME req'[r1].step \in {"readNext", "seed", "rate"}
        PROVE  RowsAgree'
    BY <1>0, <1>1, <1>3, RowsKept DEF HalfWritten, ColumnSteps
  <1>4. Winners(n)' = Winners(n) /\ Losers(n)' = Losers(n)
    BY <1>1, OutcomesStay
  <1>5. CASE Goto(r1, "rate")
    <2>1. SlotTypes' /\ req'[r1].step = "rate"
      <3>1. "rate" \in Steps
        BY DEF Steps
      <3> QED
        BY <1>0, <1>5, <3>1, SlotGoes
    <2>2. PlacesInv'
      BY <1>0, <1>1, <1>2, <2>1, PlacesKept DEF Seeding
    <2> QED
      BY <1>3, <2>1, <2>2 DEF AloneInv
  <1>6. ASSUME ReadRound(r1), n < Rounds,
               req' = [req EXCEPT ![r1].step = "readNext", ![r1].win = Winners(n),
                                  ![r1].lose = Losers(n)]
        PROVE  AloneInv'
    <2>1. PICK win \in [Slots -> TeamOrNone] : win = Winners(n)
      BY <1>0, OutcomesTyped
    <2>2. PICK lose \in [Slots -> TeamOrNone] : lose = Losers(n)
      BY <1>0, OutcomesTyped
    <2> DEFINE moved == [req[r1] EXCEPT !.step = "readNext", !.win = win, !.lose = lose]
    <2>3. /\ moved \in Request /\ moved.step = "readNext" /\ moved.match = req[r1].match
          /\ moved.next = req[r1].next /\ moved.win = win /\ moved.lose = lose
      BY <1>0 DEF Request, Steps
    <2>4. req' = [req EXCEPT ![r1] = moved]
      BY <1>6, <2>1, <2>2
    <2> HIDE DEF moved
    <2>5. SlotTypes' /\ req'[r1] = moved
      BY <1>0, <2>3, <2>4, SlotMoves
    <2>6. MemoryHolds'
      <3>1. /\ req'[r1].step = "readNext" /\ req'[r1].match.round = n /\ n < Rounds
            /\ req'[r1].next = 0
            /\ req'[r1].win = Winners(n)' /\ req'[r1].lose = Losers(n)'
        BY <1>1, <1>4, <1>6, <2>1, <2>2, <2>3, <2>5
      <3> QED
        BY <3>1 DEF MemoryHolds, Seeding, Winners, Losers
    <2> QED
      BY <1>2, <1>3, <2>3, <2>5, <2>6 DEF AloneInv, PlacesInv
  <1>7. ASSUME ReadNextRound(r1), RoundUntouched(n + 1), Goto(r1, "seed")
        PROVE  AloneInv'
    <2>1. /\ SlotTypes' /\ req'[r1].step = "seed" /\ req'[r1].match = req[r1].match
          /\ req'[r1].next = req[r1].next
          /\ req'[r1].win = req[r1].win /\ req'[r1].lose = req[r1].lose
      <3>1. "seed" \in Steps
        BY DEF Steps
      <3> QED
        BY <1>0, <1>7, <3>1, SlotGoes
    <2>2. n < Rounds /\ req[r1].win = Winners(n) /\ req[r1].lose = Losers(n)
      BY <1>0, <1>7 DEF ReadNextRound, MemoryHolds, Seeding
    <2>3. 0 < Width[n + 1]
      BY <2>2, NextWidth
    <2>4. MemoryHolds'
      <3>1. /\ req'[r1].step = "seed" /\ req'[r1].match.round = n /\ n < Rounds
            /\ req'[r1].next = 0 /\ 0 < Width[n + 1]
            /\ req'[r1].win = Winners(n)' /\ req'[r1].lose = Losers(n)'
            /\ \A m \in Match : m.round = n + 1 => Untouched(m)'
        BY <1>1, <1>4, <1>7, <2>1, <2>2, <2>3 DEF RoundUntouched, Untouched
      <3> QED
        BY <3>1 DEF MemoryHolds, Seeding, Winners, Losers, Untouched
    <2> QED
      BY <1>2, <1>3, <2>1, <2>4 DEF AloneInv, PlacesInv
  <1> QED
    BY <1>5, <1>6, <1>7 DEF ReadRound, ReadNextRound

\* A place of a later round goes to the outcome of the match that feeds it, and what is
\* given stays.
PlacesFollow ==
    \A m \in Match :
        LET Outcome(f) == IF m.third THEN Loser(f) ELSE Winner(f) IN
        /\ home[m] # None => home'[m] = home[m]
        /\ away[m] # None => away'[m] = away[m]
        /\ m.round > 1 =>
              /\ home'[m] # home[m] => home'[m] = Outcome(HomeFeeder(m))
              /\ away'[m] # away[m] => away'[m] = Outcome(AwayFeeder(m))

\* Filling an empty match of the next round with outcomes of this one.
LEMMA AloneFills ==
    ASSUME AloneInv, NEW n \in 1..Rounds, n < Rounds, NEW M \in Match, M.round = n + 1,
           Untouched(M), NEW x \in TeamOrNone, NEW y \in TeamOrNone,
           x = IF M.third THEN Loser(HomeFeeder(M)) ELSE Winner(HomeFeeder(M)),
           y = IF M.third THEN Loser(AwayFeeder(M)) ELSE Winner(AwayFeeder(M)),
           home' = [home EXCEPT ![M] = x], away' = [away EXCEPT ![M] = y],
           UNCHANGED <<status, score, forfeited, failures>>,
           req[r1].step \notin HalfWritten, req'[r1].step \notin ColumnSteps
    PROVE  /\ ColumnTypes' /\ LeavesInv' /\ RowsAgree' /\ PlacesFollow
           /\ Winners(n)' = Winners(n) /\ Losers(n)' = Losers(n)
           /\ \A m \in Match \ {M} : Untouched(m) => Untouched(m)'
  <1>0. ColumnTypes /\ LeavesInv /\ RowsAgree
    BY DEF AloneInv, PlacesInv
  <1>1. /\ home'[M] = x /\ away'[M] = y
        /\ \A m \in Match \ {M} : home'[m] = home[m] /\ away'[m] = away[m]
        /\ ColumnTypes'
    BY <1>0 DEF ColumnTypes
  <1>2. LeavesInv'
    BY <1>0, <1>1 DEF LeavesInv
  <1>3. \A x1 \in Match : Agrees(x1)'
    <2>1. ASSUME NEW m \in Match \ {M} PROVE Agrees(m)'
      BY <1>0, <1>1, <2>1 DEF RowsAgree, Agrees, Sides
    <2>2. Agrees(M)'
      <3>1. Agrees(M)
        BY <1>0 DEF RowsAgree
      <3>2. status[M] # "FORFEITED"
        BY <3>1 DEF Agrees, Sides, Untouched
      <3> QED
        BY <3>1, <3>2 DEF Agrees
    <2> QED
      BY <2>1, <2>2
  <1>4. RowsAgree'
    BY <1>3 DEF RowsAgree, ColumnSteps
  <1>5. PlacesFollow
    BY <1>1 DEF PlacesFollow, Untouched
  <1>6. \A s \in RoundSlots(n) : Main(n, s) \in Match \ {M}
    BY RoundSlotsFit DEF Main
  <1>7. Winners(n)' = Winners(n) /\ Losers(n)' = Losers(n)
    BY <1>1, <1>6, OutcomesStay
  <1> QED
    BY <1>1, <1>2, <1>4, <1>5, <1>7 DEF Untouched

LEMMA AloneSeeds ==
    ASSUME AloneInv, SeedMatch(r1)
    PROVE  AloneInv' /\ PlacesFollow
  <1>0. /\ ColumnTypes /\ SlotTypes /\ PlacesInv /\ req[r1] \in Request /\ MemoryHolds
        /\ req[r1].next \in Nat
    BY AloneFacts DEF AloneInv, PlacesInv
  <1> PICK n \in 1..Rounds : n = req[r1].match.round
    BY AloneFacts
  <1> PICK s \in Nat : s = req[r1].next
    BY <1>0
  <1>1. /\ req[r1].step = "seed" /\ n < Rounds /\ s < Width[n + 1]
        /\ req[r1].win = Winners(n) /\ req[r1].lose = Losers(n)
        /\ \A m \in Match : m.round = n + 1 /\ (m.third \/ m.slot >= s) => Untouched(m)
    BY <1>0 DEF SeedMatch, MemoryHolds, Seeding
  <1> PICK M \in Match : M = Main(n + 1, s)
    BY <1>1, RoundSlotsFit
  <1>2. M.round = n + 1 /\ M.slot = s /\ ~M.third
    BY DEF Main
  <1>3. /\ 2 * s \in RoundSlots(n) /\ 2 * s + 1 \in RoundSlots(n)
        /\ 2 * s \in Slots /\ 2 * s + 1 \in Slots
        /\ 2 * s < Width[n] /\ 2 * s + 1 < Width[n]
    <2>1. 2 * s \in RoundSlots(n) /\ 2 * s + 1 \in RoundSlots(n)
      BY <1>1, RoundSlotsFit
    <2>2. Width[n] \in Nat /\ RoundSlots(n) \subseteq Slots
      <3>1. Width[n] \in Nat
        BY WidthIsNat
      <3>2. RoundSlots(n) \subseteq Slots
        BY RoundSlotsFit
      <3> QED
        BY <3>1, <3>2
    <2>3. 2 * s < Width[n] /\ 2 * s + 1 < Width[n]
      BY <2>1, <2>2 DEF RoundSlots
    <2> QED
      BY <2>1, <2>2, <2>3
  <1> DEFINE x == req[r1].win[2 * s]
             y == req[r1].win[2 * s + 1]
  <1>4. x = Winner(HomeFeeder(M)) /\ y = Winner(AwayFeeder(M))
    <2>1. HomeFeeder(M) = Main(n, 2 * s) /\ AwayFeeder(M) = Main(n, 2 * s + 1)
      BY <1>2 DEF HomeFeeder, AwayFeeder
    <2> QED
      BY <1>1, <1>3, <2>1 DEF Winners
  <1>5. x \in TeamOrNone /\ y \in TeamOrNone
    BY <1>0, <1>3 DEF Request
  <1>6. /\ home' = [home EXCEPT ![M] = x] /\ away' = [away EXCEPT ![M] = y]
        /\ UNCHANGED <<status, score, forfeited, failures>>
    BY DEF SeedMatch
  <1> HIDE DEF x, y
  <1>7. ASSUME NEW moved \in Request, req' = [req EXCEPT ![r1] = moved],
               moved.match = req[r1].match, moved.win = req[r1].win, moved.lose = req[r1].lose,
               \/ moved.step = "seed" /\ moved.next = s + 1 /\ s + 1 < Width[n + 1]
               \/ moved.step = "seedThird" /\ HasRanking /\ n + 1 = Rounds
               \/ moved.step = "rate"
        PROVE  AloneInv' /\ PlacesFollow
    <2>1. SlotTypes' /\ req'[r1] = moved
      BY <1>0, <1>7, SlotMoves
    <2>2. req[r1].step \notin HalfWritten /\ req'[r1].step \notin ColumnSteps
      BY <1>1, <1>7, <2>1 DEF HalfWritten, ColumnSteps
    <2>3. Untouched(M)
      BY <1>1, <1>2
    <2>4. /\ ColumnTypes' /\ LeavesInv' /\ RowsAgree' /\ PlacesFollow
          /\ Winners(n)' = Winners(n) /\ Losers(n)' = Losers(n)
          /\ \A m \in Match \ {M} : Untouched(m) => Untouched(m)'
      BY <1>1, <1>2, <1>4, <1>5, <1>6, <2>2, <2>3, AloneFills
    <2>5. MemoryHolds'
      <3>1. /\ moved.match.round = n /\ moved.win = Winners(n)' /\ moved.lose = Losers(n)'
        BY <1>1, <1>7, <2>4
      <3>2. CASE moved.step = "seed" /\ moved.next = s + 1 /\ s + 1 < Width[n + 1]
        <4>1. \A m \in Match : m.round = n + 1 /\ (m.third \/ m.slot >= s + 1) => Untouched(m)'
          BY <1>1, <1>2, <2>4 DEF Match, Slots
        <4> QED
          BY <1>1, <2>1, <3>1, <3>2, <4>1 DEF MemoryHolds, Seeding, Winners, Losers, Untouched
      <3>3. CASE moved.step = "seedThird" /\ HasRanking /\ n + 1 = Rounds
        <4>1. ThirdPlace \in Match \ {M} /\ ThirdPlace.round = n + 1 /\ ThirdPlace.third
          BY <1>2, <3>3, RoundSlotsFit DEF ThirdPlace
        <4>2. Untouched(ThirdPlace)'
          BY <1>1, <2>4, <4>1
        <4> QED
          BY <1>1, <2>1, <3>1, <3>3, <4>2
             DEF MemoryHolds, Seeding, Winners, Losers, Untouched, ThirdPlace
      <3>4. CASE moved.step = "rate"
        BY <2>1, <3>4 DEF MemoryHolds, Seeding
      <3> QED
        BY <1>7, <3>2, <3>3, <3>4
    <2> QED
      BY <2>1, <2>4, <2>5 DEF AloneInv, PlacesInv
  <1>9. CASE n + 1 = Rounds /\ HasRanking /\ Goto(r1, "seedThird")
    <2> DEFINE moved == [req[r1] EXCEPT !.step = "seedThird"]
    <2>1. /\ moved \in Request /\ moved.step = "seedThird" /\ moved.match = req[r1].match
          /\ moved.win = req[r1].win /\ moved.lose = req[r1].lose
      BY <1>0 DEF Request, Steps
    <2>2. req' = [req EXCEPT ![r1] = moved]
      BY <1>9 DEF Goto
    <2> HIDE DEF moved
    <2> QED
      BY <1>7, <1>9, <2>1, <2>2
  <1>10. CASE s + 1 < Width[n + 1] /\ req' = [req EXCEPT ![r1].next = s + 1]
    <2> DEFINE moved == [req[r1] EXCEPT !.next = s + 1]
    <2>1. /\ moved \in Request /\ moved.step = "seed" /\ moved.match = req[r1].match
          /\ moved.win = req[r1].win /\ moved.lose = req[r1].lose /\ moved.next = s + 1
      BY <1>0, <1>1 DEF Request, Steps
    <2>2. req' = [req EXCEPT ![r1] = moved]
      BY <1>10
    <2> HIDE DEF moved
    <2> QED
      BY <1>7, <1>10, <2>1, <2>2
  <1>11. CASE Goto(r1, "rate")
    <2> DEFINE moved == [req[r1] EXCEPT !.step = "rate"]
    <2>1. /\ moved \in Request /\ moved.step = "rate" /\ moved.match = req[r1].match
          /\ moved.win = req[r1].win /\ moved.lose = req[r1].lose
      BY <1>0 DEF Request, Steps
    <2>2. req' = [req EXCEPT ![r1] = moved]
      BY <1>11 DEF Goto
    <2> HIDE DEF moved
    <2> QED
      BY <1>7, <2>1, <2>2
  <1> QED
    BY <1>9, <1>10, <1>11 DEF SeedMatch

LEMMA AloneSeedsThird ==
    ASSUME AloneInv, SeedThirdPlace(r1)
    PROVE  AloneInv' /\ PlacesFollow
  <1>0. ColumnTypes /\ SlotTypes /\ PlacesInv /\ req[r1] \in Request /\ MemoryHolds
    BY AloneFacts DEF AloneInv, PlacesInv
  <1> PICK n \in 1..Rounds : n = req[r1].match.round
    BY AloneFacts
  <1>1. /\ req[r1].step = "seedThird" /\ n < Rounds /\ n + 1 = Rounds /\ HasRanking
        /\ req[r1].lose = Losers(n) /\ Untouched(ThirdPlace)
    BY <1>0 DEF SeedThirdPlace, MemoryHolds, Seeding
  <1> PICK M \in Match : M = ThirdPlace
    BY <1>1, RoundSlotsFit
  <1>2. M.round = n + 1 /\ M.slot = 0 /\ M.third
    BY <1>1 DEF ThirdPlace
  <1>3. 0 \in Slots /\ 1 \in Slots /\ 0 < Width[n] /\ 1 < Width[n]
    <2>1. 0 < Width[n + 1]
      BY <1>1, NextWidth
    <2>2. 2 * 0 \in RoundSlots(n) /\ 2 * 0 + 1 \in RoundSlots(n)
      BY <1>1, <2>1, RoundSlotsFit
    <2>3. Width[n] \in Nat /\ RoundSlots(n) \subseteq Slots /\ 2 * 0 = 0 /\ 2 * 0 + 1 = 1
      <3>1. Width[n] \in Nat
        BY WidthIsNat
      <3>2. RoundSlots(n) \subseteq Slots
        BY RoundSlotsFit
      <3> QED
        BY <3>1, <3>2
    <2>4. 0 < Width[n] /\ 1 < Width[n]
      BY <2>2, <2>3 DEF RoundSlots
    <2> QED
      BY <2>2, <2>3, <2>4
  <1> DEFINE x == req[r1].lose[0]
             y == req[r1].lose[1]
  <1>4. x = Loser(HomeFeeder(M)) /\ y = Loser(AwayFeeder(M))
    <2>1. HomeFeeder(M) = Main(n, 0) /\ AwayFeeder(M) = Main(n, 1)
      BY <1>2 DEF HomeFeeder, AwayFeeder
    <2> QED
      BY <1>1, <1>3, <2>1 DEF Losers
  <1>5. x \in TeamOrNone /\ y \in TeamOrNone
    BY <1>0, <1>3 DEF Request
  <1>6. /\ home' = [home EXCEPT ![M] = x] /\ away' = [away EXCEPT ![M] = y]
        /\ UNCHANGED <<status, score, forfeited, failures>>
        /\ Goto(r1, "rate") /\ "rate" \in Steps
    BY DEF SeedThirdPlace, Steps
  <1> HIDE DEF x, y
  <1>7. SlotTypes' /\ req'[r1].step = "rate"
    BY <1>0, <1>6, SlotGoes
  <1>8. req[r1].step \notin HalfWritten /\ req'[r1].step \notin ColumnSteps
    BY <1>1, <1>7 DEF HalfWritten, ColumnSteps
  <1>9. ColumnTypes' /\ LeavesInv' /\ RowsAgree' /\ PlacesFollow
    BY <1>1, <1>2, <1>4, <1>5, <1>6, <1>8, AloneFills
  <1>10. MemoryHolds'
    BY <1>7 DEF MemoryHolds, Seeding
  <1> QED
    BY <1>7, <1>9, <1>10 DEF AloneInv, PlacesInv

LEMMA AloneResolves ==
    ASSUME AloneInv, ResolveMatch(r1)
    PROVE  AloneInv' /\ PlacesFollow
  <1>0. /\ ColumnTypes /\ SlotTypes /\ PlacesInv /\ req[r1] \in Request /\ MemoryHolds
        /\ LeavesInv /\ RowsAgree
    BY AloneFacts DEF AloneInv, PlacesInv
  <1> PICK s \in Nat : s = req[r1].next
    BY AloneFacts
  <1>1. req[r1].step = "resolve" /\ s < Width[1] /\ s \in RoundSlots(1) /\ 1 \in 1..Rounds
    <2>1. req[r1].step = "resolve" /\ s < Width[1] /\ 1 \in 1..Rounds
      BY <1>0, BracketShape DEF ResolveMatch, MemoryHolds
    <2> QED
      BY <2>1, BracketShape DEF RoundSlots
  <1> PICK M \in Match : M = Main(1, s)
    BY <1>1, RoundSlotsFit
  <1>2. M.round = 1 /\ M.slot = s
    BY DEF Main
  <1>3. /\ UNCHANGED <<status, score, forfeited, failures>>
        /\ \/ home' = [home EXCEPT ![M] = 2 * s] /\ away' = [away EXCEPT ![M] = 2 * s + 1]
           \/ home' = home /\ away' = away
    BY DEF ResolveMatch
  <1>4. 2 * s \in TeamOrNone /\ 2 * s + 1 \in TeamOrNone /\ 2 * s # None /\ 2 * s + 1 # None
    <2>1. 2 * s \in Team /\ 2 * s + 1 \in Team
      BY <1>1, RoundSlotsFit
    <2> QED
      BY <2>1, NoneIsNotATeam DEF Team, TeamOrNone
  <1>5. /\ ColumnTypes' /\ LeavesInv'
        /\ \A m \in Match : /\ home'[m] = home[m] \/ (m.round = 1 /\ home[m] = None)
                            /\ away'[m] = away[m] \/ (m.round = 1 /\ away[m] = None)
    <2>1. home[M] \in {None, 2 * s} /\ away[M] \in {None, 2 * s + 1}
      BY <1>0, <1>2 DEF LeavesInv
    <2>2. CASE home' = home /\ away' = away
      BY <1>0, <1>3, <2>2 DEF ColumnTypes, LeavesInv
    <2>3. CASE home' = [home EXCEPT ![M] = 2 * s] /\ away' = [away EXCEPT ![M] = 2 * s + 1]
      <3>1. /\ ColumnTypes' /\ home'[M] = 2 * s /\ away'[M] = 2 * s + 1
            /\ \A m \in Match \ {M} : home'[m] = home[m] /\ away'[m] = away[m]
        BY <1>0, <1>3, <1>4, <2>3 DEF ColumnTypes
      <3> QED
        BY <1>0, <1>2, <2>1, <3>1 DEF LeavesInv
    <2> QED
      BY <1>3, <2>2, <2>3
  <1>6. PlacesFollow
    BY <1>5 DEF PlacesFollow
  <1>7. /\ SlotTypes'
        /\ req'[r1].step = "idle" \/ (req'[r1].step = "resolve" /\ req'[r1].next < Width[1])
    <2>1. CASE s + 1 < Width[1] /\ req' = [req EXCEPT ![r1].next = s + 1]
      <3> DEFINE moved == [req[r1] EXCEPT !.next = s + 1]
      <3>1. moved \in Request /\ moved.step = "resolve" /\ moved.next = s + 1
        BY <1>0, <1>1 DEF Request
      <3>2. req' = [req EXCEPT ![r1] = moved]
        BY <2>1
      <3> HIDE DEF moved
      <3> QED
        BY <1>0, <2>1, <3>1, <3>2, SlotMoves
    <2>2. CASE Finish(r1)
      BY <1>0, <2>2, SlotFinishes, IdleIsARequest
    <2> QED
      BY <2>1, <2>2 DEF ResolveMatch
  <1>8. MemoryHolds'
    BY <1>7 DEF MemoryHolds, Seeding
  <1>9. RowsAgree'
    <2>1. ASSUME NEW m \in Match PROVE Agrees(m)'
      <3>1. Agrees(m)
        BY <1>0, <1>1 DEF RowsAgree, HalfWritten
      <3>2. Sides(m) \subseteq Sides(m)'
        BY <1>5 DEF Sides
      <3> QED
        BY <1>3, <3>1, <3>2 DEF Agrees
    <2> QED
      BY <1>7, <2>1 DEF RowsAgree
  <1> QED
    BY <1>5, <1>6, <1>7, <1>8, <1>9 DEF AloneInv, PlacesInv

\* Every step of the one request, and where the places of the bracket go.
LEMMA AloneNext ==
    ASSUME MaxFailures = 0, AloneInv, [Next]_vars
    PROVE  AloneInv' /\ (PlacesFollow \/ UNCHANGED <<home, away>>)
  <1>1. CASE UNCHANGED vars
    <2>1. UNCHANGED <<home, away, status, score, forfeited, req, failures>>
      BY <1>1 DEF vars
    <2>2. ColumnTypes' /\ SlotTypes' /\ LeavesInv'
      BY <2>1 DEF AloneInv, PlacesInv, ColumnTypes, SlotTypes, LeavesInv
    <2>3. RowsAgree'
      BY <2>1 DEF AloneInv, RowsAgree, Agrees, Sides, Validatable
    <2>4. MemoryHolds'
      <3> PICK n \in 1..Rounds : n = req[r1].match.round
        BY AloneFacts
      <3>1. Winners(n)' = Winners(n) /\ Losers(n)' = Losers(n)
        BY <2>1, OutcomesStay
      <3>2. /\ req'[r1] = req[r1] /\ MemoryHolds /\ n' = n
            /\ \A m \in Match : Untouched(m)' <=> Untouched(m)
            /\ Untouched(ThirdPlace)' <=> Untouched(ThirdPlace)
        BY <2>1 DEF AloneInv, PlacesInv, Untouched
      <3>3. /\ Winners(req[r1].match.round)' = Winners(n)'
            /\ Losers(req[r1].match.round)' = Losers(n)'
        BY <3>2 DEF Winners, Losers
      <3> QED
        BY <3>1, <3>2, <3>3 DEF MemoryHolds
    <2> QED
      BY <2>1, <2>2, <2>3, <2>4 DEF AloneInv, PlacesInv
  <1>2. CASE Next
    <2>1. Start(r1) \/ Proceed(r1)
      BY <1>2, OnlyOneIsServed, AloneFacts
    <2>2. CASE Start(r1)
      <3>1. UNCHANGED <<home, away>>
        BY <2>2 DEF Start, StartUpsertScore, StartValidateScore, StartClearScore,
                    StartDeclareForfeit, StartUndoForfeit, StartResolve, Accept, dbVars
      <3> QED
        BY <2>2, <3>1, AloneStarts
    <2>3. CASE SeedMatch(r1) \/ SeedThirdPlace(r1) \/ ResolveMatch(r1)
      BY <2>3, AloneSeeds, AloneSeedsThird, AloneResolves
    <2>4. CASE ReadRound(r1) \/ ReadNextRound(r1)
      <3>1. UNCHANGED <<home, away>>
        BY <2>4 DEF ReadRound, ReadNextRound, dbVars
      <3> QED
        BY <2>4, <3>1, AloneReads
    <2>5. CASE \/ WriteScore(r1) \/ SetLive(r1) \/ MarkValidated(r1) \/ SetCompleted(r1)
               \/ DeleteScore(r1) \/ SetScheduled(r1) \/ WriteForfeit(r1) \/ ReadForfeit(r1)
               \/ UndoForfeit(r1) \/ Rate(r1)
      <3>1. UNCHANGED <<home, away>>
        BY <2>5 DEF WriteScore, SetLive, MarkValidated, SetCompleted, DeleteScore,
                    SetScheduled, WriteForfeit, ReadForfeit, UndoForfeit, Rate, dbVars
      <3> QED
        BY <2>5, <3>1, AloneUpserts, AloneValidates, AloneClears, AloneForfeits
    <2> QED
      BY <2>1, <2>2, <2>3, <2>4, <2>5 DEF Proceed
  <1> QED
    BY <1>1, <1>2

(***************************************************************************)
(* The two scenarios of MCKnockoutBracket                                  *)
(***************************************************************************)
ScenarioInv == IF Alone THEN AloneInv ELSE BracketInv

LEMMA ScenarioStays ==
    ASSUME MaxFailures = 0, ScenarioInv, [Next]_vars
    PROVE  ScenarioInv' /\ (Alone' <=> Alone) /\ (Alone => PlacesFollow \/ UNCHANGED <<home, away>>)
  <1>1. CASE Alone
    <2>1. AloneInv' /\ (PlacesFollow \/ UNCHANGED <<home, away>>)
      BY <1>1, AloneNext DEF ScenarioInv
    <2>2. PICK q \in Requests : req[q].step = "closed"
      BY <1>1 DEF Alone
    <2>3. q # r1
      BY <1>1, <2>2 DEF ScenarioInv, AloneInv, PlacesInv, SlotTypes, Request, Steps
    <2>4. req'[q].step = "closed"
      BY <2>1, <2>3, ClosedIsNoStep DEF AloneInv, PlacesInv, SlotTypes
    <2>5. Alone'
      BY <2>4 DEF Alone
    <2> QED
      BY <1>1, <2>1, <2>5 DEF ScenarioInv
  <1>2. CASE ~Alone
    <2>1. BracketInv'
      BY <1>2, NextInv DEF ScenarioInv
    <2>2. ~Alone'
      BY <2>1 DEF BracketInv, TypeOK, Alone, Request, Steps
    <2> QED
      BY <1>2, <2>1, <2>2 DEF ScenarioInv
  <1> QED
    BY <1>1, <1>2

LEMMA SameBracketUnscored ==
    /\ Unscored!Match = Match /\ Unscored!Team = Team /\ Unscored!Idle = Idle
    /\ Unscored!NoScore = NoScore
  BY DEF Unscored!Match, Match, Unscored!Slots, Slots, Unscored!Team, Team, Unscored!Idle, Idle,
         Unscored!Final, Final, Unscored!Main, Main, Unscored!NoTeams, NoTeams,
         Unscored!NoScore, NoScore

LEMMA SameBracketSingle ==
    /\ Single!Match = Match /\ Single!Team = Team /\ Single!Idle = Idle
    /\ Single!NoScore = NoScore
  BY DEF Single!Match, Match, Single!Slots, Slots, Single!Team, Team, Single!Idle, Idle,
         Single!Final, Final, Single!Main, Main, Single!NoTeams, NoTeams,
         Single!NoScore, NoScore

\* Empty or with its semi-finals entered, with two requests or one: how a scenario begins.
LEMMA ScenariosBegin ==
    ASSUME MCInit
    PROVE  ScenarioInv
  <1>1. CASE Init
    <2>1. BracketInv
      BY <1>1, InitInv
    <2>2. ~Alone
      BY <2>1 DEF BracketInv, TypeOK, Alone, Request, Steps
    <2> QED
      BY <2>1, <2>2 DEF ScenarioInv
  <1>2. CASE Unscored!Init /\ Entered
    <2>1. /\ home = [m \in Match |->
                       IF m.round = 1 /\ ~m.third /\ 2 * m.slot \in Known
                       THEN 2 * m.slot ELSE None]
          /\ away = [m \in Match |->
                       IF m.round = 1 /\ ~m.third /\ 2 * m.slot + 1 \in Known
                       THEN 2 * m.slot + 1 ELSE None]
          /\ forfeited = [m \in Match |-> None] /\ played = [t \in Team |-> 0]
          /\ req = [r \in Requests |-> Idle] /\ calls \in Nat /\ failures = 0
      BY <1>2, SameBracketUnscored, Bounds DEF Unscored!Init
    <2>2. status \in [Match -> Statuses]
      BY <1>2 DEF Entered, Statuses
    <2>3. score \in [Match -> Score]
      <3>1. /\ NoScore \in Score
            /\ \A result \in Results : [NoScore EXCEPT !.result = result] \in Score
        BY DEF NoScore, Score, Results
      <3>2. PICK other \in {"AWAY", "DRAW"} :
               score = [m \in Match |->
                          CASE m = Main(1, 0) -> [NoScore EXCEPT !.result = "HOME"]
                            [] m = Main(1, 1) -> [NoScore EXCEPT !.result = other]
                            [] OTHER -> NoScore]
        BY <1>2 DEF Entered
      <3>3. [NoScore EXCEPT !.result = other] \in Score /\ [NoScore EXCEPT !.result = "HOME"] \in Score
        BY <3>1 DEF Results
      <3> QED
        BY <3>1, <3>2, <3>3
    <2>4. BracketInv
      BY <2>1, <2>2, <2>3, BracketBegins
    <2>5. ~Alone
      BY <2>4 DEF BracketInv, TypeOK, Alone, Request, Steps
    <2> QED
      BY <2>4, <2>5 DEF ScenarioInv
  <1>3. ASSUME req = [r \in Requests |-> IF r = r1 THEN Idle ELSE [Idle EXCEPT !.step = "closed"]],
               Single!Init
        PROVE  ScenarioInv
    <2>1. /\ home = [m \in Match |->
                       IF m.round = 1 /\ ~m.third /\ 2 * m.slot \in Known
                       THEN 2 * m.slot ELSE None]
          /\ away = [m \in Match |->
                       IF m.round = 1 /\ ~m.third /\ 2 * m.slot + 1 \in Known
                       THEN 2 * m.slot + 1 ELSE None]
          /\ status = [m \in Match |-> "SCHEDULED"] /\ score = [m \in Match |-> NoScore]
          /\ forfeited = [m \in Match |-> None] /\ played = [t \in Team |-> 0]
          /\ calls = MaxCalls + 3 /\ calls \in Nat /\ failures = 0
      BY <1>3, SameBracketSingle, Bounds DEF Single!Init
    <2>2. SlotTypes /\ req[r1] = Idle
      BY <1>3, OneOfThem, IdleIsARequest DEF SlotTypes, Closed
    <2>3. ColumnTypes
      <3>1. ASSUME NEW m \in Match, m.round = 1
            PROVE  2 * m.slot \in Team /\ 2 * m.slot + 1 \in Team
        BY RoundSlotsFit DEF Match, Slots
      <3>2. home \in [Match -> TeamOrNone] /\ away \in [Match -> TeamOrNone]
        BY <2>1, <3>1 DEF TeamOrNone
      <3>3. NoScore \in Score /\ "SCHEDULED" \in Statuses /\ None \in TeamOrNone
        BY DEF NoScore, Score, Statuses, TeamOrNone
      <3> QED
        BY <2>1, <3>2, <3>3 DEF ColumnTypes
    <2>4. LeavesInv
      BY <2>1 DEF LeavesInv
    <2>5. MemoryHolds
      BY <2>2, IdleIsARequest DEF MemoryHolds, Seeding
    <2>6. RowsAgree
      <3>1. ASSUME NEW m \in Match PROVE Agrees(m)
        BY <2>1 DEF Agrees, NoScore
      <3> QED
        BY <2>2, <3>1, IdleIsARequest DEF RowsAgree
    <2>7. Alone => AloneInv
      BY <2>2, <2>3, <2>4, <2>5, <2>6 DEF AloneInv, PlacesInv
    <2>8. ~Alone => BracketInv
      <3> SUFFICES ASSUME ~Alone PROVE BracketInv
        OBVIOUS
      <3>1. Requests = {r1}
        BY <2>2, OneOfThem, ClosedIsNoStep DEF SlotTypes, Alone
      <3>2. req = [r \in Requests |-> Idle]
        BY <1>3, <3>1
      <3> QED
        <4>1. status \in [Match -> Statuses] /\ score \in [Match -> Score]
          BY <2>3 DEF ColumnTypes
        <4> QED
          BY <2>1, <3>2, <4>1, BracketBegins
    <2> QED
      BY <2>7, <2>8 DEF ScenarioInv
  <1> QED
    BY <1>1, <1>2, <1>3 DEF MCInit

LEMMA ScenarioInvariant ==
    ASSUME MaxFailures = 0
    PROVE  MCSpec => []ScenarioInv
  <1>1. ScenarioInv /\ [Next]_vars => ScenarioInv'
    BY ScenarioStays
  <1>2. MCInit => ScenarioInv
    BY ScenariosBegin
  <1> QED
    BY <1>1, <1>2, PTL DEF MCSpec

\* One request at a time and none lost, the status of a match, its score row and its
\* forfeit agree whenever no request is in flight; several requests keep the types
\* (upsertScore, validateScore, clearScore, declareForfeit, undoForfeit).
THEOREM StatusAlwaysAgreesAlone ==
    ASSUME MaxFailures = 0
    PROVE  MCSpec => []StatusAgreesWhenAlone
  <1>1. ScenarioInv => StatusAgreesWhenAlone
    <2>1. ASSUME Alone, AloneInv, Single!Quiet, NEW m \in Match
          PROVE  Agrees(m)
      <3>1. req[r1].step = "idle"
        BY <2>1 DEF Single!Quiet, OneSlot
      <3> QED
        BY <2>1, <3>1 DEF AloneInv, RowsAgree, HalfWritten
    <2>2. Alone /\ AloneInv => Single!StatusAgreesWithScore
      BY <2>1, SameBracketSingle DEF Single!StatusAgreesWithScore, Agrees, Single!Sides, Sides
    <2> QED
      BY <2>2 DEF ScenarioInv, StatusAgreesWhenAlone, BracketInv
  <1>2. MCSpec => []ScenarioInv
    BY ScenarioInvariant
  <1> QED
    BY <1>1, <1>2, PTL

\* One request at a time, a place of a later round goes to the team that has then won the
\* match it is fed by, or lost it for the third place, and a place stays with its team
\* (tryAdvanceRound, tryResolveFirstRound).
THEOREM PlacesAlwaysFollowAlone ==
    ASSUME MaxFailures = 0
    PROVE  MCSpec => PlacesFollowOutcomesAlone
  <1>1. ScenarioInv /\ [Next]_vars =>
           [Alone => \A m \in Match :
              LET Outcome(f) == IF m.third THEN Loser(f) ELSE Winner(f) IN
              /\ home[m] # None => home'[m] = home[m]
              /\ away[m] # None => away'[m] = away[m]
              /\ m.round > 1 =>
                    /\ home'[m] # home[m] => home'[m] = Outcome(HomeFeeder(m))
                    /\ away'[m] # away[m] => away'[m] = Outcome(AwayFeeder(m))]_<<home, away>>
    BY ScenarioStays DEF PlacesFollow
  <1>2. MCSpec => []ScenarioInv
    BY ScenarioInvariant
  <1> QED
    BY <1>1, <1>2, PTL DEF MCSpec, PlacesFollowOutcomesAlone
================================================================================
