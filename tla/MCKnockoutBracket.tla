--------------------------- MODULE MCKnockoutBracket ---------------------------
(***************************************************************************)
(* A bracket of 4 teams with its third-place match, in two scenarios       *)
(* checked in one run: one request at a time, or two at once and three     *)
(* calls less, from a bracket just generated or one whose semi-finals have *)
(* their scores entered.  In the first scenario all slots but one are      *)
(* closed: where no request is lost, no action of KnockoutBracket serves a *)
(* slot at the step "closed".  The run of a bracket of 8 teams takes Spec  *)
(* as it is.                                                               *)
(***************************************************************************)
EXTENDS FinalRanking, TLC

CONSTANT r1   \* one of the requests

ASSUME OneOfThem == r1 \in Requests

(***************************************************************************)
(* A bracket of 8 teams, generated while the pool of one of them was not   *)
(* complete; the handlers are the same for every request.                  *)
(***************************************************************************)
WidthOf8 == [r \in 0..3 |-> 2 ^ (3 - r)]
AllButOneLeaf == 0..6
ForfeitsAndPools == {"declareForfeit", "resolve"}
RequestSymmetry == Permutations(Requests)

(***************************************************************************)
(* A bracket of 4 teams                                                    *)
(***************************************************************************)
WidthOf4 == [r \in 0..2 |-> 2 ^ (2 - r)]

\* Every pool was complete when the bracket was generated.
AllLeaves == 0..7

AllCalls == {"upsertScore", "validateScore", "clearScore",
             "declareForfeit", "undoForfeit", "resolve"}
NoResolve == AllCalls \ {"resolve"}

OneSlot == [r \in {r1} |-> req[r]]

Single == INSTANCE FinalRanking WITH
    Requests <- {r1}, MaxCalls <- MaxCalls + 3, req <- OneSlot

\* The semi-finals as upsertScore leaves them: one is won, the other won or level.
Entered ==
    /\ status = [m \in Match |-> IF m.round = 1 THEN "LIVE" ELSE "SCHEDULED"]
    /\ \E other \in {"AWAY", "DRAW"} :
          score = [m \in Match |->
                     CASE m = Main(1, 0) -> [NoScore EXCEPT !.result = "HOME"]
                       [] m = Main(1, 1) -> [NoScore EXCEPT !.result = other]
                       [] OTHER -> NoScore]

Unscored == INSTANCE KnockoutBracket WITH
    status <- [m \in Match |-> "SCHEDULED"], score <- [m \in Match |-> NoScore]

MCInit ==
    \/ Init
    \/ Unscored!Init /\ Entered
    \/ /\ req = [r \in Requests |-> IF r = r1 THEN Idle ELSE [Idle EXCEPT !.step = "closed"]]
       /\ Single!Init

MCSpec == MCInit /\ [][Next]_vars /\ Fairness

\* The calls come one after the other (ScoresService, BracketsService).
Alone == \E r \in Requests : req[r].step = "closed"

\* StatusAgreesWithScore, one request at a time (upsertScore, clearScore); and TypeOK of two.
StatusAgreesWhenAlone == IF Alone THEN Single!StatusAgreesWithScore ELSE TypeOK

\* What is shown of a bracket lists its teams: no finalist in the third-place match and,
\* when all is played, every team ranked once, one request at a time
\* (computeFinalRanking); sections that follow the teams whatever interleaves (bracket-view).
RankingIsSound ==
    IF Alone
    THEN /\ FinalistsNotInThirdPlace
         /\ Single!EveryTeamRankedOnce
         /\ Single!SectionsFollowTheTeams
    ELSE SectionsFollowTheTeams

\* SeededFromOutcomes and PlacesAreKept, one request at a time: a place goes to the team
\* its match is won by (lost, for the third place), and stays with it (tryAdvanceRound).
PlacesFollowOutcomesAlone ==
    [][Alone => \A m \in Match :
          LET Outcome(f) == IF m.third THEN Loser(f) ELSE Winner(f) IN
          /\ home[m] # None => home'[m] = home[m]
          /\ away[m] # None => away'[m] = away[m]
          /\ m.round > 1 =>
                /\ home'[m] # home[m] => home'[m] = Outcome(HomeFeeder(m))
                /\ away'[m] # away[m] => away'[m] = Outcome(AwayFeeder(m))]_<<home, away>>
================================================================================
