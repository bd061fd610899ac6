----------------------------- MODULE FinalRanking -----------------------------
(***************************************************************************)
(* What the applications show of a knockout bracket, computed from the     *)
(* matches as the API returns them (libs/shared-models), and the champion  *)
(* the recap crowns (WrappedService).  They read the matches while the     *)
(* organisers are still scoring, correcting and forfeiting them.  The      *)
(* client's own getWinnerTeamId and getLoserTeamId decide as the API's do  *)
(* (Winner and Loser).  Wording is left out: a round's label is how far it *)
(* is from the final, and whether the languages have a name for it.        *)
(***************************************************************************)
EXTENDS KnockoutBracket, Sequences, SequencesExt

(***************************************************************************)
(* Labels                                                                  *)
(***************************************************************************)
\* Languages name the rounds from the final to the round of 128 teams; farther
\* rounds are a fraction.
RoundLabel(fromEnd) ==
    CASE fromEnd <= 0 -> <<"final">>
      [] fromEnd = 1  -> <<"semi-final">>
      [] fromEnd \in 2..6 -> <<"named", fromEnd>>
      [] OTHER -> <<"fraction", fromEnd>>

\* A team's stage is named after the round it left, the final excepted.
EliminatedAt(fromEnd) ==
    IF fromEnd \in 1..6 THEN <<"eliminated", fromEnd>> ELSE <<"fraction", fromEnd>>

MatchLabel(m) == IF m.third THEN <<"third place">> ELSE RoundLabel(Rounds - m.round)

(***************************************************************************)
(* The matches under their headings, the third-place match last            *)
(***************************************************************************)
BySlot(matches) == SetToSortSeq(matches, LAMBDA m, n : m.slot < n.slot)

\* Mutant: the third-place match stays among the matches of its round.
MatchesOfWholeRound(r) == BySlot({m \in Match : m.round = r})

MatchesOfRound(r) == BySlot({m \in Match : m.round = r /\ ~m.third})

Section(matches) == [label |-> MatchLabel(matches[1]), matches |-> matches]

Sections ==
    [r \in 1..Rounds |-> Section(MatchesOfRound(r))]
    \o (IF HasRanking THEN << Section(<<ThirdPlace>>) >> ELSE << >>)

(***************************************************************************)
(* computeFinalRanking                                                     *)
(***************************************************************************)
Entry(m, team, rank, stage) ==
    IF team = None THEN {} ELSE {[match |-> m, team |-> team, rank |-> rank, stage |-> stage]}

\* A final is won by a team that met another in it; it is lost in any case.
FinalEntries ==
    (IF None \in {home[Final], away[Final]} THEN {} ELSE Entry(Final, Winner(Final), 0, <<"winner">>))
    \cup Entry(Final, Loser(Final), 1, <<"finalist">>)

ThirdPlaceEntries ==
    IF HasRanking
    THEN Entry(ThirdPlace, Winner(ThirdPlace), 2, <<"third">>)
         \cup Entry(ThirdPlace, Loser(ThirdPlace), 3, <<"fourth">>)
    ELSE {}

\* Mutant: the losers of the semi-finals are listed as such in any case.
RankedEarlierAlways(m) == m.round < Rounds

\* A third-place match ranks the losers of the semi-finals in their stead.
RankedEarlier(m) == m.round < Rounds /\ ~(HasRanking /\ m.round = Rounds - 1)

EarlierEntries ==
    UNION {Entry(m, Loser(m), 4 + (Rounds - m.round - 1) * 2, EliminatedAt(Rounds - m.round)) :
              m \in {n \in Match : ~n.third /\ RankedEarlier(n)}}

\* By stage, then by name: the teams are numbered in the order of their names.
RankedBefore(x, y) ==
    \/ x.rank < y.rank
    \/ x.rank = y.rank /\ x.team < y.team

Ranking ==
    SetToSortSeq(FinalEntries \cup ThirdPlaceEntries \cup EarlierEntries, RankedBefore)

(***************************************************************************)
(* WrappedService.getWrapped: nobody is champion before every match is     *)
(* over, and the champion won the final on the field.                      *)
(***************************************************************************)
AllMatchesDecided ==
    \A m \in Match : status[m] = "FORFEITED" \/ (status[m] = "COMPLETED" /\ score[m].validated)

Champions == IF AllMatchesDecided /\ score[Final].validated THEN {Winner(Final)} \ {None} ELSE {}

--------------------------------------------------------------------------------
RankedTeams == [i \in DOMAIN Ranking |-> Ranking[i].team]

\* final-ranking.util.ts ranks from the stored matches: whatever was corrected,
\* undone or forfeited on the way, when every match is over each team of round 1
\* has exactly one rank, and the recap's champion is the team ranked first.
EveryTeamRankedOnce ==
    AllMatchesDecided /\ Quiet =>
        /\ IsInjective(RankedTeams)
        /\ ToSet(RankedTeams) = UNION {Sides(m) : m \in {n \in Match : n.round = 1}}
        /\ Champions \subseteq {RankedTeams[1]}

Shown == FlattenSeq([i \in DOMAIN Sections |-> Sections[i].matches])

TeamsOf(section) == UNION {Sides(m) : m \in ToSet(section.matches)}

\* groupMatchesByPhaseSection, after concurrent scoring: every match stands under
\* one heading, no two headings read the same, and the teams under a heading come
\* from the heading before it (the third place: from that of the semi-finals).
SectionsFollowTheTeams ==
    LET Before(i) == IF Sections[i].matches = <<ThirdPlace>> THEN Rounds - 1 ELSE i - 1
    IN  Quiet =>
        /\ IsInjective(Shown) /\ ToSet(Shown) = Match
        /\ \A i, j \in DOMAIN Sections : i # j => Sections[i].label # Sections[j].label
        /\ \A i \in DOMAIN Sections :
              Before(i) > 0 => TeamsOf(Sections[i]) \subseteq TeamsOf(Sections[Before(i)])
================================================================================
