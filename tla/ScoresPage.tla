------------------------------ MODULE ScoresPage ------------------------------
(***************************************************************************)
(* The page where scores are entered (web ScoresPage, and its port to the  *)
(* app, OrganizerScoresPage).  Scores are typed as drafts, saved one by    *)
(* one and then validated: a validation may settle the opponents of a      *)
(* later match that the page already shows, without them.                  *)
(***************************************************************************)
EXTENDS PageCalls

CONSTANTS
    Matches,
    Phase,      \* the phase of a match, a record [category, kind]
    First,      \* the category listed first
    Feeders,    \* the matches that decide a match's opponents
    Forfeits,   \* the matches forfeited to begin with
    Scores

Phases == {Phase[m] : m \in Matches}
Categories == {p.category : p \in Phases}

\* The phases whose matches are shown (activePhases).
Active(category, kind) ==
    {p \in Phases : p.category = category /\ (kind = "all" \/ p.kind = kind)}

\* A match as the API sends it (toMatchSummary).
Summary(s, m) == [score |-> s.score[m], valid |-> m \in s.valid,
                  known |-> m \in s.known, forfeited |-> m \in s.forfeited]

Listed(s, phases) == [m \in {n \in Matches : Phase[n] \in phases} |-> Summary(s, m)]

Nothing == [m \in {} |-> None]

Init ==
    /\ page = [category |-> None, phases |-> None, kind |-> "pool",
               matches |-> Nothing, drafts |-> Nothing]
    /\ server = [score |-> [m \in Matches |-> None], valid |-> {},
                 known |-> {m \in Matches : Feeders[m] = {}}, forfeited |-> Forfeits]
    /\ NoCalls

(***************************************************************************)
(* What the API does with a call (ScoresService)                           *)
(***************************************************************************)
ServeRead(c) ==
    /\ UNCHANGED server
    /\ \/ Serve(c, "phases") /\ Answer(c, wire[c].category)
       \/ Serve(c, "matches") /\ Answer(c, Listed(server, wire[c].phases))

ServeSave(c) ==
    /\ Serve(c, "save")
    /\ IF wire[c].match \in server.forfeited
       THEN Refuse(c)
       ELSE /\ server' = [server EXCEPT !.score[wire[c].match] = wire[c].score,
                                        !.valid = @ \ {wire[c].match}]
            /\ Answer(c, Summary(server', wire[c].match))

\* A validation settles the matches whose feeders are now all decided.
ServeValidate(c) ==
    /\ Serve(c, "validate")
    /\ IF server.score[wire[c].match] = None
       THEN Refuse(c)
       ELSE LET valid == server.valid \cup {wire[c].match}
            IN  /\ server' = [server EXCEPT
                    !.valid = valid,
                    !.known = @ \cup {m \in Matches : wire[c].match \in Feeders[m] /\
                                         Feeders[m] \subseteq valid \cup server.forfeited}]
                /\ Answer(c, "done")

ServeClear(c) ==
    /\ Serve(c, "clear")
    /\ IF server.score[wire[c].match] = None
       THEN Refuse(c)
       ELSE /\ server' = [server EXCEPT !.score[wire[c].match] = None,
                                        !.valid = @ \ {wire[c].match}]
            /\ Answer(c, Summary(server', wire[c].match))

ServeUndoForfeit(c) ==
    /\ Serve(c, "undoForfeit")
    /\ IF wire[c].match \notin server.forfeited
       THEN Refuse(c)
       ELSE /\ server' = [server EXCEPT !.forfeited = @ \ {wire[c].match}]
            /\ Answer(c, Summary(server', wire[c].match))

(***************************************************************************)
(* The page                                                                *)
(***************************************************************************)
LoadPhases(c, category) ==
    /\ page' = [page EXCEPT !.category = category, !.matches = Nothing]
    /\ Send(c, [op |-> "phases", category |-> category])

LoadMatches(c, p) == Send(c, [op |-> "matches", phases |-> Active(p.phases, p.kind)])

OpenPage(c) ==
    /\ Click(c, "open") /\ page.category = None
    /\ LoadPhases(c, First) /\ UNCHANGED server

ChangeCategory(c) == \E category \in Categories :
    /\ Click(c, "category") /\ page.category # None
    /\ LoadPhases(c, category) /\ UNCHANGED server

GotPhases(c) ==
    /\ Back(c, "phases")
    /\ LET pools == Active(wire[c].data, "pool")
       IN  page' = [page EXCEPT !.phases = wire[c].data,
                                !.kind = IF pools # {} THEN "pool" ELSE "knockout"]
    /\ LoadMatches(c, page')

ChangeKind(c) == \E kind \in {"all"} \cup {p.kind : p \in Active(page.phases, "all")} :
    /\ Click(c, "kind")
    /\ page' = [page EXCEPT !.kind = kind]
    /\ LoadMatches(c, page') /\ UNCHANGED server

\* Mutant: a reload starts from empty fields.
GotMatchesAfresh(c) ==
    /\ Back(c, "matches") /\ Hang(c)
    /\ page' = [page EXCEPT !.matches = wire[c].data, !.drafts = Nothing]

GotMatches(c) ==
    /\ Back(c, "matches") /\ Hang(c)
    /\ page' = [page EXCEPT !.matches = wire[c].data]

\* The matches whose score can be entered: opponents known, none forfeited.
Open == {m \in DOMAIN page.matches : page.matches[m].known /\ ~page.matches[m].forfeited}

\* What the fields of a match show (draftFor).
Draft(m) == IF m \in DOMAIN page.drafts THEN page.drafts[m] ELSE page.matches[m].score

TypeScore == \E m \in Open, s \in Scores :
    /\ Spend("type") /\ s # Draft(m)
    /\ page' = [page EXCEPT !.drafts = (m :> s) @@ @]
    /\ UNCHANGED <<server, wire>>

SaveScore(c) == \E m \in Open :
    /\ Click(c, "save") /\ Draft(m) # None
    /\ Send(c, [op |-> "save", match |-> m, score |-> Draft(m)])
    /\ UNCHANGED <<page, server>>

ValidateScore(c) == \E m \in Open :
    /\ Click(c, "validate")
    /\ page.matches[m].score # None /\ ~page.matches[m].valid
    /\ Send(c, [op |-> "validate", match |-> m]) /\ UNCHANGED <<page, server>>

ClearScore(c) == \E m \in Open :
    /\ Click(c, "clear") /\ page.matches[m].score # None
    /\ Send(c, [op |-> "clear", match |-> m]) /\ UNCHANGED <<page, server>>

UndoForfeit(c) == \E m \in DOMAIN page.matches :
    /\ Click(c, "undoForfeit") /\ page.matches[m].forfeited
    /\ Send(c, [op |-> "undoForfeit", match |-> m]) /\ UNCHANGED <<page, server>>

\* replaceMatch: the match as answered, if the page still lists it.
Replaced(matches, c) ==
    IF wire[c].match \in DOMAIN matches
    THEN [matches EXCEPT ![wire[c].match] = wire[c].data] ELSE matches

\* clearDraft, after a save or a clear.
GotScore(c) ==
    /\ Back(c, "save") \/ Back(c, "clear")
    /\ Hang(c)
    /\ page' = [page EXCEPT !.matches = Replaced(@, c),
                            !.drafts = Restrict(@, DOMAIN @ \ {wire[c].match})]

GotMatch(c) ==
    /\ Back(c, "undoForfeit") /\ Hang(c)
    /\ page' = [page EXCEPT !.matches = Replaced(@, c)]

\* Mutant: only the match validated is updated.
GotValidationOnly(c) ==
    /\ Back(c, "validate") /\ Hang(c)
    /\ page' = IF wire[c].match \in DOMAIN page.matches
               THEN [page EXCEPT !.matches[wire[c].match].valid = TRUE] ELSE page

\* Not only the match validated: those it settled are loaded again too.
GotValidation(c) ==
    /\ Back(c, "validate") /\ UNCHANGED page
    /\ LoadMatches(c, page)

GotRefusal(c) == Refused(c) /\ Hang(c) /\ UNCHANGED page

Next ==
    \/ TypeScore
    \/ \E c \in Connections :
        \/ ServeRead(c) \/ ServeSave(c) \/ ServeValidate(c) \/ ServeClear(c)
        \/ ServeUndoForfeit(c)
        \/ OpenPage(c) \/ ChangeCategory(c) \/ GotPhases(c) \/ ChangeKind(c) \/ GotMatches(c)
        \/ SaveScore(c) \/ ValidateScore(c) \/ ClearScore(c) \/ UndoForfeit(c)
        \/ GotScore(c) \/ GotMatch(c) \/ GotValidation(c) \/ GotRefusal(c)

Spec == Init /\ [][Next]_vars

\* With one call at a time, the page at rest shows the matches selected as the
\* API has them, the opponents a validation has just settled included.
RestingPageIsTrue ==
    AtRest /\ page.category # None =>
        /\ page.phases = page.category
        /\ page.matches = Listed(server, Active(page.category, page.kind))

\* However answers cross, a score typed leaves its field only when a save or a
\* clear of that match is answered: neither another match nor a reload takes it.
DraftsAreKept ==
    [][\A m \in DOMAIN page.drafts \ DOMAIN page'.drafts :
          \E c \in Connections : /\ wire[c].op \in {"save", "clear"}
                                 /\ wire[c].at = "back" /\ wire[c].match = m]_vars
================================================================================
