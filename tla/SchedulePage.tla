----------------------------- MODULE SchedulePage -----------------------------
(***************************************************************************)
(* The organizer's calendar page (web, SchedulePage) in front of the API.  *)
(* A handler sets signals up to its await, its call travels, the API       *)
(* serves it, and the rest of the handler runs on the page as it is then.  *)
(* The grid shows the slots of every field, and in them the matches of the *)
(* phases selected: a slot held by another category looks empty.           *)
(***************************************************************************)
EXTENDS PageCalls

CONSTANTS
    Categories,
    Kinds,        \* the types of phases each category has: [Categories -> SUBSET {"pool", "knockout"}]
    First,        \* the category listed first
    PerPhase,     \* matches a generated phase has
    Slots,        \* slots there may be
    Referees

Phases == {p \in [category : Categories, kind : {"pool", "knockout"}] :
              p.kind \in Kinds[p.category]}
MatchesOf(phases) == [phase : phases, number : 1 .. PerPhase]

\* The phases whose matches are shown (activePhases).
Active(category, kind) ==
    {p \in Phases : p.category = category /\ (kind = "all" \/ p.kind = kind)}

NoMatches == [m \in {} |-> None]
OfPhases(matches, phases) == Restrict(matches, {m \in DOMAIN matches : m.phase \in phases})

Init ==
    /\ page = [category |-> None, teams |-> None, phases |-> None, kind |-> "pool",
               matches |-> NoMatches, slots |-> {}, selected |-> None, generating |-> FALSE]
    /\ server = [slots |-> {}, matches |-> NoMatches]
    /\ NoCalls

\* The clicks of a page that has finished loading its lists.
Ready == page.category # None

(***************************************************************************)
(* What the API does with a call                                           *)
(***************************************************************************)
ServeRead(c) ==
    /\ UNCHANGED server
    /\ \/ Serve(c, "slots") /\ Answer(c, server.slots)
       \/ Serve(c, "teams") /\ Answer(c, wire[c].category)
       \/ Serve(c, "phases") /\ Answer(c, wire[c].category)
       \/ Serve(c, "matches") /\ Answer(c, OfPhases(server.matches, wire[c].phases))

\* Matches are refused to a phase that has some; each gets a slot of its own.
ServeGenerate(c) ==
    /\ Serve(c, "generate")
    /\ LET new == MatchesOf(wire[c].phases)
       IN  IF new \cap DOMAIN server.matches # {}
           THEN Refuse(c)
           ELSE \E f \in [new -> Slots \ server.slots] :
                  /\ \A m, n \in new : m # n => f[m] # f[n]
                  /\ LET made == [m \in new |-> [slot |-> f[m], officials |-> {}]]
                     IN  /\ server' = [slots |-> server.slots \cup {f[m] : m \in new},
                                       matches |-> server.matches @@ made]
                         /\ Answer(c, made)

ServeReset(c) ==
    /\ Serve(c, "reset")
    /\ LET gone == OfPhases(server.matches, wire[c].phases)
       IN  server' = [slots |-> server.slots \ {gone[m].slot : m \in DOMAIN gone},
                      matches |-> Restrict(server.matches, DOMAIN server.matches \ DOMAIN gone)]
    /\ Answer(c, "done")

ServeEdit(c) ==
    LET w == wire[c]
        known == w.match \in DOMAIN server.matches
    IN  \/ /\ Serve(c, "move")
           /\ IF /\ known /\ w.slot \in server.slots
                 /\ \A n \in DOMAIN server.matches \ {w.match} : server.matches[n].slot # w.slot
              THEN /\ server' = [server EXCEPT !.matches[w.match].slot = w.slot]
                   /\ Answer(c, server'.matches[w.match])
              ELSE Refuse(c)
        \/ /\ Serve(c, "addOfficial")
           /\ IF known
              THEN /\ server' = [server EXCEPT !.matches[w.match].officials = @ \cup {w.official}]
                   /\ Answer(c, server'.matches[w.match])
              ELSE Refuse(c)
        \/ /\ Serve(c, "removeOfficial")
           /\ IF known /\ w.official \in server.matches[w.match].officials
              THEN /\ server' = [server EXCEPT !.matches[w.match].officials = @ \ {w.official}]
                   /\ Answer(c, "done")
              ELSE Refuse(c)

ServeSlot(c) ==
    \/ /\ Serve(c, "addSlot")
       /\ \E s \in Slots \ server.slots :
            server' = [server EXCEPT !.slots = @ \cup {s}] /\ Answer(c, s)
    \/ /\ Serve(c, "deleteSlot")
       /\ server' = [slots |-> server.slots \ {wire[c].slot},
                     matches |-> [m \in DOMAIN server.matches |->
                        IF server.matches[m].slot = wire[c].slot
                        THEN [server.matches[m] EXCEPT !.slot = None]
                        ELSE server.matches[m]]]
       /\ Answer(c, "done")

(***************************************************************************)
(* The page: a click up to its await, then what follows the answer         *)
(***************************************************************************)
OpenPage(c) ==
    /\ Click(c, "open") /\ ~Ready
    /\ Send(c, [op |-> "slots", then |-> "open"]) /\ UNCHANGED <<page, server>>

ChangeCategory(c) == \E category \in Categories :
    /\ Click(c, "category") /\ Ready
    /\ page' = [page EXCEPT !.category = category]
    /\ Send(c, [op |-> "teams", category |-> category]) /\ UNCHANGED server

GotSlots(c) ==
    /\ Back(c, "slots")
    /\ LET opening == wire[c].then = "open"
       IN  /\ page' = [page EXCEPT !.slots = wire[c].data,
                                   !.category = IF opening THEN First ELSE @,
                                   !.generating = @ /\ wire[c].then # "generate"]
           /\ IF opening THEN Send(c, [op |-> "teams", category |-> First]) ELSE Hang(c)

\* loadTeams, then loadPhases of the category selected by now.
GotTeams(c) ==
    /\ Back(c, "teams")
    /\ page' = [page EXCEPT !.teams = wire[c].data, !.matches = NoMatches]
    /\ Send(c, [op |-> "phases", category |-> page.category])

LoadMatches(c, p) == Send(c, [op |-> "matches", phases |-> Active(p.phases, p.kind)])

GotPhases(c) ==
    /\ Back(c, "phases")
    /\ page' = [page EXCEPT !.phases = wire[c].data,
                            !.kind = IF "pool" \in Kinds[wire[c].data] THEN "pool" ELSE "knockout"]
    /\ LoadMatches(c, page')

ChangeKind(c) == \E kind \in {"all"} \cup {p.kind : p \in Active(page.phases, "all")} :
    /\ Click(c, "kind") /\ Ready
    /\ page' = [page EXCEPT !.kind = kind]
    /\ LoadMatches(c, page') /\ UNCHANGED server

GotMatches(c) ==
    /\ Back(c, "matches") /\ Hang(c)
    /\ page' = [page EXCEPT !.matches = wire[c].data]

\* One button of two, disabled while the other works.
Generate(c, kind, category) ==
    /\ Click(c, "generate") /\ Ready /\ page.kind = kind /\ ~page.generating
    /\ page' = [page EXCEPT !.generating = TRUE]
    /\ Send(c, [op |-> "generate", phases |-> Active(category, kind)]) /\ UNCHANGED server

\* Of the phase loaded last, or of every bracket of the category selected.
GenerateSchedule(c) == Generate(c, "pool", page.phases)
GenerateAllKnockoutMatches(c) == Generate(c, "knockout", page.category)

GotSchedule(c) ==
    /\ Back(c, "generate")
    /\ page' = [page EXCEPT !.matches = wire[c].data]
    /\ Send(c, [op |-> "slots", then |-> "generate"])

\* Mutant: the button stays disabled after a refusal.
GotRefusalOnly(c) == Refused(c) /\ Hang(c) /\ UNCHANGED page

GotRefusal(c) ==
    /\ Refused(c) /\ Hang(c)
    /\ page' = [page EXCEPT !.generating = @ /\ wire[c].op # "generate"]

ResetSchedule(c) ==
    /\ Click(c, "reset") /\ Ready /\ page.kind # "all"
    /\ Send(c, [op |-> "reset", phases |-> Active(page.phases, page.kind)])
    /\ UNCHANGED <<page, server>>

\* Mutant: the slots deleted with the calendar are not loaded again.
ScheduleClearedOnly(c) ==
    /\ Back(c, "reset") /\ Hang(c)
    /\ page' = [page EXCEPT !.matches = NoMatches]

ScheduleCleared(c) ==
    /\ Back(c, "reset")
    /\ page' = [page EXCEPT !.matches = NoMatches]
    /\ Send(c, [op |-> "slots", then |-> "reset"])

\* matchBySlotId: what a cell of the grid holds.
Occupied(s) == \E m \in DOMAIN page.matches : page.matches[m].slot = s
Shown == {m \in DOMAIN page.matches : page.matches[m].slot \in page.slots}

\* A tap selects, or drops the selection; dragging is the same move.
TapMatch == \E m \in Shown :
    /\ Spend("move")
    /\ page' = [page EXCEPT !.selected = IF @ = m THEN None ELSE m]
    /\ UNCHANGED <<server, wire>>

TapSlot(c) == \E s \in page.slots :
    /\ Click(c, "move") /\ ~Occupied(s) /\ page.selected # None
    /\ page' = [page EXCEPT !.selected = None]
    /\ Send(c, [op |-> "move", match |-> page.selected, slot |-> s]) /\ UNCHANGED server

AddOfficial(c) == \E m \in Shown : \E o \in Referees \ page.matches[m].officials :
    /\ Click(c, "official")
    /\ Send(c, [op |-> "addOfficial", match |-> m, official |-> o])
    /\ UNCHANGED <<page, server>>

RemoveOfficial(c) == \E m \in Shown : \E o \in page.matches[m].officials :
    /\ Click(c, "official")
    /\ Send(c, [op |-> "removeOfficial", match |-> m, official |-> o])
    /\ UNCHANGED <<page, server>>

\* The match updated, wherever it still is in the list.
GotMatch(c) ==
    /\ Back(c, "move") \/ Back(c, "addOfficial")
    /\ Hang(c)
    /\ IF wire[c].match \in DOMAIN page.matches
       THEN page' = [page EXCEPT !.matches[wire[c].match] = wire[c].data]
       ELSE UNCHANGED page

OfficialRemoved(c) ==
    /\ Back(c, "removeOfficial") /\ Hang(c)
    /\ IF wire[c].match \in DOMAIN page.matches
       THEN page' = [page EXCEPT !.matches[wire[c].match].officials = @ \ {wire[c].official}]
       ELSE UNCHANGED page

\* The editor, and with it its slots, is shown once there are matches.
AddTimeSlot(c) ==
    /\ Click(c, "addSlot") /\ DOMAIN page.matches # {} /\ Slots # server.slots
    /\ Send(c, [op |-> "addSlot"]) /\ UNCHANGED <<page, server>>

DeleteTimeSlot(c) == \E s \in page.slots :
    /\ Click(c, "deleteSlot") /\ DOMAIN page.matches # {} /\ ~Occupied(s)
    /\ Send(c, [op |-> "deleteSlot", slot |-> s]) /\ UNCHANGED <<page, server>>

GotTimeSlot(c) ==
    /\ Hang(c)
    /\ \/ Back(c, "addSlot") /\ page' = [page EXCEPT !.slots = @ \cup {wire[c].data}]
       \/ Back(c, "deleteSlot") /\ page' = [page EXCEPT !.slots = @ \ {wire[c].slot}]

Next ==
    \/ \E c \in Connections :
        \/ ServeRead(c) \/ ServeGenerate(c) \/ ServeReset(c) \/ ServeEdit(c) \/ ServeSlot(c)
        \/ OpenPage(c) \/ ChangeCategory(c) \/ ChangeKind(c)
        \/ GotSlots(c) \/ GotTeams(c) \/ GotPhases(c) \/ GotMatches(c)
        \/ GotRefusal(c) \/ GenerateSchedule(c) \/ GenerateAllKnockoutMatches(c)
        \/ GotSchedule(c) \/ ResetSchedule(c) \/ ScheduleCleared(c)
        \/ TapSlot(c) \/ AddOfficial(c) \/ RemoveOfficial(c) \/ GotMatch(c) \/ OfficialRemoved(c)
        \/ AddTimeSlot(c) \/ DeleteTimeSlot(c) \/ GotTimeSlot(c)
    \/ TapMatch

Spec == Init /\ [][Next]_vars

\* With one call at a time, the page at rest shows the matches of the phases
\* selected, the teams of the category selected and the slots as the API has
\* them: no handler forgets what its call changed (SchedulePage).
RestingPageIsTrue ==
    AtRest /\ Ready =>
        /\ page.phases = page.category /\ page.teams = page.category
        /\ page.slots = server.slots
        /\ page.matches = OfPhases(server.matches, Active(page.category, page.kind))
\* However answers cross, the button to generate is disabled as long as its one
\* generation lasts, refused or not, and no longer (generateSchedule).
GenerationIsInFlight ==
    LET running == {c \in Connections : \/ wire[c].op = "generate"
                                        \/ wire[c].op = "slots" /\ wire[c].then = "generate"}
    IN  Cardinality(running) = IF page.generating THEN 1 ELSE 0
================================================================================
