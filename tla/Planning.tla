------------------------------- MODULE Planning -------------------------------
(***************************************************************************)
(* The calendar of one tournament's pool (ScheduleGenerationService,       *)
(* TimeSlotsService, MatchesService) on the venue's fields and with the    *)
(* referees it has (VenuesService, FieldsService, RefereesService).  No    *)
(* handler but generate and reset writes in a transaction, and these read  *)
(* before it: the checks of one request and its write are steps between    *)
(* which the other requests go on.                                         *)
(***************************************************************************)
EXTENDS Integers, Sequences, FiniteSets

CONSTANTS
    Teams,            \* the teams of the pool, in order
    Fields,           \* the fields the venue may have
    Referees,         \* the referees the tournament may have
    FieldChoices,     \* the lists of fields a calendar may be generated on
    Windows,          \* the windows a slot may be given, pairs of times
    RefereesPerMatch,
    DoubleRoundRobin,
    TeamsCanReferee,
    Requests,         \* the requests the API serves concurrently
    Operations,       \* the calls considered
    MaxCalls          \* bound: calls in one behaviour

VARIABLES
    db,    \* the rows: fields, referees, slots and matches
    req,   \* what each request in flight does next, and what it has read
    calls  \* calls still to come

vars == <<db, req, calls>>

Nothing == 0
Gone == <<>>   \* a deleted row
Range(s) == {s[i] : i \in DOMAIN s}
Live(rows) == {i \in DOMAIN rows : rows[i] # Gone}

\* timeRangesOverlap: windows that only touch do not overlap.
Overlap(a, b) == a[1] < b[2] /\ b[1] < a[2]

(***************************************************************************)
(* The circle method: the first seat stays, the others turn by one place a *)
(* round, and an odd pool gets a bye.  Sets of [round, home, away] would   *)
(* lose the order the slots are dealt in: they are sequences.              *)
(***************************************************************************)
Seats == IF Len(Teams) % 2 = 0 THEN Teams ELSE Append(Teams, Nothing)

\* Mutant: the first seat turns too.
SeatTurning(round, i) == Seats[1 + ((i - round) % Len(Seats))]

Seat(round, i) ==
    IF i = 1 THEN Seats[1]
    ELSE Seats[2 + ((i - round - 1) % (Len(Seats) - 1))]

Rounds == IF Len(Teams) < 2 THEN 0 ELSE Len(Seats) - 1

SingleLeg ==
    LET half == Len(Seats) \div 2
        Pair(n) == [round |-> 1 + ((n - 1) \div half),
                    home |-> Seat(1 + ((n - 1) \div half), 1 + ((n - 1) % half)),
                    away |-> Seat(1 + ((n - 1) \div half), Len(Seats) - ((n - 1) % half))]
    IN  SelectSeq([n \in 1 .. Rounds * half |-> Pair(n)],
                  LAMBDA f : f.home # Nothing /\ f.away # Nothing)

ReturnLeg ==
    [i \in DOMAIN SingleLeg |->
        [round |-> SingleLeg[i].round + Rounds,
         home |-> SingleLeg[i].away, away |-> SingleLeg[i].home]]

Fixtures == IF DoubleRoundRobin THEN SingleLeg \o ReturnLeg ELSE SingleLeg

\* The officials a fixture is given: the pool of those who may, in turn.
RefereeOrder == CHOOSE s \in [1 .. Cardinality(Referees) -> Referees] : Range(s) = Referees

Officials(referees, fixture, index) ==
    LET pool == SelectSeq(RefereeOrder, LAMBDA o : o \in referees)
                \o (IF TeamsCanReferee THEN Teams ELSE <<>>)
        eligible == SelectSeq(pool, LAMBDA o : o \notin {fixture.home, fixture.away})
    IN  {eligible[1 + ((index - 1 + i) % Len(eligible))] :
            i \in {j \in 0 .. RefereesPerMatch - 1 : j < Len(eligible)}}

(***************************************************************************)
(* Requests                                                                *)
(***************************************************************************)
Idle == [op |-> "idle"]

Init ==
    /\ db = [fields |-> Fields, referees |-> Referees, slots |-> <<>>, matches |-> <<>>]
    /\ req = [r \in Requests |-> Idle]
    /\ calls = MaxCalls

\* The controllers: one call of the organizer's, on an editable tournament.
Accept(r, op) ==
    /\ req[r] = Idle /\ calls > 0 /\ op \in Operations
    /\ calls' = calls - 1

Goto(r, rec) == req' = [req EXCEPT ![r] = rec]
Finish(r) == req' = [req EXCEPT ![r] = Idle]
Refuse(r) == Finish(r) /\ UNCHANGED db

Unassign(matches, slots) ==
    [m \in DOMAIN matches |->
        IF matches[m] # Gone /\ matches[m].slot \in slots
        THEN [matches[m] EXCEPT !.slot = Nothing] ELSE matches[m]]

Delete(rows, ids) == [i \in DOMAIN rows |-> IF i \in ids THEN Gone ELSE rows[i]]

\* Mutant: the match keeps the slot that is deleted.
DropSlotsOnly(d, slots) == [d EXCEPT !.slots = Delete(@, slots)]

\* Deleting a slot leaves its match unassigned (onDelete: SetNull).
DropSlots(d, slots) ==
    [d EXCEPT !.slots = Delete(@, slots), !.matches = Unassign(@, slots)]

(***************************************************************************)
(* Venues, fields and referees: one row at a time                          *)
(***************************************************************************)
\* The name is looked up here and inserted by SaveField; the unique index
\* refuses the second of two fields of one name.
AddField(r) == \E f \in Fields :
    /\ Accept(r, "field") /\ f \notin db.fields
    /\ Goto(r, [op |-> "field", field |-> f]) /\ UNCHANGED db

SaveField(r) ==
    /\ req[r].op = "field" /\ Finish(r) /\ UNCHANGED calls
    /\ db' = [db EXCEPT !.fields = @ \cup {req[r].field}]

\* The slots of a field go with it (onDelete: Cascade), and a venue's fields with it.
DropFields(r, gone) ==
    /\ db' = [DropSlots(db, {s \in Live(db.slots) : db.slots[s].field \in gone})
              EXCEPT !.fields = @ \ gone]
    /\ UNCHANGED req

RemoveField(r) == \E f \in db.fields : Accept(r, "removeField") /\ DropFields(r, {f})

RemoveVenue(r) ==
    /\ Accept(r, "removeVenue") /\ Cardinality(db.fields) > 1
    /\ DropFields(r, db.fields)

AddReferee(r) == \E o \in Referees \ db.referees :
    /\ Accept(r, "referee")
    /\ db' = [db EXCEPT !.referees = @ \cup {o}] /\ UNCHANGED req

RemoveReferee(r) == \E o \in db.referees :
    /\ Accept(r, "removeReferee")
    /\ db' = [db EXCEPT
        !.referees = @ \ {o},
        !.matches = [m \in DOMAIN @ |-> IF @[m] = Gone THEN Gone
                                        ELSE [@[m] EXCEPT !.officials = @ \ {o}]]]
    /\ UNCHANGED req

(***************************************************************************)
(* Slots of a field                                                        *)
(***************************************************************************)
\* Mutant: a slot that begins before another may last into it.
FieldFreeAtStart(f, w, but) ==
    \A s \in Live(db.slots) \ {but} :
        db.slots[s].field = f => ~(db.slots[s].window[1] <= w[1] /\ w[1] < db.slots[s].window[2])

FieldFree(f, w, but) ==
    \A s \in Live(db.slots) \ {but} :
        db.slots[s].field = f => ~Overlap(w, db.slots[s].window)

CreateSlot(r) == \E f \in db.fields, w \in Windows :
    /\ Accept(r, "slot") /\ w[1] < w[2] /\ FieldFree(f, w, Nothing)
    /\ Goto(r, [op |-> "slot", field |-> f, window |-> w]) /\ UNCHANGED db

SaveSlot(r) ==
    /\ req[r].op = "slot" /\ Finish(r) /\ UNCHANGED calls
    /\ IF req[r].field \in db.fields
       THEN db' = [db EXCEPT !.slots =
                Append(@, [field |-> req[r].field, window |-> req[r].window])]
       ELSE UNCHANGED db

\* update looks at the field's other slots, not at who plays in this one.
UpdateSlot(r) == \E s \in Live(db.slots), w \in Windows :
    /\ Accept(r, "updateSlot") /\ w[1] < w[2] /\ FieldFree(db.slots[s].field, w, s)
    /\ Goto(r, [op |-> "updateSlot", slot |-> s, window |-> w]) /\ UNCHANGED db

SaveWindow(r) ==
    /\ req[r].op = "updateSlot" /\ Finish(r) /\ UNCHANGED calls
    /\ IF req[r].slot \in Live(db.slots)
       THEN db' = [db EXCEPT !.slots[req[r].slot].window = req[r].window]
       ELSE UNCHANGED db

RemoveSlot(r) == \E s \in Live(db.slots) :
    /\ Accept(r, "removeSlot") /\ db' = DropSlots(db, {s}) /\ UNCHANGED req

(***************************************************************************)
(* The calendar of the pool                                                *)
(***************************************************************************)
CountMatches(r) == \E fields \in FieldChoices, start \in {w[1] : w \in Windows} :
    /\ Accept(r, "generate")
    /\ Live(db.matches) = {} /\ Range(fields) \subseteq db.fields
    /\ Goto(r, [op |-> "generate", fields |-> fields, start |-> start,
                referees |-> db.referees])
    /\ UNCHANGED db

\* One transaction: a slot, a match and its officials per fixture, each field
\* moving on from where its last slot ended.
CreateCalendar(r) ==
    /\ req[r].op = "generate" /\ Finish(r) /\ UNCHANGED calls
    /\ LET fields == req[r].fields
           Field(i) == fields[1 + ((i - 1) % Len(fields))]
           From(i) == req[r].start + ((i - 1) \div Len(fields))
           slots == [i \in DOMAIN Fixtures |->
                       [field |-> Field(i), window |-> <<From(i), From(i) + 1>>]]
           matches == [i \in DOMAIN Fixtures |->
                       [home |-> Fixtures[i].home, away |-> Fixtures[i].away,
                        slot |-> Len(db.slots) + i,
                        officials |-> Officials(req[r].referees, Fixtures[i], i)]]
           named == UNION {matches[i].officials : i \in DOMAIN matches} \ Range(Teams)
       IN  IF Range(fields) \subseteq db.fields /\ named \subseteq db.referees
           THEN db' = [db EXCEPT !.slots = @ \o slots, !.matches = @ \o matches]
           ELSE UNCHANGED db

ReadCalendar(r) ==
    /\ Accept(r, "reset")
    /\ Goto(r, [op |-> "reset",
                slots |-> {db.matches[m].slot : m \in Live(db.matches)} \ {Nothing}])
    /\ UNCHANGED db

\* The matches of the phase as it is now, the slots as they were read.
ClearCalendar(r) ==
    /\ req[r].op = "reset" /\ Finish(r) /\ UNCHANGED calls
    /\ db' = DropSlots([db EXCEPT !.matches = Delete(@, DOMAIN @)], req[r].slots)

(***************************************************************************)
(* Moving a match, and its officials                                       *)
(***************************************************************************)
\* Mutant: only the home teams are looked at.
BusyAtHome(m, who, w) ==
    \E n \in Live(db.matches) \ {m} :
        /\ db.matches[n].slot # Nothing
        /\ who = db.matches[n].home
        /\ Overlap(w, db.slots[db.matches[n].slot].window)

Busy(m, who, w) ==
    \E n \in Live(db.matches) \ {m} :
        /\ db.matches[n].slot # Nothing
        /\ who \in {db.matches[n].home, db.matches[n].away}
        /\ Overlap(w, db.slots[db.matches[n].slot].window)

\* Mutant: an official is only looked for at the match itself.
OfficiatesHere(m, who, w) ==
    /\ db.matches[m].slot # Nothing /\ who \in db.matches[m].officials
    /\ Overlap(w, db.slots[db.matches[m].slot].window)

Officiates(m, who, w) ==
    \E n \in Live(db.matches) \ {m} :
        /\ db.matches[n].slot # Nothing /\ who \in db.matches[n].officials
        /\ Overlap(w, db.slots[db.matches[n].slot].window)

ReadMatch(r) == \E m \in Live(db.matches), s \in Live(db.slots) \cup {Nothing} :
    /\ Accept(r, "move")
    /\ Goto(r, [op |-> IF s = Nothing THEN "assign" ELSE "move", match |-> m, slot |-> s,
                read |-> db.matches[m]])
    /\ UNCHANGED db

CheckSlot(r) ==
    /\ req[r].op = "move" /\ UNCHANGED <<db, calls>>
    /\ LET m == req[r].match
           s == req[r].slot
           free == /\ s \in Live(db.slots)
                   /\ \A n \in Live(db.matches) \ {m} : db.matches[n].slot # s
                   /\ \A t \in {req[r].read.home, req[r].read.away} :
                        ~Busy(m, t, db.slots[s].window)
                   /\ \A o \in req[r].read.officials : ~Officiates(m, o, db.slots[s].window)
       IN  IF free THEN Goto(r, [req[r] EXCEPT !.op = "assign"]) ELSE Finish(r)

\* The write: a slot holds one match (Match.timeSlotId is unique).
AssignSlot(r) ==
    /\ req[r].op = "assign" /\ Finish(r) /\ UNCHANGED calls
    /\ LET m == req[r].match
           s == req[r].slot
       IN  IF /\ m \in Live(db.matches) /\ s \in Live(db.slots) \cup {Nothing}
              /\ s # Nothing => \A n \in Live(db.matches) \ {m} : db.matches[n].slot # s
           THEN db' = [db EXCEPT !.matches[m].slot = s]
           ELSE UNCHANGED db

AddOfficial(r) ==
    \E m \in Live(db.matches),
       o \in db.referees \cup Range(Teams) :
        /\ Accept(r, "official")
        /\ o \notin {db.matches[m].home, db.matches[m].away}
        /\ db.matches[m].slot # Nothing =>
             ~Officiates(m, o, db.slots[db.matches[m].slot].window)
        /\ Goto(r, [op |-> "official", match |-> m, official |-> o]) /\ UNCHANGED db

SaveOfficial(r) ==
    /\ req[r].op = "official" /\ Finish(r) /\ UNCHANGED calls
    /\ IF /\ req[r].match \in Live(db.matches)
          /\ req[r].official \in db.referees \cup Range(Teams)
       THEN db' = [db EXCEPT !.matches[req[r].match].officials = @ \cup {req[r].official}]
       ELSE UNCHANGED db

RemoveOfficial(r) == \E m \in Live(db.matches) : \E o \in db.matches[m].officials :
    /\ Accept(r, "removeOfficial")
    /\ db' = [db EXCEPT !.matches[m].officials = @ \ {o}] /\ UNCHANGED req

Next == \E r \in Requests :
    \/ AddField(r) \/ SaveField(r) \/ RemoveField(r) \/ RemoveVenue(r)
    \/ AddReferee(r) \/ RemoveReferee(r)
    \/ CreateSlot(r) \/ SaveSlot(r) \/ UpdateSlot(r) \/ SaveWindow(r) \/ RemoveSlot(r)
    \/ CountMatches(r) \/ CreateCalendar(r) \/ ReadCalendar(r) \/ ClearCalendar(r)
    \/ ReadMatch(r) \/ CheckSlot(r) \/ AssignSlot(r)
    \/ AddOfficial(r) \/ SaveOfficial(r) \/ RemoveOfficial(r)

Spec == Init /\ [][Next]_vars

(***************************************************************************)
(* Properties                                                              *)
(***************************************************************************)
Placed == {m \in Live(db.matches) : db.matches[m].slot # Nothing}

WindowOf(m) == db.slots[db.matches[m].slot].window

\* Whatever requests race, a slot holds one match and every match's slot,
\* every slot's field and every referee named still exist (moveMatch, the
\* cascades of fields.service, timeslots.service and referees.service).
CalendarHangsTogether ==
    /\ \A m, n \in Placed : m # n => db.matches[m].slot # db.matches[n].slot
    /\ \A m \in Placed : db.matches[m].slot \in Live(db.slots)
    /\ \A s \in Live(db.slots) : db.slots[s].field \in db.fields
    /\ \A m \in Live(db.matches) : db.matches[m].officials \subseteq db.referees \cup Range(Teams)

\* Who plays or officiates in both of two matches that are on at once.
Shared(m, n) ==
    IF {m, n} \subseteq Placed /\ m # n /\ Overlap(WindowOf(m), WindowOf(n))
    THEN [playing |-> {db.matches[m].home, db.matches[m].away}
                         \cap {db.matches[n].home, db.matches[n].away},
          officiating |-> db.matches[m].officials \cap db.matches[n].officials]
    ELSE [playing |-> {}, officiating |-> {}]

\* One request at a time, windows kept: of the matches there are, none is moved, and no
\* official named, so that somebody plays two matches at once, or officiates two, who did
\* not in the calendar as it was generated (assertNoTeamConflict, assertNoOfficialConflict).
NobodyIsMovedIntoTwoPlaces ==
    \A m, n \in Live(db.matches) :
        /\ Shared(m, n).playing' \subseteq Shared(m, n).playing
        /\ Shared(m, n).officiating' \subseteq Shared(m, n).officiating

\* One request at a time, without a generated calendar: no two slots of a field
\* overlap (assertNoFieldOverlap).
FieldsAreShared ==
    \A s, t \in Live(db.slots) :
        s # t /\ db.slots[s].field = db.slots[t].field =>
            ~Overlap(db.slots[s].window, db.slots[t].window)

\* One request at a time: a calendar makes every two teams meet once, or once
\* at each one's home (generateRoundRobinFixtures, returnLeg).
EveryPairMeets ==
    Live(db.matches) # {} =>
        \A t, u \in Range(Teams) : t # u =>
            LET at == Cardinality({m \in Live(db.matches) :
                        db.matches[m].home = t /\ db.matches[m].away = u})
                in == Cardinality({m \in Live(db.matches) :
                        db.matches[m].home = u /\ db.matches[m].away = t})
            IN  IF DoubleRoundRobin THEN at = 1 /\ in = 1 ELSE at + in = 1
================================================================================
