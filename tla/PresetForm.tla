------------------------------- MODULE PresetForm -------------------------------
(***************************************************************************)
(* A category's structure in one request: pools, brackets and the rules    *)
(* that feed them (StructurePresetsService.create).  The admin page builds *)
(* the request from a form that mirrors the API's checks (StructurePage,   *)
(* the preset signals); the app's wizard sends what was typed, unchecked.  *)
(***************************************************************************)
EXTENDS PageCalls, SequencesExt

CONSTANTS
    Numbers,    \* by field, what is typed there; 0 for a field left empty
    Names,      \* the tier names typed; None for one left empty
    Default,    \* the name a first tier has
    PoolsName,  \* the name of the phase the pools are in
    MaxPools,   \* MAX_POOL_COUNT
    Unassigned, \* the category's teams in no pool, to begin with
    Leftovers,  \* the teams a former bracket's seed pool may still hold
    Patient     \* bound: nothing is typed while the form's request is out

Sizes == {2, 4, 8, 16, 32}   \* isPowerOfTwo, as far as the counts go

Sum(tiers) == FoldSeq(LAMBDA t, n : t.qualifiers + n, 0, tiers)
Extra(best, i) == IF i = 1 /\ best # None THEN best.count ELSE 0
BracketSize(pools, tiers, best, i) == (pools * tiers[i].qualifiers) + Extra(best, i)

(***************************************************************************)
(* The API                                                                 *)
(***************************************************************************)
\* assertCombinationIsPossible
Possible(r) ==
    \/ r.format = "knockout" /\ r.teams \in Sizes
    \/ /\ r.format # "knockout" /\ r.pools <= MaxPools /\ r.pools <= r.teams
       /\ \/ r.format = "pools"
          \/ LET smallest == r.teams \div r.pools
                 direct == Sum(r.tiers)
             IN  /\ direct <= smallest
                 /\ r.best # None => /\ r.best.count <= r.pools
                                     /\ r.best.position > direct
                                     /\ r.best.position <= smallest
                 /\ \A i \in DOMAIN r.tiers :
                        BracketSize(r.pools, r.tiers, r.best, i) \in Sizes

\* What the request must say of its numbers (CreateStructurePresetDto).
WellFormed(r) ==
    /\ r.teams >= 1
    /\ r.format # "knockout" => r.pools >= 1
    /\ r.format = "both" =>
        /\ r.tiers # <<>>
        /\ \A i \in DOMAIN r.tiers : r.tiers[i].qualifiers >= 1 /\ r.tiers[i].name # None
        /\ r.best # None => r.best.position >= 1 /\ r.best.count >= 1

\* One name per phase of a category, as the database wants it: the pools' and each tier's.
NamesDiffer(r) ==
    LET names == <<PoolsName>> \o [i \in DOMAIN r.tiers |-> r.tiers[i].name]
    IN  IsInjective(names)

Accepts(r, free) == WellFormed(r) /\ Possible(r) /\ free = r.teams /\ NamesDiffer(r)

\* createKnockoutOnly: one seed pool of everyone, all of it qualified.
KnockoutOnly(r) ==
    [pools |-> <<r.teams>>,
     brackets |-> <<[size |-> r.teams, rules |-> <<[from |-> 1, to |-> r.teams]>>, best |-> None]>>]

\* Mutant: each tier starts over from the first position.
WithPoolsFromFirst(r) ==
    [pools |-> [p \in 1..r.pools |-> Cardinality({t \in 0..(r.teams - 1) : t % r.pools = p - 1})],
     brackets |->
        IF r.format = "pools" THEN <<>>
        ELSE [i \in DOMAIN r.tiers |->
                [size |-> BracketSize(r.pools, r.tiers, r.best, i),
                 rules |-> [p \in 1..r.pools |-> [from |-> 1, to |-> r.tiers[i].qualifiers]],
                 best |-> IF i = 1 THEN r.best ELSE None]]]

\* createWithPoolPhase: team i goes to pool i modulo their number; each tier
\* takes the next positions of every pool, the first the best of one position.
WithPools(r) ==
    [pools |-> [p \in 1..r.pools |-> Cardinality({t \in 0..(r.teams - 1) : t % r.pools = p - 1})],
     brackets |->
        IF r.format = "pools" THEN <<>>
        ELSE [i \in DOMAIN r.tiers |->
                LET before == Sum(SubSeq(r.tiers, 1, i - 1))
                IN  [size |-> BracketSize(r.pools, r.tiers, r.best, i),
                     rules |-> [p \in 1..r.pools |->
                         [from |-> before + 1, to |-> before + r.tiers[i].qualifiers]],
                     best |-> IF i = 1 THEN r.best ELSE None]]]

\* A category with phases is refused, unless only a seed pool is left of them:
\* that one is deleted, and stays deleted when the request is then refused.
ServePreset(c) ==
    /\ \/ Serve(c, "preset")
       \/ Serve(c, "wizard")
    /\ LET r == wire[c].request
           free == server.free + server.leftover
       IN  IF server.built # None
           THEN Refuse(c)
           ELSE IF Accepts(r, free)
           THEN /\ server' = [free |-> 0, leftover |-> 0,
                              built |-> IF r.format = "knockout" THEN KnockoutOnly(r) ELSE WithPools(r)]
                /\ Answer(c, "done")
           ELSE /\ server' = [server EXCEPT !.free = free, !.leftover = 0]
                /\ wire' = [wire EXCEPT ![c].at = "refused"]

(***************************************************************************)
(* The form                                                                *)
(***************************************************************************)
NewTier == [name |-> None, qualifiers |-> 0]
FirstTier == [name |-> Default, qualifiers |-> 0]

\* resetPresetForm, then the count of free teams proposed (loadCategoryData).
EmptyForm(free, shown) ==
    [format |-> "both", teams |-> free, pools |-> 0, tiers |-> <<FirstTier>>,
     several |-> FALSE, best |-> FALSE, position |-> 0, count |-> 0,
     submitting |-> FALSE, free |-> free, shown |-> shown]

Init ==
    \E leftover \in Leftovers :
        /\ server = [free |-> Unassigned - leftover, leftover |-> leftover, built |-> None]
        /\ page = EmptyForm(Unassigned - leftover, TRUE)
        /\ NoCalls

\* Mutant: the best of a position that qualifies directly.
FormIsPossibleTwice(f) ==
    \/ /\ f.format = "knockout" /\ f.teams \in Sizes
    \/ /\ f.format # "knockout" /\ f.pools <= f.teams
       /\ \/ f.format = "pools"
          \/ LET smallest == f.teams \div f.pools
                 direct == Sum(f.tiers)
                 best == IF f.best THEN [position |-> f.position, count |-> f.count] ELSE None
             IN  /\ direct <= smallest
                 /\ f.best /\ f.position > 0 /\ f.count > 0 =>
                        f.count <= f.pools /\ f.position >= direct /\ f.position <= smallest
                 /\ \A i \in DOMAIN f.tiers : BracketSize(f.pools, f.tiers, best, i) \in Sizes

\* presetValidationError, when every number it looks at is typed.
FormIsPossible(f) ==
    \/ /\ f.format = "knockout" /\ f.teams \in Sizes
    \/ /\ f.format # "knockout" /\ f.pools <= f.teams
       /\ \/ f.format = "pools"
          \/ LET smallest == f.teams \div f.pools
                 direct == Sum(f.tiers)
                 best == IF f.best THEN [position |-> f.position, count |-> f.count] ELSE None
             IN  /\ direct <= smallest
                 /\ f.best /\ f.position > 0 /\ f.count > 0 =>
                        f.count <= f.pools /\ f.position > direct /\ f.position <= smallest
                 /\ \A i \in DOMAIN f.tiers : BracketSize(f.pools, f.tiers, best, i) \in Sizes

\* Every number typed, and every name (presetCanSubmit).
Complete(f) ==
    /\ f.teams > 0
    /\ f.format # "knockout" => f.pools > 0
    /\ f.format = "both" =>
        /\ \A i \in DOMAIN f.tiers : f.tiers[i].qualifiers > 0 /\ f.tiers[i].name # None
        /\ f.best => f.position > 0 /\ f.count > 0

CanSubmit(f) == Complete(f) /\ FormIsPossible(f) /\ f.free = f.teams

\* The request the form sends: only what its format uses.
Payload(f) ==
    [format |-> f.format, teams |-> f.teams,
     pools |-> IF f.format = "knockout" THEN 0 ELSE f.pools,
     tiers |-> IF f.format = "both" THEN f.tiers ELSE <<>>,
     best |-> IF f.format = "both" /\ f.best
              THEN [position |-> f.position, count |-> f.count] ELSE None]

\* The form is there, on the web, while the category shows no phase, a seed phase aside.
Edit(f) ==
    /\ "generate" \in Clicks /\ page.shown /\ ~(Patient /\ page.submitting)
    /\ page' = f /\ UNCHANGED <<server, wire, left>>

ChangeFormat == \E format \in {"pools", "both", "knockout"} :
    Edit([page EXCEPT !.format = format, !.best = @ /\ format = "both",
                      !.pools = IF format = "knockout" THEN 0 ELSE @])

TypeNumber == \E field \in {"teams", "pools", "position", "count"} : \E n \in Numbers[field] :
    Edit([page EXCEPT ![field] = n])

TypeTier == \E i \in DOMAIN page.tiers :
    \/ \E n \in Numbers.qualifiers : Edit([page EXCEPT !.tiers[i].qualifiers = n])
    \/ \E name \in Names : page.several /\ Edit([page EXCEPT !.tiers[i].name = name])

\* Back to one tier, its default name restored.
ToggleSeveral ==
    Edit([page EXCEPT !.several = ~@,
                      !.tiers = IF page.several THEN <<[@[1] EXCEPT !.name = Default]>>
                                ELSE IF Len(@) < 2 THEN Append(@, NewTier) ELSE @])

AddTier == page.several /\ Len(page.tiers) < 2 /\ Edit([page EXCEPT !.tiers = Append(@, NewTier)])

RemoveTier == \E i \in DOMAIN page.tiers :
    page.several /\ Len(page.tiers) > 1 /\ Edit([page EXCEPT !.tiers = RemoveAt(@, i)])

\* The next position no tier takes is proposed.
ToggleBest ==
    Edit([page EXCEPT !.best = ~@,
                      !.position = IF ~page.best /\ @ = 0 THEN Sum(page.tiers) + 1 ELSE @])

Generate(c) ==
    /\ Click(c, "generate") /\ page.shown
    /\ CanSubmit(page) /\ ~page.submitting
    /\ page' = [page EXCEPT !.submitting = TRUE]
    /\ Send(c, [op |-> "preset", request |-> Payload(page)])
    /\ UNCHANGED server

\* The wizard counts every team of the category and asks for one tier.
GenerateInApp(c) ==
    \E pools \in Numbers.pools, qualifiers \in Numbers.qualifiers, format \in {"pools", "both", "knockout"} :
    /\ Click(c, "wizard")
    /\ Send(c, [op |-> "wizard", request |->
           [format |-> format, teams |-> Unassigned,
            pools |-> IF format = "pools" THEN 1 ELSE IF format = "knockout" THEN 0 ELSE pools,
            tiers |-> IF format = "both" THEN <<[name |-> Default, qualifiers |-> qualifiers]>> ELSE <<>>,
            best |-> None]])
    /\ UNCHANGED <<page, server>>

\* Generated: the form goes, and would start again from the teams still free.
Generated(c) == Back(c, "preset") /\ Hang(c)
                /\ page' = EmptyForm(server.free, FALSE)
Failed(c) == Refused(c) /\ wire[c].op = "preset" /\ Hang(c)
             /\ page' = [page EXCEPT !.submitting = FALSE]
AppAnswered(c) == /\ \/ Back(c, "wizard")
                     \/ Refused(c) /\ wire[c].op = "wizard"
                  /\ Hang(c) /\ UNCHANGED page

Next ==
    \/ ChangeFormat \/ TypeNumber \/ TypeTier
    \/ ToggleSeveral \/ AddTier \/ RemoveTier \/ ToggleBest
    \/ \E c \in Connections :
        ServePreset(c) \/ Generate(c) \/ GenerateInApp(c) \/ Generated(c) \/ Failed(c) \/ AppAnswered(c)

Spec == Init /\ [][Next]_vars

\* The form mirrors the API's checks but for two: once complete, it offers to generate
\* whatever the API accepts, and what it offers is refused only for too many pools or a
\* phase's name given twice, whatever was typed, toggled and typed before.
FormMirrorsApi ==
    page.shown /\ page.free = server.free /\ Complete(page) =>
        LET r == Payload(page) IN
        Accepts(r, server.free) <=> CanSubmit(page) /\ r.pools <= MaxPools /\ NamesDiffer(r)

\* Every structure generated can fill its brackets: the positions its rules
\* name exist in every pool, qualify nobody twice, and are as many as the
\* bracket has places.
BracketsCanBeFilled ==
    server.built # None =>
        LET b == server.built
            Pools == DOMAIN b.pools
            Direct(i) == {<<p, k>> \in Pools \X (1..Unassigned) :
                             k >= b.brackets[i].rules[p].from /\ k <= b.brackets[i].rules[p].to}
            Best(i) == IF b.brackets[i].best = None THEN {}
                       ELSE Pools \X {b.brackets[i].best.position}
        IN  /\ FoldFunction(+, 0, b.pools) = Unassigned
            /\ \A i \in DOMAIN b.brackets :
                /\ \A <<p, k>> \in Direct(i) \cup Best(i) : k <= b.pools[p]
                /\ b.brackets[i].size = Cardinality(Direct(i)) +
                       (IF b.brackets[i].best = None THEN 0 ELSE b.brackets[i].best.count)
                /\ \A j \in DOMAIN b.brackets :
                       /\ Best(i) \cap Direct(j) = {}
                       /\ i # j => Direct(i) \cap Direct(j) = {}
================================================================================
