----------------------------- MODULE StructurePage -----------------------------
(***************************************************************************)
(* The structure of a category: phases, pools, brackets, and the rules     *)
(* that lead from one to the next (PhasesService, GroupsService,           *)
(* KnockoutBracketsService, StandingRulesService, the two services of      *)
(* qualification rules, TeamsService.assignGroup), as the admin page edits *)
(* it.  The page loads a category once, then keeps itself up to date from  *)
(* the answers; the database deletes what hangs on a row by itself.  The   *)
(* standing and qualification rules belong to a pool; the page shows and   *)
(* edits one set of them per phase, by calls for each of its pools.        *)
(***************************************************************************)
EXTENDS PageCalls, FiniteSetsExt, SequencesExt

CONSTANTS
    Names,    \* names typed for phases and pools
    Teams,    \* the category's teams
    Spans,    \* <<from, to>>: the positions a qualification rule is typed for
    Schemes,  \* barèmes that can be typed
    Standard, \* DEFAULT_TIE_BREAK_ORDER and the points of the schema
    Given,    \* the structures the category may have to begin with
    Repeats   \* whether a rule is also typed that the phase has already

(***************************************************************************)
(* The API: every call does all of one request, or refuses it.             *)
(***************************************************************************)
Served(c, request) == Serve(c, "calls") /\ Head(wire[c].todo).do = request
Request(c) == Head(wire[c].todo)

\* The next request of the handler; a handler that awaits them one by one
\* gives up at the first refusal, Promise.all has sent them all already.
Next1(call, answer, ok) ==
    LET rest == Tail(call.todo)
    IN  [call EXCEPT !.todo = rest, !.got = IF ok THEN Append(@, answer) ELSE @,
                     !.failed = @ \/ ~ok,
                     !.at = IF rest # <<>> /\ (ok \/ call.together) THEN "sent"
                            ELSE IF ok /\ ~call.failed THEN "back" ELSE "refused"]

Granted(c, s, answer) == server' = s /\ wire' = [wire EXCEPT ![c] = Next1(@, answer, TRUE)]
Denied(c) == wire' = [wire EXCEPT ![c] = Next1(@, None, FALSE)] /\ UNCHANGED server

Id == server.last + 1
Has(rows, id) == \E x \in rows : x.id = id
Row(rows, id) == CHOOSE x \in rows : x.id = id
Without(rows, id) == {x \in rows : x.id # id}

CreatePhase(c) ==
    /\ Served(c, "createPhase")
    /\ LET r == Request(c)
           phase == [id |-> Id, name |-> r.name, kind |-> r.kind, seed |-> FALSE, twice |-> r.twice]
       IN  IF \E x \in server.phases : x.name = r.name
           THEN Denied(c)
           ELSE Granted(c, [server EXCEPT !.phases = @ \cup {phase}, !.last = Id], phase)

UpdatePhase(c) ==
    /\ Served(c, "updatePhase")
    /\ LET r == Request(c)
           phase == [Row(server.phases, r.id) EXCEPT !.twice = r.twice]
       IN  IF ~Has(server.phases, r.id)
           THEN Denied(c)
           ELSE Granted(c, [server EXCEPT !.phases = Without(@, r.id) \cup {phase}], phase)

\* What goes with a pool: its rules, and its teams' places.
PoolsGone(s, ids) ==
    [s EXCEPT !.pools = {x \in @ : x.id \notin ids},
              !.rules = {x \in @ : x.pool \notin ids},
              !.scheme = Restrict(@, DOMAIN @ \ ids),
              !.team = [t \in Teams |-> IF @[t] \in ids THEN None ELSE @[t]]]

DeletePhase(c) ==
    /\ Served(c, "deletePhase")
    /\ LET id == Request(c).id
           without == PoolsGone(server, {x.id : x \in {y \in server.pools : y.phase = id}})
       IN  IF ~Has(server.phases, id)
           THEN Denied(c)
           ELSE Granted(c, [without EXCEPT
                    !.phases = Without(@, id),
                    !.brackets = {x \in @ : x.phase # id},
                    !.rules = {x \in @ : x.target # id},
                    !.best = {x \in @ : x.phase # id /\ x.target # id}], id)

CreateGroup(c) ==
    /\ Served(c, "createGroup")
    /\ LET r == Request(c)
           pool == [id |-> Id, phase |-> r.phase, name |-> r.name]
       IN  IF \/ ~Has(server.phases, r.phase)
              \/ Row(server.phases, r.phase).kind # "pools"
              \/ \E x \in server.pools : x.phase = r.phase /\ x.name = r.name
           THEN Denied(c)
           ELSE Granted(c, [server EXCEPT !.pools = @ \cup {pool}, !.last = Id,
                                          !.scheme = @ @@ (Id :> Standard)], pool)

DeleteGroup(c) ==
    /\ Served(c, "deleteGroup")
    /\ LET id == Request(c).id
       IN  IF Has(server.pools, id) THEN Granted(c, PoolsGone(server, {id}), id) ELSE Denied(c)

UpdateStandingRule(c) ==
    /\ Served(c, "updateScheme")
    /\ LET r == Request(c)
       IN  IF Has(server.pools, r.pool)
           THEN Granted(c, [server EXCEPT !.scheme[r.pool] = r.scheme], r)
           ELSE Denied(c)

\* Two phases of one category, and not the same.
MayLead(from, to) == Has(server.phases, from) /\ Has(server.phases, to) /\ from # to

CreateQualificationRule(c) ==
    /\ Served(c, "createRule")
    /\ LET r == Request(c)
           rule == [id |-> Id, pool |-> r.pool, span |-> r.span, target |-> r.target]
       IN  IF /\ Has(server.pools, r.pool) /\ r.span[1] <= r.span[2]
              /\ MayLead(Row(server.pools, r.pool).phase, r.target)
           THEN Granted(c, [server EXCEPT !.rules = @ \cup {rule}, !.last = Id], rule)
           ELSE Denied(c)

DeleteQualificationRule(c) ==
    /\ Served(c, "deleteRule")
    /\ LET id == Request(c).id
       IN  IF Has(server.rules, id)
           THEN Granted(c, [server EXCEPT !.rules = Without(@, id)], id) ELSE Denied(c)

CreateCrossGroupRule(c) ==
    /\ Served(c, "createBest")
    /\ LET r == Request(c)
           rule == [id |-> Id, phase |-> r.phase, target |-> r.target]
       IN  IF MayLead(r.phase, r.target) /\ Row(server.phases, r.phase).kind = "pools"
           THEN Granted(c, [server EXCEPT !.best = @ \cup {rule}, !.last = Id], rule)
           ELSE Denied(c)

DeleteCrossGroupRule(c) ==
    /\ Served(c, "deleteBest")
    /\ LET id == Request(c).id
       IN  IF Has(server.best, id)
           THEN Granted(c, [server EXCEPT !.best = Without(@, id)], id) ELSE Denied(c)

CreateBracket(c) ==
    /\ Served(c, "createBracket")
    /\ LET r == Request(c)
           bracket == [id |-> Id, phase |-> r.phase, ranking |-> FALSE]
       IN  IF \/ ~Has(server.phases, r.phase)
              \/ Row(server.phases, r.phase).kind # "knockout"
              \/ \E x \in server.brackets : x.phase = r.phase
           THEN Denied(c)
           ELSE Granted(c, [server EXCEPT !.brackets = @ \cup {bracket}, !.last = Id], bracket)

UpdateBracket(c) ==
    /\ Served(c, "updateBracket")
    /\ LET r == Request(c)
           bracket == [Row(server.brackets, r.id) EXCEPT !.ranking = r.ranking]
       IN  IF Has(server.brackets, r.id)
           THEN Granted(c, [server EXCEPT !.brackets = Without(@, r.id) \cup {bracket}], bracket)
           ELSE Denied(c)

DeleteBracket(c) ==
    /\ Served(c, "deleteBracket")
    /\ LET id == Request(c).id
       IN  IF Has(server.brackets, id)
           THEN Granted(c, [server EXCEPT !.brackets = Without(@, id)], id) ELSE Denied(c)

AssignGroup(c) ==
    /\ Served(c, "assign")
    /\ LET r == Request(c)
       IN  IF r.pool = None \/ Has(server.pools, r.pool)
           THEN Granted(c, [server EXCEPT !.team[r.team] = r.pool], r)
           ELSE Denied(c)

Api(c) ==
    \/ CreatePhase(c) \/ UpdatePhase(c) \/ DeletePhase(c) \/ CreateGroup(c) \/ DeleteGroup(c)
    \/ UpdateStandingRule(c) \/ CreateQualificationRule(c) \/ DeleteQualificationRule(c)
    \/ CreateCrossGroupRule(c) \/ DeleteCrossGroupRule(c)
    \/ CreateBracket(c) \/ UpdateBracket(c) \/ DeleteBracket(c) \/ AssignGroup(c)

(***************************************************************************)
(* The page                                                                *)
(***************************************************************************)
PoolsIn(pools, phase) == {x \in pools : x.phase = phase}
Ids(rows) == {x.id : x \in rows}

\* Rules of a phase's pools with one span and target are one rule of the
\* phase; of two such rules of one pool, only the last is remembered.
RuleGroups(s) ==
    {LET mine == {x \in s.rules : x.pool \in Ids(PoolsIn(s.pools, phase.id))
                                   /\ x.span = r.span /\ x.target = r.target}
     IN  [phase |-> phase.id, span |-> r.span, target |-> r.target,
          ids |-> [p \in {x.pool : x \in mine} |-> Max(Ids({x \in mine : x.pool = p}))]]
     : <<phase, r>> \in {<<y, x>> \in s.phases \X s.rules : Row(s.pools, x.pool).phase = y.id}}

\* loadCategoryData, loadPhaseRules: a phase has the barème of its first pool.
Load(s) ==
    [phases |-> s.phases, pools |-> s.pools, brackets |-> s.brackets, team |-> s.team, best |-> s.best,
     groups |-> RuleGroups(s),
     scheme |-> [p \in {x.phase : x \in s.pools} |-> s.scheme[Min(Ids(PoolsIn(s.pools, p)))]]]

Init ==
    /\ server \in Given
    /\ page = Load(server)
    /\ NoCalls

\* A handler and the requests it sends: one by one, or all together.
Ask(c, handler, todo) ==
    Send(c, [op |-> "calls", handler |-> handler, todo |-> todo, got |-> <<>>,
             together |-> TRUE, failed |-> FALSE])
AskInTurn(c, handler, todo) ==
    Send(c, [op |-> "calls", handler |-> handler, todo |-> todo, got |-> <<>>,
             together |-> FALSE, failed |-> FALSE])
Start(c, op, data, todo) ==
    Click(c, op) /\ Ask(c, [data EXCEPT !.name = op], todo) /\ UNCHANGED <<page, server>>
Nothing == [name |-> None, phase |-> None, item |-> None]

Open(c) == \* the category chosen again
    /\ wire[c] = Idle /\ Spend("open")
    /\ page' = Load(server)
    /\ UNCHANGED <<server, wire>>

AddPhase(c) == \E name \in Names, kind \in {"pools", "knockout"} :
    Start(c, "addPhase", Nothing,
          <<[do |-> "createPhase", name |-> name, kind |-> kind, twice |-> FALSE]>>)

Visible == {x \in page.phases : ~x.seed}

ToggleDoubleRoundRobin(c) == \E phase \in Visible :
    /\ phase.kind = "pools"
    /\ Start(c, "twice", Nothing, <<[do |-> "updatePhase", id |-> phase.id, twice |-> ~phase.twice]>>)

RemovePhase(c) == \E phase \in Visible :
    Start(c, "removePhase", [Nothing EXCEPT !.phase = phase.id], <<[do |-> "deletePhase", id |-> phase.id]>>)

AddGroup(c) == \E phase \in Visible, name \in Names :
    /\ phase.kind = "pools"
    /\ Start(c, "addGroup", [Nothing EXCEPT !.phase = phase.id],
             <<[do |-> "createGroup", phase |-> phase.id, name |-> name]>>)

RemoveGroup(c) == \E pool \in page.pools :
    Start(c, "removeGroup", [Nothing EXCEPT !.phase = pool.phase, !.item = pool.id],
          <<[do |-> "deleteGroup", id |-> pool.id]>>)

\* The barème is edited on the page, for a phase it was loaded for.
TypeScheme(c) == \E p \in DOMAIN page.scheme, s \in Schemes :
    /\ Spend("type")
    /\ p \in Ids(page.phases)
    /\ page' = [page EXCEPT !.scheme[p] = s]
    /\ UNCHANGED <<server, wire>>

SaveScheme(c) == \E p \in DOMAIN page.scheme :
    LET pools == SetToSortSeq(Ids(PoolsIn(page.pools, p)), <)
    IN  /\ pools # <<>>
        /\ Start(c, "save", [Nothing EXCEPT !.phase = p],
                 [i \in DOMAIN pools |->
                     [do |-> "updateScheme", pool |-> pools[i], scheme |-> page.scheme[p]]])

Key(g) == <<g.span, g.target>>

AddRule(c) == \E phase \in Visible, target \in page.phases, span \in Spans :
    LET pools == SetToSortSeq(Ids(PoolsIn(page.pools, phase.id)), <)
    IN  /\ phase # target /\ pools # <<>>
        /\ Repeats \/ \A g \in page.groups : g.phase = phase.id => Key(g) # <<span, target.id>>
        /\ Start(c, "addRule",
                 [Nothing EXCEPT !.phase = phase.id, !.item = [span |-> span, target |-> target.id]],
                 [i \in DOMAIN pools |->
                     [do |-> "createRule", pool |-> pools[i], span |-> span, target |-> target.id]])

RemoveRule(c) == \E g \in page.groups :
    LET rules == SetToSortSeq(Range(g.ids), <)
    IN  /\ g.phase \in Ids(page.phases) /\ rules # <<>>
        /\ Start(c, "removeRule", [Nothing EXCEPT !.phase = g.phase, !.item = Key(g)],
                 [i \in DOMAIN rules |-> [do |-> "deleteRule", id |-> rules[i]]])

AddBest(c) == \E phase \in Visible, target \in page.phases :
    /\ phase.kind = "pools" /\ phase # target
    /\ Start(c, "addBest", Nothing,
             <<[do |-> "createBest", phase |-> phase.id, target |-> target.id]>>)

RemoveBest(c) == \E x \in page.best :
    /\ x.phase \in Ids(page.phases)
    /\ Start(c, "removeBest", [Nothing EXCEPT !.item = x.id], <<[do |-> "deleteBest", id |-> x.id]>>)

AddBracket(c) == \E phase \in Visible :
    /\ phase.kind = "knockout" /\ \A x \in page.brackets : x.phase # phase.id
    /\ Start(c, "addBracket", Nothing, <<[do |-> "createBracket", phase |-> phase.id]>>)

SaveRanking(c) == \E x \in page.brackets :
    Start(c, "ranking", Nothing, <<[do |-> "updateBracket", id |-> x.id, ranking |-> ~x.ranking]>>)

RemoveBracket(c) == \E x \in page.brackets :
    Start(c, "removeBracket", [Nothing EXCEPT !.item = x.id], <<[do |-> "deleteBracket", id |-> x.id]>>)

\* A team chosen for a pool stays chosen there when it goes to another one.
AssignTeam(c) == \E t \in Teams, pool \in Ids(page.pools) :
    /\ page.team[t] # pool
    /\ Start(c, "assign", Nothing, <<[do |-> "assign", team |-> t, pool |-> pool]>>)

UnassignTeam(c) == \E t \in Teams :
    /\ page.team[t] \in Ids(page.pools)
    /\ Start(c, "unassign", Nothing, <<[do |-> "assign", team |-> t, pool |-> None]>>)

(***************************************************************************)
(* What follows the answers                                                *)
(***************************************************************************)
Answered(c, names) == Back(c, "calls") /\ wire[c].handler.name \in names
Answers(c) == wire[c].got

GotRow(c) ==
    /\ Answered(c, {"addPhase", "twice", "addBest", "addBracket", "ranking", "assign", "unassign"})
    /\ LET row == Answers(c)[1]
           name == wire[c].handler.name
       IN  page' = CASE name \in {"addPhase", "twice"} ->
                            [page EXCEPT !.phases = Without(@, row.id) \cup {row}]
                     [] name = "addBest" -> [page EXCEPT !.best = @ \cup {row}]
                     [] name \in {"addBracket", "ranking"} ->
                            [page EXCEPT !.brackets = {x \in @ : x.phase # row.phase} \cup {row}]
                     [] OTHER -> [page EXCEPT !.team[row.team] = row.pool]
    /\ Hang(c)

Listed(phases) ==
    [page EXCEPT !.phases = phases,
                 !.pools = {x \in @ : x.phase \in Ids(phases)},
                 !.brackets = {x \in @ : x.phase \in Ids(phases)}]

\* A bracket's seed phase cannot be removed by hand: it goes with the bracket.
GotRemovedPhase(c) ==
    /\ Answered(c, {"removePhase"})
    /\ LET remaining == Without(page.phases, wire[c].handler.phase)
           seeds == SetToSeq(remaining)
       IN  IF remaining # {} /\ \A x \in remaining : x.seed
           THEN /\ Ask(c, [Nothing EXCEPT !.name = "removeSeeds"],
                       [i \in DOMAIN seeds |-> [do |-> "deletePhase", id |-> seeds[i].id]])
                /\ UNCHANGED page
           ELSE page' = Listed(remaining) /\ Hang(c)

GotRemovedSeeds(c) ==
    /\ Answered(c, {"removeSeeds"})
    /\ page' = Listed({})
    /\ Hang(c)

\* The new pool gets the rules the page shows for its phase, in turn
\* (applyPhaseRulesToGroup).
GroupsOf(phase) == {g \in page.groups : g.phase = phase}

\* Mutant: the new pool is left with the standard barème and no rules.
GotBareGroup(c) ==
    /\ Answered(c, {"addGroup"}) /\ Hang(c)
    /\ page' = [page EXCEPT !.pools = @ \cup {Answers(c)[1]}]

GotGroup(c) ==
    /\ Answered(c, {"addGroup"})
    /\ LET pool == Answers(c)[1]
           groups == SetToSeq(GroupsOf(pool.phase))
           todo == (IF pool.phase \in DOMAIN page.scheme
                    THEN <<[do |-> "updateScheme", pool |-> pool.id, scheme |-> page.scheme[pool.phase]]>>
                    ELSE <<>>)
                   \o [i \in DOMAIN groups |->
                         [do |-> "createRule", pool |-> pool.id, span |-> groups[i].span,
                          target |-> groups[i].target]]
       IN  /\ page' = [page EXCEPT !.pools = @ \cup {pool}]
           /\ IF todo = <<>> THEN Hang(c)
              ELSE AskInTurn(c, [Nothing EXCEPT !.name = "apply", !.phase = pool.phase,
                                                !.item = pool.id], todo)

\* Each rule created is noted at once: those before a refusal are kept.
Applied(c) ==
    /\ \/ Answered(c, {"apply"})
       \/ Refused(c) /\ wire[c].handler.name = "apply"
    /\ LET pool == wire[c].handler.item
           made == {x \in Range(Answers(c)) : "span" \in DOMAIN x}
       IN  page' = [page EXCEPT !.groups = {
               LET mine == {x \in made : Key(x) = Key(g) /\ g.phase = wire[c].handler.phase}
               IN  IF mine = {} THEN g
                   ELSE [g EXCEPT !.ids = (pool :> Max(Ids(mine))) @@ @] : g \in @}]
    /\ Hang(c)

\* Mutant: the rules of the pool removed stay in their phase's rules.
GotRemovedGroupOnly(c) ==
    /\ Answered(c, {"removeGroup"})
    /\ page' = [page EXCEPT !.pools = Without(@, wire[c].handler.item)]
    /\ Hang(c)

GotRemovedGroup(c) ==
    /\ Answered(c, {"removeGroup"})
    /\ LET pool == wire[c].handler.item
       IN  page' = [page EXCEPT
               !.pools = Without(@, pool),
               !.groups = {IF g.phase = wire[c].handler.phase
                           THEN [g EXCEPT !.ids = Restrict(@, DOMAIN @ \ {pool})] ELSE g : g \in @}]
    /\ Hang(c)

GotSavedScheme(c) ==
    /\ Answered(c, {"save"})
    /\ page' = [page EXCEPT !.scheme[wire[c].handler.phase] = Answers(c)[1].scheme]
    /\ Hang(c)

GotRule(c) ==
    /\ Answered(c, {"addRule"})
    /\ LET made == Range(Answers(c))
           h == wire[c].handler
       IN  page' = [page EXCEPT !.groups = @ \cup
               {[phase |-> h.phase, span |-> h.item.span, target |-> h.item.target,
                 ids |-> [p \in {x.pool : x \in made} |-> (CHOOSE x \in made : x.pool = p).id]]}]
    /\ Hang(c)

\* Rules with the key of the one removed are forgotten with it.
GotRemovedRule(c) ==
    /\ Answered(c, {"removeRule"})
    /\ page' = [page EXCEPT !.groups =
           {g \in @ : g.phase # wire[c].handler.phase \/ Key(g) # wire[c].handler.item}]
    /\ Hang(c)

GotRemovedRow(c) ==
    /\ Answered(c, {"removeBest", "removeBracket"})
    /\ page' = [page EXCEPT !.best = Without(@, wire[c].handler.item),
                            !.brackets = Without(@, wire[c].handler.item)]
    /\ Hang(c)

GotRefusal(c) == Refused(c) /\ wire[c].handler.name # "apply" /\ Hang(c) /\ UNCHANGED page

Next == \E c \in Connections :
    \/ Api(c) \/ Open(c)
    \/ AddPhase(c) \/ ToggleDoubleRoundRobin(c) \/ RemovePhase(c) \/ AddGroup(c) \/ RemoveGroup(c)
    \/ TypeScheme(c) \/ SaveScheme(c) \/ AddRule(c) \/ RemoveRule(c) \/ AddBest(c) \/ RemoveBest(c)
    \/ AddBracket(c) \/ SaveRanking(c) \/ RemoveBracket(c) \/ AssignTeam(c) \/ UnassignTeam(c)
    \/ GotRow(c) \/ GotRemovedPhase(c) \/ GotRemovedSeeds(c) \/ GotGroup(c) \/ Applied(c)
    \/ GotRemovedGroup(c) \/ GotSavedScheme(c) \/ GotRule(c) \/ GotRemovedRule(c)
    \/ GotRemovedRow(c) \/ GotRefusal(c)

Spec == Init /\ [][Next]_vars

\* Between two operations the page shows what the API stores, though it only
\* ever adds and removes what its own answers say while the database deletes
\* further: the phases, pools and brackets, the teams of every pool listed,
\* and the rules that lead to a phase still there -- as long as nobody adds
\* a rule the phase has already: of two such the page can forget one.
RestingStructureIsTrue ==
    AtRest =>
        /\ page.phases = server.phases
        /\ page.pools = server.pools
        /\ page.brackets = server.brackets
        /\ \A t \in Teams : server.team[t] =
              IF page.team[t] \in Ids(page.pools) THEN page.team[t] ELSE None
        /\ {x \in page.best : {x.phase, x.target} \subseteq Ids(page.phases)} = server.best
        /\ UNION {Range(g.ids) : g \in {h \in page.groups :
                                           {h.phase, h.target} \subseteq Ids(page.phases)}}
           = Ids(server.rules)

\* "One setting per phase": between two operations all pools of a phase have
\* one barème and the same qualification rules, pools added later included --
\* as long as no barème is left unsaved and no phase removed.
PoolsShareRules ==
    AtRest => \A p, q \in server.pools : p.phase = q.phase =>
        /\ server.scheme[p.id] = server.scheme[q.id]
        /\ {Key(r) : r \in {x \in server.rules : x.pool = p.id}}
           = {Key(r) : r \in {x \in server.rules : x.pool = q.id}}
================================================================================
