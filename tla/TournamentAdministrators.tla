------------------------ MODULE TournamentAdministrators ------------------------
(***************************************************************************)
(* The administrators of one tournament and their permissions              *)
(* (TournamentAdministratorsService), beside the members of its            *)
(* organization, and the guard that asks for a permission                  *)
(* (TournamentPermissionGuard).  The tournament stays editable.            *)
(***************************************************************************)
EXTENDS Integers, FiniteSets

CONSTANTS
    Users,
    Permissions,
    PermissionSets,  \* the sets of permissions an organizer asks for
    Requests,        \* the requests the API serves concurrently
    Operations,      \* the calls and outside events considered
    MaxCalls,        \* bound: calls and outside events in one behaviour
    MaxFailures,     \* bound: requests lost half-way
    None             \* no user

Sets == PermissionSets \subseteq SUBSET Permissions

Bounds == MaxCalls \in Nat /\ MaxFailures \in Nat

VARIABLES
    members,        \* the members of the organization that are no ORG_ADMIN
    administrator,  \* per user: the row there is, if any, and its permission rows
    req,            \* what each request in flight does next, and for what
    calls,          \* calls still to come
    failures        \* requests lost so far

vars == <<members, administrator, req, calls, failures>>

Administrator == [exists : BOOLEAN, row : Nat, permissions : SUBSET Permissions]

Nobody == [exists |-> FALSE, row |-> 0, permissions |-> {}]

Idle == [op |-> "none", step |-> "idle", user |-> None, row |-> 0, asked |-> {}]

Request == [op : Operations \cup {"none"},
            step : {"idle", "check", "create", "find", "delete", "deleteGrants",
                    "createGrants"},
            user : Users \cup {None}, row : Nat, asked : SUBSET Permissions]

Init ==
    /\ members \in SUBSET Users
    /\ administrator = [u \in Users |-> Nobody]
    /\ req = [r \in Requests |-> Idle]
    /\ calls = MaxCalls
    /\ failures = 0

Spend(op) == op \in Operations /\ calls > 0 /\ calls' = calls - 1

Accept(r, state) ==
    /\ Spend(state.op)
    /\ req[r].step = "idle"
    /\ req' = [req EXCEPT ![r] = state]
    /\ UNCHANGED <<members, administrator, failures>>

Finish(r) == req' = [req EXCEPT ![r] = Idle]

Refuse(r) == Finish(r) /\ UNCHANGED <<members, administrator, calls, failures>>

Continue(r, step) ==
    /\ req' = [req EXCEPT ![r].step = step]
    /\ UNCHANGED <<members, administrator, calls, failures>>

\* The row a request was made for is still there.
Same(q) == administrator[q.user].exists /\ administrator[q.user].row = q.row

(***************************************************************************)
(* add: the person is a member and no administrator, then the row and its  *)
(* permissions are created together; the index on (tournament, user)       *)
(* decides.                                                                *)
(***************************************************************************)
StartAdd(r) == \E u \in Users, asked \in PermissionSets :
    Accept(r, [Idle EXCEPT !.op = "add", !.step = "check", !.user = u, !.asked = asked])

Check(r) ==
    LET u == req[r].user
        allowed == u \in members /\ ~administrator[u].exists
    IN  /\ req[r].step = "check"
        /\ \/ allowed /\ Continue(r, "create")
           \/ ~allowed /\ Refuse(r)

\* Mutant: the permission rows are given the user's id.
CreateForUser(r) ==
    LET u == req[r].user IN
    /\ req[r].step = "create"
    /\ administrator' = [administrator EXCEPT ![u] =
          [exists |-> TRUE, row |-> @.row + 1, permissions |-> {u}]]
    /\ Finish(r)
    /\ UNCHANGED <<members, calls, failures>>

Create(r) ==
    LET u == req[r].user IN
    /\ req[r].step = "create"
    /\ \/ /\ ~administrator[u].exists
          /\ administrator' = [administrator EXCEPT ![u] =
                [exists |-> TRUE, row |-> @.row + 1, permissions |-> req[r].asked]]
          /\ Finish(r)
          /\ UNCHANGED <<members, calls, failures>>
       \/ administrator[u].exists /\ Refuse(r)

(***************************************************************************)
(* updatePermissions: the row exists, then its permission rows are deleted *)
(* by one query and created by another, which the index on (administrator, *)
(* permission) stops when one of them is there again.                      *)
(***************************************************************************)
StartChange(r) == \E u \in Users, asked \in PermissionSets, op \in {"update", "remove"} :
    /\ administrator[u].exists
    /\ Accept(r, [op |-> op, step |-> "find", user |-> u, row |-> administrator[u].row,
                  asked |-> IF op = "update" THEN asked ELSE {}])

Find(r) ==
    /\ req[r].step = "find"
    /\ \/ /\ Same(req[r])
          /\ Continue(r, IF req[r].op = "update" THEN "deleteGrants" ELSE "delete")
       \/ ~Same(req[r]) /\ Refuse(r)

\* Mutant: the rows there are stay.
DeleteNoGrants(r) ==
    /\ req[r].step = "deleteGrants"
    /\ req' = [req EXCEPT ![r].step = "createGrants"]
    /\ UNCHANGED <<members, administrator, calls, failures>>

DeleteGrants(r) ==
    /\ req[r].step = "deleteGrants"
    /\ administrator' = [u \in Users |->
          IF u = req[r].user /\ Same(req[r])
          THEN [administrator[u] EXCEPT !.permissions = {}] ELSE administrator[u]]
    /\ req' = [req EXCEPT ![r].step = "createGrants"]
    /\ UNCHANGED <<members, calls, failures>>

CreateGrants(r) ==
    LET q == req[r]
        possible == Same(q) /\ administrator[q.user].permissions \cap q.asked = {}
    IN  /\ q.step = "createGrants"
        /\ \/ /\ possible
              /\ administrator' = [administrator EXCEPT ![q.user].permissions = @ \cup q.asked]
              /\ Finish(r)
              /\ UNCHANGED <<members, calls, failures>>
           \/ ~possible /\ Refuse(r)

\* Mutant: the permissions are left behind.
DeleteRowOnly(r) ==
    LET q == req[r] IN
    /\ q.step = "delete"
    /\ administrator' = [administrator EXCEPT ![q.user].exists = FALSE]
    /\ Finish(r)
    /\ UNCHANGED <<members, calls, failures>>

\* remove: the permissions go with the row.
Delete(r) ==
    LET q == req[r] IN
    /\ q.step = "delete"
    /\ \/ /\ Same(q)
          /\ administrator' = [administrator EXCEPT ![q.user].exists = FALSE,
                                                    ![q.user].permissions = {}]
          /\ Finish(r)
          /\ UNCHANGED <<members, calls, failures>>
       \/ ~Same(q) /\ Refuse(r)

(***************************************************************************)
(* The two writes of other services: a member is removed (removeMember),   *)
(* and one comes in, again perhaps (InvitationsService.accept).            *)
(***************************************************************************)
Leave(u) ==
    /\ Spend("leave")
    /\ u \in members
    /\ members' = members \ {u}
    /\ UNCHANGED <<administrator, req, failures>>

Enter(u) ==
    /\ Spend("enter")
    /\ u \notin members
    /\ members' = members \cup {u}
    /\ UNCHANGED <<administrator, req, failures>>

Fail(r) ==
    /\ req[r].step # "idle"
    /\ failures < MaxFailures
    /\ failures' = failures + 1
    /\ Finish(r)
    /\ UNCHANGED <<members, administrator, calls>>

Start(r) == StartAdd(r) \/ StartChange(r)

Proceed(r) ==
    \/ Check(r) \/ Create(r) \/ Find(r) \/ DeleteGrants(r) \/ CreateGrants(r) \/ Delete(r)

Next ==
    \/ \E r \in Requests : Start(r) \/ Proceed(r) \/ Fail(r)
    \/ \E u \in Users : Leave(u) \/ Enter(u)

Spec == Init /\ [][Next]_vars

--------------------------------------------------------------------------------
(***************************************************************************)
(* Properties                                                              *)
(***************************************************************************)

TypeOK ==
    /\ members \subseteq Users
    /\ administrator \in [Users -> Administrator]
    /\ req \in [Requests -> Request]
    /\ calls \in Nat
    /\ failures \in Nat

\* A permission is held through a row of the administrator it was asked for: none
\* outlives the row, nor comes back with the next one (remove against update).
NoOrphanGrant ==
    \A u \in Users : ~administrator[u].exists => administrator[u].permissions = {}

\* A replacement is all or nothing: an administrator nobody is working on holds a set
\* of permissions somebody asked for, no part and no mixture of two (updatePermissions).
PermissionsAsAsked ==
    \A u \in Users :
        administrator[u].exists /\ (\A r \in Requests : req[r].user # u)
            => administrator[u].permissions \in PermissionSets

\* tournament-administrators.service.ts:66 "Cette personne doit d'abord etre membre de
\* l'organisation": the administrators of the tournament are members (add).
AdministratorsAreMembers ==
    \A u \in Users : administrator[u].exists => u \in members
================================================================================
