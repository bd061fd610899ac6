-------------------------- MODULE OrganizationProofs ---------------------------
(***************************************************************************)
(* Proofs about the administrators of a tournament, then about the members *)
(* and the administrators together, as one specification has them.  What   *)
(* is proved of the members served one request at a time is taken over to  *)
(* the part of the specification that serves them so.                      *)
(***************************************************************************)
EXTENDS MCOrganization, MembershipProofs

(***************************************************************************)
(* The administrators of a tournament                                      *)
(***************************************************************************)
\* A request in flight is about a user, and what an administrator has of permissions
\* hangs on a row.
GrantInv ==
    /\ administrator \in [FewUsers -> Grants!Administrator]
    /\ req \in [Requests -> Grants!Request]
    /\ \A r \in Requests : req[r].step # "idle" => req[r].user \in FewUsers
    /\ Grants!NoOrphanGrant

LEMMA GrantFields ==
    ASSUME NEW r \in Requests, GrantInv
    PROVE  /\ req[r] \in Grants!Request /\ req[r].asked \in SUBSET Permissions
           /\ req[r].row \in Nat
           /\ Grants!Idle \in Grants!Request /\ Grants!Idle.step = "idle"
  BY DEF GrantInv, Grants!Request, Grants!Idle

\* A step that writes the state of its request and at most the row of one user.
LEMMA GrantWritten ==
    ASSUME GrantInv, NEW r \in Requests, NEW state \in Grants!Request,
           req' = [req EXCEPT ![r] = state], state.step # "idle" => state.user \in FewUsers,
           administrator' \in [FewUsers -> Grants!Administrator],
           \A u \in FewUsers : ~administrator'[u].exists => administrator'[u].permissions = {}
    PROVE  GrantInv'
  <1>1. /\ req' \in [Requests -> Grants!Request] /\ req'[r] = state
        /\ \A q \in Requests \ {r} : req'[q] = req[q]
    BY DEF GrantInv
  <1>2. \A q \in Requests : req'[q].step # "idle" => req'[q].user \in FewUsers
    BY <1>1 DEF GrantInv
  <1>3. (Grants!NoOrphanGrant)'
    BY DEF Grants!NoOrphanGrant
  <1>4. (administrator \in [FewUsers -> Grants!Administrator])'
    BY DEF Grants!Administrator
  <1>5. (req \in [Requests -> Grants!Request])'
    BY <1>1 DEF Grants!Request
  <1> QED
    BY <1>2, <1>3, <1>4, <1>5 DEF GrantInv

LEMMA GrantQuiet ==
    ASSUME GrantInv, NEW r \in Requests, NEW state \in Grants!Request,
           req' = [req EXCEPT ![r] = state], state.step # "idle" => state.user \in FewUsers,
           UNCHANGED administrator
    PROVE  GrantInv'
  <1>1. /\ administrator' \in [FewUsers -> Grants!Administrator]
        /\ \A u \in FewUsers : ~administrator'[u].exists => administrator'[u].permissions = {}
    BY DEF GrantInv, Grants!NoOrphanGrant
  <1> QED
    BY <1>1, GrantWritten

LEMMA GrantFinished ==
    ASSUME GrantInv, NEW r \in Requests, Grants!Finish(r), UNCHANGED administrator
    PROVE  GrantInv'
  BY GrantFields, GrantQuiet DEF Grants!Finish

LEMMA GrantContinues ==
    ASSUME GrantInv, NEW r \in Requests, req[r].step # "idle", UNCHANGED administrator,
           NEW s \in {"create", "delete", "deleteGrants", "createGrants"},
           req' = [req EXCEPT ![r].step = s]
    PROVE  GrantInv'
  <1> DEFINE state == [req[r] EXCEPT !.step = s]
  <1>1. state \in Grants!Request /\ state.user \in FewUsers
    BY GrantFields DEF GrantInv, Grants!Request
  <1>2. req' = [req EXCEPT ![r] = state]
    OBVIOUS
  <1> HIDE DEF state
  <1> QED
    BY <1>1, <1>2, GrantQuiet

LEMMA GrantStarts ==
    ASSUME GrantInv, NEW r \in Requests, Grants!Start(r)
    PROVE  GrantInv'
  <1>1. CASE Grants!StartAdd(r)
    <2> PICK u \in FewUsers, asked \in PermissionSets :
          Grants!Accept(r, [Grants!Idle EXCEPT !.op = "add", !.step = "check", !.user = u,
                                               !.asked = asked])
      BY <1>1 DEF Grants!StartAdd
    <2> DEFINE state == [Grants!Idle EXCEPT !.op = "add", !.step = "check", !.user = u,
                                            !.asked = asked]
    <2>1. state \in Grants!Request /\ state.user = u
      BY PartBounds DEF Grants!Idle, Grants!Request, PermissionCalls, Grants!Sets
    <2>2. req' = [req EXCEPT ![r] = state] /\ UNCHANGED administrator
      BY DEF Grants!Accept
    <2> HIDE DEF state
    <2> QED
      BY <2>1, <2>2, GrantQuiet
  <1>2. CASE Grants!StartChange(r)
    <2> PICK u \in FewUsers, asked \in PermissionSets, op \in {"update", "remove"} :
          Grants!Accept(r, [op |-> op, step |-> "find", user |-> u,
                            row |-> administrator[u].row,
                            asked |-> IF op = "update" THEN asked ELSE {}])
      BY <1>2 DEF Grants!StartChange
    <2> DEFINE state == [op |-> op, step |-> "find", user |-> u,
                         row |-> administrator[u].row,
                         asked |-> IF op = "update" THEN asked ELSE {}]
    <2>1. administrator[u].row \in Nat
      BY DEF GrantInv, Grants!Administrator
    <2>2. state \in Grants!Request /\ state.user = u
      BY <2>1, PartBounds DEF Grants!Request, PermissionCalls, Grants!Sets
    <2>3. req' = [req EXCEPT ![r] = state] /\ UNCHANGED administrator
      BY DEF Grants!Accept
    <2> HIDE DEF state
    <2> QED
      BY <2>2, <2>3, GrantQuiet
  <1> QED
    BY <1>1, <1>2 DEF Grants!Start

\* One row is written, and it exists or holds nothing.
LEMMA RowWritten ==
    ASSUME GrantInv, NEW r \in Requests, Grants!Finish(r), NEW u \in FewUsers,
           NEW new \in Grants!Administrator, ~new.exists => new.permissions = {},
           administrator' = [administrator EXCEPT ![u] = new]
    PROVE  GrantInv'
  <1>1. /\ administrator' \in [FewUsers -> Grants!Administrator]
        /\ \A v \in FewUsers : ~administrator'[v].exists => administrator'[v].permissions = {}
    BY DEF GrantInv, Grants!NoOrphanGrant
  <1>2. /\ req' = [req EXCEPT ![r] = Grants!Idle] /\ Grants!Idle \in Grants!Request
        /\ Grants!Idle.step = "idle"
    BY GrantFields DEF Grants!Finish
  <1> QED
    BY <1>1, <1>2, GrantWritten

LEMMA GrantCreated ==
    ASSUME GrantInv, NEW r \in Requests, Grants!Create(r)
    PROVE  GrantInv'
  <1> DEFINE u == req[r].user
             new == [exists |-> TRUE, row |-> administrator[u].row + 1,
                     permissions |-> req[r].asked]
  <1>1. CASE Grants!Refuse(r)
    BY <1>1, GrantFinished DEF Grants!Refuse
  <1>2. CASE ~Grants!Refuse(r)
    <2>1. Grants!Finish(r) /\ u \in FewUsers
      BY <1>2 DEF Grants!Create, GrantInv
    <2>2. new \in Grants!Administrator /\ new.exists
      BY <2>1, GrantFields DEF GrantInv, Grants!Administrator
    <2>3. administrator' = [administrator EXCEPT ![u] = new]
      BY <1>2, <2>1 DEF Grants!Create, GrantInv
    <2> HIDE DEF new
    <2> QED
      BY <2>1, <2>2, <2>3, RowWritten
  <1> QED
    BY <1>1, <1>2

LEMMA GrantsDeleted ==
    ASSUME GrantInv, NEW r \in Requests, Grants!DeleteGrants(r)
    PROVE  GrantInv'
  <1> DEFINE state == [req[r] EXCEPT !.step = "createGrants"]
  <1>1. state \in Grants!Request /\ state.user \in FewUsers
    BY GrantFields DEF Grants!DeleteGrants, GrantInv, Grants!Request
  <1>2. req' = [req EXCEPT ![r] = state]
    BY DEF Grants!DeleteGrants
  <1> HIDE DEF state
  <1>3. ASSUME NEW u \in FewUsers
        PROVE  /\ [administrator[u] EXCEPT !.permissions = {}] \in Grants!Administrator
               /\ [administrator[u] EXCEPT !.permissions = {}].permissions = {}
    BY DEF GrantInv, Grants!Administrator
  <1>4. administrator' \in [FewUsers -> Grants!Administrator]
    BY <1>3 DEF Grants!DeleteGrants, GrantInv
  <1>5. ASSUME NEW u \in FewUsers, ~administrator'[u].exists
        PROVE  administrator'[u].permissions = {}
    <2>1. \/ administrator'[u] = administrator[u]
          \/ administrator'[u] = [administrator[u] EXCEPT !.permissions = {}]
      BY DEF Grants!DeleteGrants
    <2> QED
      BY <1>3, <1>5, <2>1 DEF GrantInv, Grants!NoOrphanGrant
  <1> QED
    BY <1>1, <1>2, <1>4, <1>5, GrantWritten

\* Permissions are created for the row the request found, if it is still there.
LEMMA GrantsCreated ==
    ASSUME GrantInv, NEW r \in Requests, Grants!CreateGrants(r)
    PROVE  GrantInv'
  <1> DEFINE u == req[r].user
             new == [administrator[u] EXCEPT !.permissions = @ \cup req[r].asked]
  <1>1. CASE Grants!Refuse(r)
    BY <1>1, GrantFinished DEF Grants!Refuse
  <1>2. CASE ~Grants!Refuse(r)
    <2>1. Grants!Finish(r) /\ u \in FewUsers /\ administrator[u].exists
      BY <1>2 DEF Grants!CreateGrants, Grants!Same, GrantInv
    <2>2. new \in Grants!Administrator /\ new.exists
      BY <2>1, GrantFields DEF GrantInv, Grants!Administrator
    <2>3. administrator' = [administrator EXCEPT ![u] = new]
      BY <1>2 DEF Grants!CreateGrants
    <2> HIDE DEF new
    <2> QED
      BY <2>1, <2>2, <2>3, RowWritten
  <1> QED
    BY <1>1, <1>2

LEMMA GrantDeleted ==
    ASSUME GrantInv, NEW r \in Requests, Grants!Delete(r)
    PROVE  GrantInv'
  <1> DEFINE u == req[r].user
             new == [administrator[u] EXCEPT !.exists = FALSE, !.permissions = {}]
  <1>1. CASE Grants!Refuse(r)
    BY <1>1, GrantFinished DEF Grants!Refuse
  <1>2. CASE ~Grants!Refuse(r)
    <2>1. Grants!Finish(r) /\ u \in FewUsers
      BY <1>2 DEF Grants!Delete, GrantInv
    <2>2. new \in Grants!Administrator /\ new.permissions = {}
      BY <2>1 DEF GrantInv, Grants!Administrator
    <2>3. administrator' = [administrator EXCEPT ![u] = new]
      BY <1>2, <2>1 DEF Grants!Delete, GrantInv
    <2> HIDE DEF new
    <2> QED
      BY <2>1, <2>2, <2>3, RowWritten
  <1> QED
    BY <1>1, <1>2

LEMMA GrantStep ==
    ASSUME GrantInv, Grants!Next
    PROVE  GrantInv'
  <1>1. ASSUME NEW r \in Requests, Grants!Check(r) PROVE GrantInv'
    BY <1>1, GrantFinished, GrantContinues DEF Grants!Check, Grants!Refuse, Grants!Continue
  <1>2. ASSUME NEW r \in Requests, Grants!Find(r) PROVE GrantInv'
    BY <1>2, GrantFinished, GrantContinues DEF Grants!Find, Grants!Refuse, Grants!Continue
  <1>3. ASSUME NEW r \in Requests, Grants!Fail(r) PROVE GrantInv'
    BY <1>3, GrantFinished DEF Grants!Fail
  <1>4. ASSUME NEW r \in Requests, Grants!Proceed(r) PROVE GrantInv'
    BY <1>1, <1>2, <1>4, GrantCreated, GrantsDeleted, GrantsCreated, GrantDeleted
       DEF Grants!Proceed
  <1>5. CASE UNCHANGED <<administrator, req>>
    BY <1>5 DEF GrantInv, Grants!NoOrphanGrant, Grants!Administrator, Grants!Request
  <1> QED
    BY <1>3, <1>4, <1>5, GrantStarts DEF Grants!Next, Grants!Leave, Grants!Enter

LEMMA GrantsBegin ==
    ASSUME Grants!Init
    PROVE  GrantInv
  <1>1. /\ Grants!Nobody \in Grants!Administrator /\ Grants!Nobody.permissions = {}
        /\ Grants!Idle \in Grants!Request /\ Grants!Idle.step = "idle"
    BY DEF Grants!Nobody, Grants!Administrator, Grants!Idle, Grants!Request
  <1> QED
    BY <1>1 DEF Grants!Init, GrantInv, Grants!NoOrphanGrant


(***************************************************************************)
(* The members served one request at a time                                *)
(***************************************************************************)
One == INSTANCE MembershipProofs WITH
    Users <- FewUsers, Organizations <- TwoOrganizations, Requests <- {OneRequest},
    MaxCalls <- MoreCalls

\* The two instances of the members are the same specification.
LEMMA SingleBegins == Single!Init => One!Init
  BY DEF Single!Init, One!Init, Single!Idle, One!Idle, Single!Roles, One!Roles,
         Single!Members, One!Members, Single!Admins, One!Admins, Single!Role, One!Role,
         Single!InvitationIds, One!InvitationIds, Single!NoInvitation, One!NoInvitation

LEMMA OneMeetsAssumptions == One!Bounds /\ One!NoneIsNeither
  BY Bounds, PartBounds, NoneIsNoPart DEF One!Bounds, One!NoneIsNeither

LEMMA SameStarts == Single!Start(OneRequest) => One!Start(OneRequest)
  BY DEF Single!Start, One!Start, Single!StartRegister, One!StartRegister,
         Single!StartChange, One!StartChange, Single!StartInvite, One!StartInvite,
         Single!StartRevoke, One!StartRevoke, Single!StartAccept, One!StartAccept,
         Single!StartDelete, One!StartDelete,
         Single!StartDeleteOrganization, One!StartDeleteOrganization,
         Single!Accept, One!Accept, Single!Spend, One!Spend, Single!Idle, One!Idle,
         Single!InvitationIds, One!InvitationIds, Single!Exists, One!Exists,
         Single!Members, One!Members, Single!Admins, One!Admins, Single!Role, One!Role,
         Single!Roles, One!Roles

LEMMA SameProceeds == Single!Proceed(OneRequest) => One!Proceed(OneRequest)
  BY DEF Single!Proceed, One!Proceed, Single!Register, One!Register,
         Single!CheckNotLastAdmin, One!CheckNotLastAdmin, Single!WriteRole, One!WriteRole,
         Single!DeleteMember, One!DeleteMember, Single!CheckNotInvited, One!CheckNotInvited,
         Single!CreateInvitation, One!CreateInvitation, Single!Revoke, One!Revoke,
         Single!CheckInvitation, One!CheckInvitation, Single!Join, One!Join,
         Single!Survey, One!Survey, Single!DeleteAll, One!DeleteAll,
         Single!DeleteNext, One!DeleteNext, Single!DeleteOrganization, One!DeleteOrganization,
         Single!Dissolve, One!Dissolve, Single!Dismissed, One!Dismissed, Single!Enter, One!Enter,
         Single!Finish, One!Finish, Single!Refuse, One!Refuse, Single!Continue, One!Continue,
         Single!Same, One!Same, Single!OtherAdmins, One!OtherAdmins, Single!Pending, One!Pending,
         Single!Alone, One!Alone, Single!Abandoned, One!Abandoned,
         Single!Idle, One!Idle, Single!NoInvitation, One!NoInvitation,
         Single!InvitationIds, One!InvitationIds, Single!Exists, One!Exists,
         Single!Members, One!Members, Single!Admins, One!Admins, Single!Role, One!Role

LEMMA SameNext == Single!Next => One!Next
  BY SameStarts, SameProceeds
     DEF Single!Next, One!Next, Single!Fail, One!Fail, Single!Finish, One!Finish,
         Single!Idle, One!Idle, Single!Expire, One!Expire, Single!Spend, One!Spend,
         Single!InvitationIds, One!InvitationIds

LEMMA SingleSteps ==
    ASSUME One!AloneInv, Single!Next \/ UNCHANGED vars
    PROVE  One!AloneInv'
  <1>1. {OneRequest} = {OneRequest}
    OBVIOUS
  <1>2. [One!Next]_(One!vars)
    BY SameNext DEF vars, One!vars
  <1> QED
    BY <1>1, <1>2, One!AloneStep, OneMeetsAssumptions

(***************************************************************************)
(* The administrators served one request at a time                         *)
(***************************************************************************)
\* What a request does next is about permissions somebody asked for, and about a row that
\* is there once it has been found; its permissions are gone when they are to be created.
AskedFor(q) ==
    /\ q.step # "idle" => q.user \in FewUsers
    /\ q.step \in {"check", "create", "deleteGrants", "createGrants"} => q.asked \in PermissionSets
    /\ q.step = "find" /\ q.op = "update" => q.asked \in PermissionSets
    /\ q.step \in {"delete", "deleteGrants", "createGrants"} => OneGrant!Same(q)
    /\ q.step = "createGrants" => administrator[q.user].permissions = {}

Replacing(u) == req[OneRequest].step = "createGrants" /\ req[OneRequest].user = u

AskedInv ==
    /\ failures = 0
    /\ administrator \in [FewUsers -> OneGrant!Administrator]
    /\ req \in [{OneRequest} -> OneGrant!Request]
    /\ AskedFor(req[OneRequest])
    /\ \A u \in FewUsers : administrator[u].exists /\ ~Replacing(u) =>
          administrator[u].permissions \in PermissionSets

LEMMA AskedBegins ==
    ASSUME OneGrant!Init
    PROVE  AskedInv
  <1>1. /\ OneGrant!Nobody \in OneGrant!Administrator /\ ~OneGrant!Nobody.exists
        /\ OneGrant!Idle \in OneGrant!Request /\ OneGrant!Idle.step = "idle"
    BY DEF OneGrant!Nobody, OneGrant!Administrator, OneGrant!Idle, OneGrant!Request
  <1> QED
    BY <1>1 DEF OneGrant!Init, AskedInv, AskedFor

\* A step that writes no row.
LEMMA AskedQuiet ==
    ASSUME AskedInv, NEW state \in OneGrant!Request,
           req' = [req EXCEPT ![OneRequest] = state], UNCHANGED <<administrator, failures>>,
           AskedFor(state), req[OneRequest].step # "createGrants"
    PROVE  AskedInv'
  <1>1. req' \in [{OneRequest} -> OneGrant!Request] /\ req'[OneRequest] = state
    BY DEF AskedInv
  <1>2. (req \in [{OneRequest} -> OneGrant!Request])'
    BY <1>1 DEF OneGrant!Request
  <1>3. (administrator \in [FewUsers -> OneGrant!Administrator])'
    BY DEF AskedInv, OneGrant!Administrator
  <1>4. AskedFor(req[OneRequest])'
    BY <1>1 DEF AskedFor, OneGrant!Same
  <1>5. \A u \in FewUsers :
          administrator[u].exists => administrator[u].permissions \in PermissionSets
    BY DEF AskedInv, Replacing
  <1> QED
    BY <1>2, <1>3, <1>4, <1>5 DEF AskedInv

LEMMA AskedFields ==
    ASSUME AskedInv
    PROVE  /\ req[OneRequest] \in OneGrant!Request
           /\ OneGrant!Idle \in OneGrant!Request /\ OneGrant!Idle.step = "idle"
           /\ AskedFor(OneGrant!Idle)
  BY DEF AskedInv, OneGrant!Request, OneGrant!Idle, AskedFor

LEMMA AskedRefused ==
    ASSUME AskedInv, OneGrant!Refuse(OneRequest), req[OneRequest].step # "createGrants"
    PROVE  AskedInv'
  BY AskedFields, AskedQuiet DEF OneGrant!Refuse, OneGrant!Finish

LEMMA AskedStarts ==
    ASSUME AskedInv, OneGrant!Start(OneRequest)
    PROVE  AskedInv'
  <1>1. CASE OneGrant!StartAdd(OneRequest)
    <2> PICK u \in FewUsers, asked \in PermissionSets :
          OneGrant!Accept(OneRequest, [OneGrant!Idle EXCEPT !.op = "add", !.step = "check",
                                          !.user = u, !.asked = asked])
      BY <1>1 DEF OneGrant!StartAdd
    <2> DEFINE state == [OneGrant!Idle EXCEPT !.op = "add", !.step = "check", !.user = u,
                                              !.asked = asked]
    <2>1. /\ state \in OneGrant!Request /\ state.user = u /\ state.step = "check"
          /\ state.asked = asked
      BY PartBounds DEF OneGrant!Idle, OneGrant!Request, PermissionCalls, Grants!Sets
    <2>2. /\ req' = [req EXCEPT ![OneRequest] = state] /\ UNCHANGED <<administrator, failures>>
          /\ req[OneRequest].step = "idle"
      BY DEF OneGrant!Accept
    <2> HIDE DEF state
    <2>3. AskedFor(state)
      BY <2>1 DEF AskedFor
    <2> QED
      BY <2>1, <2>2, <2>3, AskedQuiet
  <1>2. CASE OneGrant!StartChange(OneRequest)
    <2> PICK u \in FewUsers, asked \in PermissionSets, op \in {"update", "remove"} :
          OneGrant!Accept(OneRequest,
              [op |-> op, step |-> "find", user |-> u, row |-> administrator[u].row,
               asked |-> IF op = "update" THEN asked ELSE {}])
      BY <1>2 DEF OneGrant!StartChange
    <2> DEFINE state == [op |-> op, step |-> "find", user |-> u,
                         row |-> administrator[u].row,
                         asked |-> IF op = "update" THEN asked ELSE {}]
    <2>1. administrator[u].row \in Nat
      BY DEF AskedInv, OneGrant!Administrator
    <2>2. /\ state \in OneGrant!Request /\ state.user = u /\ state.step = "find"
          /\ state.op = op /\ (op = "update" => state.asked = asked)
      BY <2>1, PartBounds DEF OneGrant!Request, PermissionCalls, Grants!Sets
    <2>3. /\ req' = [req EXCEPT ![OneRequest] = state] /\ UNCHANGED <<administrator, failures>>
          /\ req[OneRequest].step = "idle"
      BY DEF OneGrant!Accept
    <2> HIDE DEF state
    <2>4. AskedFor(state)
      BY <2>2 DEF AskedFor
    <2> QED
      BY <2>2, <2>3, <2>4, AskedQuiet
  <1> QED
    BY <1>1, <1>2 DEF OneGrant!Start

LEMMA AskedChecks ==
    ASSUME AskedInv, OneGrant!Check(OneRequest) \/ OneGrant!Find(OneRequest)
    PROVE  AskedInv'
  <1> DEFINE q == req[OneRequest]
  <1>1. q.step \in {"check", "find"} /\ q \in OneGrant!Request /\ AskedFor(q)
    BY DEF OneGrant!Check, OneGrant!Find, AskedInv
  <1>2. CASE OneGrant!Refuse(OneRequest)
    BY <1>1, <1>2, AskedRefused
  <1>3. CASE ~OneGrant!Refuse(OneRequest)
    <2> PICK s \in {"create", "deleteGrants", "delete"} :
          /\ req' = [req EXCEPT ![OneRequest].step = s] /\ UNCHANGED <<administrator, failures>>
          /\ s = "create" => q.step = "check"
          /\ s # "create" => q.step = "find" /\ OneGrant!Same(q)
          /\ s = "deleteGrants" => q.op = "update"
      BY <1>3 DEF OneGrant!Check, OneGrant!Find, OneGrant!Continue
    <2> DEFINE state == [q EXCEPT !.step = s]
    <2>1. /\ state \in OneGrant!Request /\ state.step = s /\ state.op = q.op
          /\ state.user = q.user /\ state.row = q.row /\ state.asked = q.asked
      BY <1>1 DEF OneGrant!Request
    <2>2. req' = [req EXCEPT ![OneRequest] = state]
      OBVIOUS
    <2> HIDE DEF state
    <2>3. AskedFor(state)
      BY <1>1, <2>1 DEF AskedFor, OneGrant!Same
    <2> QED
      BY <1>1, <2>1, <2>2, <2>3, AskedQuiet
  <1> QED
    BY <1>2, <1>3

\* A request that ends writes a row with permissions somebody asked for, or none.
LEMMA AskedWritten ==
    ASSUME AskedInv, OneGrant!Finish(OneRequest), UNCHANGED failures, NEW u \in FewUsers,
           req[OneRequest].user = u,
           NEW new \in OneGrant!Administrator, new.exists => new.permissions \in PermissionSets,
           administrator' = [administrator EXCEPT ![u] = new]
    PROVE  AskedInv'
  <1>1. /\ administrator' \in [FewUsers -> OneGrant!Administrator] /\ administrator'[u] = new
        /\ \A v \in FewUsers \ {u} : administrator'[v] = administrator[v]
    BY DEF AskedInv
  <1>2. req' = [req EXCEPT ![OneRequest] = OneGrant!Idle]
    BY DEF OneGrant!Finish
  <1>3. req' \in [{OneRequest} -> OneGrant!Request] /\ req'[OneRequest].step = "idle"
    BY <1>2, AskedFields DEF AskedInv
  <1>4. (req \in [{OneRequest} -> OneGrant!Request])'
    BY <1>3 DEF OneGrant!Request
  <1>5. (administrator \in [FewUsers -> OneGrant!Administrator])'
    BY <1>1 DEF OneGrant!Administrator
  <1>6. AskedFor(req[OneRequest])'
    BY <1>3 DEF AskedFor
  <1>7. \A v \in FewUsers :
          administrator'[v].exists => administrator'[v].permissions \in PermissionSets
    BY <1>1 DEF AskedInv, Replacing
  <1> QED
    BY <1>4, <1>5, <1>6, <1>7 DEF AskedInv

LEMMA AskedCreates ==
    ASSUME AskedInv, OneGrant!Create(OneRequest)
    PROVE  AskedInv'
  <1> DEFINE q == req[OneRequest]
             u == q.user
             new == [exists |-> TRUE, row |-> administrator[u].row + 1,
                     permissions |-> q.asked]
  <1>1. q.step = "create" /\ q \in OneGrant!Request /\ AskedFor(q)
    BY DEF OneGrant!Create, AskedInv
  <1>2. CASE OneGrant!Refuse(OneRequest)
    BY <1>1, <1>2, AskedRefused
  <1>3. CASE ~OneGrant!Refuse(OneRequest)
    <2>1. OneGrant!Finish(OneRequest) /\ UNCHANGED failures /\ u \in FewUsers
      BY <1>1, <1>3 DEF OneGrant!Create, AskedFor
    <2>2. new \in OneGrant!Administrator /\ new.permissions \in PermissionSets
      BY <1>1, <2>1 DEF AskedInv, AskedFor, OneGrant!Administrator, OneGrant!Request
    <2>3. administrator' = [administrator EXCEPT ![u] = new]
      BY <1>3, <2>1 DEF OneGrant!Create, AskedInv
    <2> HIDE DEF new
    <2> QED
      BY <2>1, <2>2, <2>3, AskedWritten
  <1> QED
    BY <1>2, <1>3

LEMMA AskedDeletes ==
    ASSUME AskedInv, OneGrant!Delete(OneRequest)
    PROVE  AskedInv'
  <1> DEFINE q == req[OneRequest]
             u == q.user
             new == [administrator[u] EXCEPT !.exists = FALSE, !.permissions = {}]
  <1>1. q.step = "delete" /\ q \in OneGrant!Request /\ AskedFor(q)
    BY DEF OneGrant!Delete, AskedInv
  <1>2. CASE OneGrant!Refuse(OneRequest)
    BY <1>1, <1>2, AskedRefused
  <1>3. CASE ~OneGrant!Refuse(OneRequest)
    <2>1. OneGrant!Finish(OneRequest) /\ UNCHANGED failures /\ u \in FewUsers
      BY <1>1, <1>3 DEF OneGrant!Delete, AskedFor
    <2>2. new \in OneGrant!Administrator /\ ~new.exists
      BY <2>1 DEF AskedInv, OneGrant!Administrator
    <2>3. administrator' = [administrator EXCEPT ![u] = new]
      BY <1>3, <2>1 DEF OneGrant!Delete, AskedInv
    <2> HIDE DEF new
    <2> QED
      BY <2>1, <2>2, <2>3, AskedWritten
  <1> QED
    BY <1>2, <1>3

\* The permissions are deleted; they come back with the next step.
LEMMA AskedClears ==
    ASSUME AskedInv, OneGrant!DeleteGrants(OneRequest)
    PROVE  AskedInv'
  <1> DEFINE q == req[OneRequest]
             state == [q EXCEPT !.step = "createGrants"]
             new == [administrator[q.user] EXCEPT !.permissions = {}]
  <1>1. q.step = "deleteGrants" /\ q \in OneGrant!Request /\ AskedFor(q) /\ failures = 0
    BY DEF OneGrant!DeleteGrants, AskedInv
  <1>2. q.user \in FewUsers /\ OneGrant!Same(q) /\ q.asked \in PermissionSets
    BY <1>1 DEF AskedFor
  <1>3. /\ state \in OneGrant!Request /\ state.step = "createGrants"
        /\ state.user = q.user /\ state.row = q.row /\ state.asked = q.asked
    BY <1>1 DEF OneGrant!Request
  <1>4. /\ new \in OneGrant!Administrator /\ new.permissions = {}
        /\ new.exists = administrator[q.user].exists /\ new.row = administrator[q.user].row
    BY <1>2 DEF AskedInv, OneGrant!Administrator
  <1>5. req' = [req EXCEPT ![OneRequest] = state] /\ failures' = 0
    BY <1>1 DEF OneGrant!DeleteGrants
  <1>6. administrator' = [v \in FewUsers |-> IF v = q.user THEN new ELSE administrator[v]]
    BY <1>2 DEF OneGrant!DeleteGrants
  <1> HIDE DEF state, new
  <1>7. /\ administrator' \in [FewUsers -> OneGrant!Administrator]
        /\ administrator'[q.user] = new
        /\ \A v \in FewUsers \ {q.user} : administrator'[v] = administrator[v]
    BY <1>2, <1>4, <1>6 DEF AskedInv
  <1>8. req' \in [{OneRequest} -> OneGrant!Request] /\ req'[OneRequest] = state
    BY <1>3, <1>5 DEF AskedInv
  <1>9. (req \in [{OneRequest} -> OneGrant!Request])'
    BY <1>8 DEF OneGrant!Request
  <1>10. (administrator \in [FewUsers -> OneGrant!Administrator])'
    BY <1>7 DEF OneGrant!Administrator
  <1>11. AskedFor(req[OneRequest])'
    BY <1>2, <1>3, <1>4, <1>7, <1>8 DEF AskedFor, OneGrant!Same
  <1>12. \A v \in FewUsers : administrator'[v].exists /\ v # q.user =>
            administrator'[v].permissions \in PermissionSets
    BY <1>1, <1>7 DEF AskedInv, Replacing
  <1>13. \A v \in FewUsers : ~Replacing(v)' => v # q.user
    BY <1>3, <1>8 DEF Replacing
  <1> QED
    BY <1>5, <1>9, <1>10, <1>11, <1>12, <1>13 DEF AskedInv

LEMMA AskedReplaces ==
    ASSUME AskedInv, OneGrant!CreateGrants(OneRequest)
    PROVE  AskedInv'
  <1> DEFINE q == req[OneRequest]
             u == q.user
             new == [administrator[u] EXCEPT !.permissions = @ \cup q.asked]
  <1>1. q.step = "createGrants" /\ q \in OneGrant!Request /\ AskedFor(q)
    BY DEF OneGrant!CreateGrants, AskedInv
  <1>2. /\ u \in FewUsers /\ OneGrant!Same(q) /\ administrator[u].permissions = {}
        /\ q.asked \in PermissionSets
    BY <1>1 DEF AskedFor
  <1>3. /\ OneGrant!Finish(OneRequest) /\ UNCHANGED failures
        /\ administrator' = [administrator EXCEPT ![u] = new]
    BY <1>2 DEF OneGrant!CreateGrants
  <1>4. new \in OneGrant!Administrator /\ new.permissions = q.asked
    BY <1>1, <1>2 DEF AskedInv, OneGrant!Administrator, OneGrant!Request
  <1> HIDE DEF new
  <1> QED
    BY <1>2, <1>3, <1>4, AskedWritten

LEMMA AskedStep ==
    ASSUME AskedInv, OneGrant!Next
    PROVE  AskedInv'
  <1>1. ~OneGrant!Fail(OneRequest)
    BY DEF OneGrant!Fail, AskedInv
  <1>2. CASE UNCHANGED <<administrator, req, failures>>
    BY <1>2 DEF AskedInv, AskedFor, Replacing, OneGrant!Same, OneGrant!Administrator,
                OneGrant!Request
  <1>3. CASE OneGrant!Proceed(OneRequest)
    BY <1>3, AskedChecks, AskedCreates, AskedClears, AskedReplaces, AskedDeletes
       DEF OneGrant!Proceed
  <1> QED
    BY <1>1, <1>2, <1>3, AskedStarts DEF OneGrant!Next, OneGrant!Leave, OneGrant!Enter

(***************************************************************************)
(* The members and the administrators in one specification                 *)
(***************************************************************************)
PartsInv ==
    /\ part = "members" => RowsInv
    /\ part = "single" => One!AloneInv
    /\ part = "grants" => GrantInv
    /\ part = "oneGrant" => AskedInv

LEMMA PartsStep ==
    ASSUME PartsInv, [MCNext]_<<vars, grantVars, part>>
    PROVE  PartsInv'
  <1>1. part' = part
    BY DEF MCNext
  <1>2. ASSUME part = "members" PROVE RowsInv'
    <2>1. [Next]_vars
      BY <1>2 DEF MCNext
    <2> QED
      BY <1>2, <2>1, RowsStep DEF PartsInv
  <1>3. ASSUME part = "single" PROVE One!AloneInv'
    <2>1. Single!Next \/ UNCHANGED vars
      BY <1>3 DEF MCNext
    <2> QED
      BY <1>3, <2>1, SingleSteps DEF PartsInv
  <1>4. ASSUME part = "grants" PROVE GrantInv'
    <2>1. CASE UNCHANGED <<administrator, req>>
      BY <1>4, <2>1
         DEF PartsInv, GrantInv, Grants!NoOrphanGrant, Grants!Administrator, Grants!Request
    <2>2. CASE Grants!Next
      BY <1>4, <2>2, GrantStep DEF PartsInv
    <2> QED
      BY <1>4, <2>1, <2>2 DEF MCNext, vars, grantVars
  <1>5. ASSUME part = "oneGrant" PROVE AskedInv'
    <2>1. CASE UNCHANGED <<administrator, req, failures>>
      BY <1>5, <2>1
         DEF PartsInv, AskedInv, AskedFor, Replacing, OneGrant!Same, OneGrant!Administrator,
             OneGrant!Request
    <2>2. CASE OneGrant!Next
      BY <1>5, <2>2, AskedStep DEF PartsInv
    <2> QED
      BY <1>5, <2>1, <2>2 DEF MCNext, vars, grantVars
  <1> QED
    BY <1>1, <1>2, <1>3, <1>4, <1>5 DEF PartsInv

LEMMA PartsHold == MCSpec => []PartsInv
  <1>1. MCInit => PartsInv
    <2>1. Single!Init => One!AloneInv
      BY SingleBegins, One!AloneBegins, OneMeetsAssumptions
    <2> QED
      BY <2>1, RowsBegin, GrantsBegin, AskedBegins DEF MCInit, PartsInv
  <1> QED
    BY <1>1, PartsStep, PTL DEF MCSpec

\* The members of organizations and the administrators of a tournament, whatever calls
\* interleave and are lost: no row outlives the row it hangs on.
THEOREM RowsNeverDangle == MCSpec => []RowsDoNotDangle
  <1>1. PartsInv => RowsDoNotDangle
    BY RowsHang DEF PartsInv, RowsInv, GrantInv, RowsDoNotDangle
  <1> QED
    BY <1>1, PartsHold, PTL

\* One request at a time: an organization has an administrator, an email one pending
\* invitation to it, and an administrator exactly a set of permissions somebody asked for.
THEOREM RowsAlwaysAsAskedAlone == MCSpec => []RowsAsAskedAlone
  <1>1. ASSUME One!AloneInv
        PROVE  Single!AdministratorRemains /\ Single!OnePendingInvitation
    BY <1>1 DEF One!AloneInv, One!AdministratorRemains, Single!AdministratorRemains,
                One!Admins, Single!Admins, One!Role, Single!Role,
                One!OnePendingInvitation, Single!OnePendingInvitation,
                One!InvitationIds, Single!InvitationIds
  <1>2. ASSUME AskedInv PROVE OneGrant!PermissionsAsAsked
    BY <1>2 DEF AskedInv, Replacing, OneGrant!PermissionsAsAsked
  <1>3. PartsInv => RowsAsAskedAlone
    BY <1>1, <1>2 DEF PartsInv, RowsAsAskedAlone
  <1> QED
    BY <1>3, PartsHold, PTL

\* One request at a time: an account takes only organizations nobody else is in, and an
\* invitation revoked is not accepted.
THEOREM DeletionsAndAnswersAlwaysStandAlone == MCSpec => DeletionsAndAnswersStandAlone
  <1> DEFINE Stand ==
        part = "single" =>
          /\ \A o \in organizations \ organizations' :
                \/ \E u \in FewUsers : Single!Members(o) \subseteq {u}
                \/ /\ req[OneRequest].op = "deleteOrganization"
                   /\ req[OneRequest].organization = o
          /\ \A i \in Single!InvitationIds :
                invitations[i].status = "REVOKED" => invitations[i].status' # "ACCEPTED"
  <1>1. ASSUME PartsInv, [MCNext]_<<vars, grantVars, part>>, part = "single"
        PROVE  Stand
    <2>1. One!AloneInv /\ {OneRequest} = {OneRequest}
      BY <1>1 DEF PartsInv
    <2>2. Single!Next \/ UNCHANGED vars
      BY <1>1 DEF MCNext
    <2>3. [One!Next]_(One!vars)
      BY <2>2, SameNext DEF vars, One!vars
    <2>4. \A o \in organizations \ organizations' : One!Goes(o)
      BY <2>1, <2>3, OneMeetsAssumptions, One!OnlySoleGo
    <2>5. \A i \in One!InvitationIds :
              invitations[i].status = "REVOKED" => invitations[i].status' # "ACCEPTED"
      BY <2>1, <2>3, OneMeetsAssumptions, One!RevokedStays
    <2> QED
      BY <2>4, <2>5 DEF One!Goes, One!Members, Single!Members, One!Role, Single!Role,
                        One!InvitationIds, Single!InvitationIds
  <1>2. PartsInv /\ [MCNext]_<<vars, grantVars, part>> => [Stand]_vars
    BY <1>1
  <1>3. MCSpec => [][Stand]_vars
    BY <1>2, PartsHold, PTL DEF MCSpec
  <1> QED
    BY <1>3 DEF DeletionsAndAnswersStandAlone
================================================================================
