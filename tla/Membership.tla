------------------------------- MODULE Membership -------------------------------
(***************************************************************************)
(* The members of organizations: registration, roles, removal, invitations *)
(* and the deletion of accounts and organizations (OrganizationsService,   *)
(* InvitationsService, AuthService.deleteAccount, the super-admin's        *)
(* deleteUser and deleteOrganization).  A user is an email.  A handler is  *)
(* a sequence of steps, each the queries of one check or one write.        *)
(***************************************************************************)
EXTENDS Integers, FiniteSets

CONSTANTS
    Users,          \* the emails of accounts that may come to exist
    Organizations,
    Requests,       \* the requests the API serves concurrently
    Operations,     \* the calls and outside events considered
    MaxCalls,       \* bound: calls and outside events in one behaviour
    MaxFailures,    \* bound: requests lost half-way
    None            \* no user, no organization

ASSUME Bounds == MaxCalls \in Nat /\ MaxFailures \in Nat

ASSUME NoneIsNeither == None \notin Users /\ None \notin Organizations

VARIABLES
    users,          \* the accounts that exist
    organizations,  \* the organizations that exist
    member,         \* per organization and user: the role, and which row of theirs it is
    invitations,    \* the invitation rows
    req,            \* what each request in flight does next, and for what
    calls,          \* calls still to come
    failures        \* requests lost so far

vars == <<users, organizations, member, invitations, req, calls, failures>>

Roles == {"ORG_ADMIN", "ORG_MEMBER"}

\* row counts the rows there have been: a request keeps the id of the one it means.
Membership == [role : Roles \cup {"none"}, row : Nat]

\* A call creates at most one invitation.
InvitationIds == 1 .. MaxCalls

NoInvitation == [organization |-> None, email |-> None, role |-> "none",
                 status |-> "none", expired |-> FALSE]

Invitation == [organization : Organizations \cup {None}, email : Users \cup {None},
               role : Roles \cup {"none"},
               status : {"none", "PENDING", "ACCEPTED", "REVOKED", "deleted"},
               expired : BOOLEAN]

Steps == {"idle", "check", "write", "create", "join", "enroll", "survey", "deleteAll",
          "deleteNext", "delete"}

Idle == [op |-> "none", step |-> "idle", organization |-> None, user |-> None,
         role |-> "none", row |-> 0, invitation |-> 0, sole |-> {}]

Request == [op : Operations \cup {"none"}, step : Steps,
            organization : Organizations \cup {None}, user : Users \cup {None},
            role : Roles \cup {"none"}, row : Nat, invitation : InvitationIds \cup {0},
            sole : SUBSET Organizations]

Role(o, u) == member[o][u].role

Members(o) == {u \in Users : Role(o, u) # "none"}

Admins(o) == {u \in Users : Role(o, u) = "ORG_ADMIN"}

Exists(i) == invitations[i].status \notin {"none", "deleted"}

Init ==
    /\ users \in SUBSET Users
    /\ organizations \in SUBSET Organizations
    /\ member \in [Organizations -> [Users -> {[role |-> "none", row |-> 0]}
                                             \cup [role : Roles, row : {1}]]]
    /\ \A o \in Organizations :
          /\ Members(o) \subseteq users
          /\ o \in organizations => Admins(o) # {}
          /\ o \notin organizations => Members(o) = {}
    /\ invitations = [i \in InvitationIds |-> NoInvitation]
    /\ req = [r \in Requests |-> Idle]
    /\ calls = MaxCalls
    /\ failures = 0

Spend(op) == op \in Operations /\ calls > 0 /\ calls' = calls - 1

Accept(r, state) ==
    /\ Spend(state.op)
    /\ req[r].step = "idle"
    /\ req' = [req EXCEPT ![r] = state]
    /\ UNCHANGED <<users, organizations, member, invitations, failures>>

Finish(r) == req' = [req EXCEPT ![r] = Idle]

\* The handler throws, or has nothing to do.
Refuse(r) ==
    /\ Finish(r)
    /\ UNCHANGED <<users, organizations, member, invitations, calls, failures>>

Continue(r, step) ==
    /\ req' = [req EXCEPT ![r].step = step]
    /\ UNCHANGED <<users, organizations, member, invitations, calls, failures>>

\* Mutant: the two foreign keys are swapped.
EnterSwapped(o, u, role) ==
    member' = [member EXCEPT ![o][u] = [role |-> u, row |-> @.row + 1]]

Enter(o, u, role) ==
    member' = [member EXCEPT ![o][u] = [role |-> role, row |-> @.row + 1]]

Dismissed(m) == [m EXCEPT !.role = "none"]

\* Mutant: the invitations are kept.
DissolveMembers(gone, leaving) ==
    /\ organizations' = organizations \ gone
    /\ users' = users \ leaving
    /\ member' = [o \in Organizations |-> [u \in Users |->
          IF o \in gone \/ u \in leaving THEN Dismissed(member[o][u]) ELSE member[o][u]]]
    /\ UNCHANGED invitations

\* Deleting organizations deletes their members and invitations with them.
Dissolve(gone, leaving) ==
    /\ organizations' = organizations \ gone
    /\ users' = users \ leaving
    /\ member' = [o \in Organizations |-> [u \in Users |->
          IF o \in gone \/ u \in leaving THEN Dismissed(member[o][u]) ELSE member[o][u]]]
    /\ invitations' = [i \in InvitationIds |->
          IF invitations[i].organization \in gone
          THEN [NoInvitation EXCEPT !.status = "deleted"] ELSE invitations[i]]

(***************************************************************************)
(* register: no account has the email, then one transaction creates the    *)
(* account, its organization and its membership.                           *)
(***************************************************************************)
StartRegister(r) == \E u \in Users, o \in Organizations :
    /\ u \notin users
    /\ \A v \in Users : member[o][v].row = 0
    /\ \A q \in Requests : req[q].organization # o
    /\ Accept(r, [Idle EXCEPT !.op = "register", !.step = "create", !.user = u,
                              !.organization = o, !.role = "ORG_ADMIN"])

Register(r) ==
    LET q == req[r] IN
    /\ q.op = "register" /\ q.step = "create"
    /\ \/ /\ q.user \notin users
          /\ users' = users \cup {q.user}
          /\ organizations' = organizations \cup {q.organization}
          /\ Enter(q.organization, q.user, "ORG_ADMIN")
          /\ Finish(r)
          /\ UNCHANGED <<invitations, calls, failures>>
       \/ q.user \in users /\ Refuse(r)

(***************************************************************************)
(* changeRole and removeMember, both called by an administrator.           *)
(***************************************************************************)
StartChange(r) == \E o \in Organizations : \E u \in Members(o), role \in Roles,
                     op \in {"changeRole", "removeMember"} :
    /\ Admins(o) # {}
    /\ Accept(r, [Idle EXCEPT !.op = op, !.step = "check", !.organization = o, !.user = u,
                              !.role = IF op = "changeRole" THEN role ELSE "none",
                              !.row = member[o][u].row])

Same(q) ==
    /\ Role(q.organization, q.user) # "none"
    /\ member[q.organization][q.user].row = q.row

OtherAdmins(o, u) == Admins(o) \ {u}

\* Mutant: the member itself is counted.
CheckAdmins(r) ==
    LET q == req[r]
        steppingDown == Role(q.organization, q.user) = "ORG_ADMIN" /\ q.role # "ORG_ADMIN"
        allowed == Same(q) /\ (steppingDown => Admins(q.organization) # {})
    IN  /\ q.op \in {"changeRole", "removeMember"} /\ q.step = "check"
        /\ \/ allowed /\ Continue(r, "write")
           \/ ~allowed /\ Refuse(r)

\* assertNotLastAdmin, when an administrator steps down.
CheckNotLastAdmin(r) ==
    LET q == req[r]
        steppingDown == Role(q.organization, q.user) = "ORG_ADMIN" /\ q.role # "ORG_ADMIN"
        allowed == Same(q) /\ (steppingDown => OtherAdmins(q.organization, q.user) # {})
    IN  /\ q.op \in {"changeRole", "removeMember"} /\ q.step = "check"
        /\ \/ allowed /\ Continue(r, "write")
           \/ ~allowed /\ Refuse(r)

WriteRole(r) ==
    LET q == req[r] IN
    /\ q.op = "changeRole" /\ q.step = "write"
    /\ \/ /\ Same(q)
          /\ member' = [member EXCEPT ![q.organization][q.user].role = q.role]
          /\ Finish(r)
          /\ UNCHANGED <<users, organizations, invitations, calls, failures>>
       \/ ~Same(q) /\ Refuse(r)

DeleteMember(r) ==
    LET q == req[r] IN
    /\ q.op = "removeMember" /\ q.step = "write"
    /\ \/ /\ Same(q)
          /\ member' = [member EXCEPT ![q.organization][q.user] = Dismissed(@)]
          /\ Finish(r)
          /\ UNCHANGED <<users, organizations, invitations, calls, failures>>
       \/ ~Same(q) /\ Refuse(r)

(***************************************************************************)
(* invite: the email is no member and has no pending invitation, however   *)
(* old, then the row is created.                                           *)
(***************************************************************************)
StartInvite(r) == \E o \in Organizations, u \in Users, role \in Roles :
    /\ Admins(o) # {}
    /\ Accept(r, [Idle EXCEPT !.op = "invite", !.step = "check", !.organization = o,
                              !.user = u, !.role = role])

Pending(i, o, u) ==
    /\ invitations[i].status = "PENDING"
    /\ invitations[i].organization = o /\ invitations[i].email = u

\* Mutant: only the members are looked at.
CheckNoMember(r) ==
    LET q == req[r] IN
    /\ q.op = "invite" /\ q.step = "check"
    /\ \/ Role(q.organization, q.user) = "none" /\ Continue(r, "create")
       \/ Role(q.organization, q.user) # "none" /\ Refuse(r)

CheckNotInvited(r) ==
    LET q == req[r]
        allowed == /\ q.organization \in organizations
                   /\ Role(q.organization, q.user) = "none"
                   /\ \A i \in InvitationIds : ~Pending(i, q.organization, q.user)
    IN  /\ q.op = "invite" /\ q.step = "check"
        /\ \/ allowed /\ Continue(r, "create")
           \/ ~allowed /\ Refuse(r)

CreateInvitation(r) ==
    LET q == req[r] IN
    /\ q.op = "invite" /\ q.step = "create"
    /\ \/ \E i \in InvitationIds :
          /\ q.organization \in organizations
          /\ invitations[i] = NoInvitation
          /\ \A j \in 1 .. i - 1 : invitations[j] # NoInvitation
          /\ invitations' = [invitations EXCEPT ![i] =
                [organization |-> q.organization, email |-> q.user, role |-> q.role,
                 status |-> "PENDING", expired |-> FALSE]]
          /\ Finish(r)
          /\ UNCHANGED <<users, organizations, member, calls, failures>>
       \/ q.organization \notin organizations /\ Refuse(r)

(***************************************************************************)
(* revoke: find the invitation, then mark it REVOKED whatever its status.  *)
(***************************************************************************)
StartRevoke(r) == \E i \in InvitationIds :
    /\ Exists(i)
    /\ Admins(invitations[i].organization) # {}
    /\ Accept(r, [Idle EXCEPT !.op = "revoke", !.step = "write", !.invitation = i])

Revoke(r) ==
    LET i == req[r].invitation IN
    /\ req[r].op = "revoke" /\ req[r].step = "write"
    /\ \/ /\ Exists(i)
          /\ invitations' = [invitations EXCEPT ![i].status = "REVOKED"]
          /\ Finish(r)
          /\ UNCHANGED <<users, organizations, member, calls, failures>>
       \/ ~Exists(i) /\ Refuse(r)

(***************************************************************************)
(* accept: the invitation is pending and not expired; the account that has *)
(* its email joins, or one is created with its password.                   *)
(***************************************************************************)
StartAccept(r) == \E i \in InvitationIds :
    /\ Exists(i)
    /\ Accept(r, [Idle EXCEPT !.op = "accept", !.step = "check", !.invitation = i])

\* Mutant: the status of the invitation is not looked at.
CheckInvitationDate(r) ==
    LET i == invitations[req[r].invitation]
        valid == Exists(req[r].invitation) /\ ~i.expired
    IN
    /\ req[r].op = "accept" /\ req[r].step = "check"
    /\ \/ /\ valid
          /\ req' = [req EXCEPT ![r].step = IF i.email \in users THEN "join" ELSE "enroll",
                                ![r].organization = i.organization, ![r].user = i.email,
                                ![r].role = i.role]
          /\ UNCHANGED <<users, organizations, member, invitations, calls, failures>>
       \/ ~valid /\ Refuse(r)

CheckInvitation(r) ==
    LET i == invitations[req[r].invitation]
        valid == i.status = "PENDING" /\ ~i.expired
    IN  /\ req[r].op = "accept" /\ req[r].step = "check"
        /\ \/ /\ valid
              /\ req' = [req EXCEPT
                    ![r].step = IF i.email \in users THEN "join" ELSE "enroll",
                    ![r].organization = i.organization, ![r].user = i.email,
                    ![r].role = i.role]
              /\ UNCHANGED <<users, organizations, member, invitations, calls, failures>>
           \/ ~valid /\ Refuse(r)

\* One transaction; the unique (organization, user) and email indexes decide.
Join(r) ==
    LET q == req[r]
        possible == /\ Exists(q.invitation)
                    /\ Role(q.organization, q.user) = "none"
                    /\ (q.step = "join") = (q.user \in users)
    IN  /\ q.step \in {"join", "enroll"}
        /\ \/ /\ possible
              /\ users' = users \cup {q.user}
              /\ Enter(q.organization, q.user, q.role)
              /\ invitations' = [invitations EXCEPT ![q.invitation].status = "ACCEPTED"]
              /\ Finish(r)
              /\ UNCHANGED <<organizations, calls, failures>>
           \/ ~possible /\ Refuse(r)

\* An invitation is too old.
Expire(i) ==
    /\ Spend("expire")
    /\ invitations[i].status = "PENDING" /\ ~invitations[i].expired
    /\ invitations' = [invitations EXCEPT ![i].expired = TRUE]
    /\ UNCHANGED <<users, organizations, member, req, failures>>

(***************************************************************************)
(* deleteAccount, and deleteUser by a super-admin: no organization would   *)
(* keep members without an administrator, and those the user is alone in   *)
(* go too.  The first deletes in one transaction, the second one           *)
(* organization after the other.                                           *)
(***************************************************************************)
StartDelete(r) == \E u \in users, op \in {"deleteAccount", "deleteUser"} :
    Accept(r, [Idle EXCEPT !.op = op, !.step = "survey", !.user = u])

Alone(u) == {o \in organizations : Members(o) = {u}}

Abandoned(u) == {o \in organizations : u \in Members(o) /\ OtherAdmins(o, u) = {}}

\* Mutant: an organization whose other members are no administrators goes too.
SurveyAdmins(r) ==
    LET q == req[r] IN
    /\ q.step = "survey"
    /\ \/ /\ q.user \in users
          /\ req' = [req EXCEPT ![r].sole = Abandoned(q.user),
                ![r].step = IF q.op = "deleteAccount" THEN "deleteAll" ELSE "deleteNext"]
          /\ UNCHANGED <<users, organizations, member, invitations, calls, failures>>
       \/ q.user \notin users /\ Refuse(r)

Survey(r) ==
    LET q == req[r]
        allowed == q.user \in users /\ Abandoned(q.user) \subseteq Alone(q.user)
    IN  /\ q.step = "survey"
        /\ \/ /\ allowed
              /\ req' = [req EXCEPT ![r].sole = Alone(q.user),
                    ![r].step = IF q.op = "deleteAccount" THEN "deleteAll"
                                ELSE "deleteNext"]
              /\ UNCHANGED <<users, organizations, member, invitations, calls, failures>>
           \/ ~allowed /\ Refuse(r)

DeleteAll(r) ==
    LET q == req[r] IN
    /\ q.step = "deleteAll"
    /\ \/ /\ q.user \in users /\ q.sole \subseteq organizations
          /\ Dissolve(q.sole, {q.user})
          /\ Finish(r)
          /\ UNCHANGED <<calls, failures>>
       \/ ~(q.user \in users /\ q.sole \subseteq organizations) /\ Refuse(r)

DeleteNext(r) ==
    LET q == req[r] IN
    /\ q.step = "deleteNext"
    /\ \/ \E o \in q.sole :
          \/ /\ o \in organizations
             /\ Dissolve({o}, {})
             /\ req' = [req EXCEPT ![r].sole = @ \ {o}]
             /\ UNCHANGED <<calls, failures>>
          \/ o \notin organizations /\ Refuse(r)
       \/ /\ q.sole = {} /\ q.user \in users
          /\ Dissolve({}, {q.user})
          /\ Finish(r)
          /\ UNCHANGED <<calls, failures>>
       \/ q.sole = {} /\ q.user \notin users /\ Refuse(r)

\* A super-admin deletes an organization, whoever is in it.
StartDeleteOrganization(r) == \E o \in organizations :
    Accept(r, [Idle EXCEPT !.op = "deleteOrganization", !.step = "delete",
                           !.organization = o])

DeleteOrganization(r) ==
    LET o == req[r].organization IN
    /\ req[r].step = "delete"
    /\ \/ /\ o \in organizations
          /\ Dissolve({o}, {})
          /\ Finish(r)
          /\ UNCHANGED <<calls, failures>>
       \/ o \notin organizations /\ Refuse(r)

Fail(r) ==
    /\ req[r].step # "idle"
    /\ failures < MaxFailures
    /\ failures' = failures + 1
    /\ Finish(r)
    /\ UNCHANGED <<users, organizations, member, invitations, calls>>

Start(r) ==
    \/ StartRegister(r) \/ StartChange(r) \/ StartInvite(r) \/ StartRevoke(r)
    \/ StartAccept(r) \/ StartDelete(r) \/ StartDeleteOrganization(r)

Proceed(r) ==
    \/ Register(r) \/ CheckNotLastAdmin(r) \/ WriteRole(r) \/ DeleteMember(r)
    \/ CheckNotInvited(r) \/ CreateInvitation(r) \/ Revoke(r)
    \/ CheckInvitation(r) \/ Join(r)
    \/ Survey(r) \/ DeleteAll(r) \/ DeleteNext(r) \/ DeleteOrganization(r)

Next ==
    \/ \E r \in Requests : Start(r) \/ Proceed(r) \/ Fail(r)
    \/ \E i \in InvitationIds : Expire(i)

Spec == Init /\ [][Next]_vars

--------------------------------------------------------------------------------
(***************************************************************************)
(* Properties                                                              *)
(***************************************************************************)

TypeOK ==
    /\ users \subseteq Users
    /\ organizations \subseteq Organizations
    /\ member \in [Organizations -> [Users -> Membership]]
    /\ invitations \in [InvitationIds -> Invitation]
    /\ req \in [Requests -> Request]
    /\ calls \in Nat
    /\ failures \in Nat

\* The members of an organization are accounts, nobody is a member of one that is
\* gone, and no invitation to it is left, whatever accounts and organizations are
\* deleted while others join (accept, deleteAccount, deleteUser, deleteOrganization).
NothingDangles ==
    /\ \A o \in Organizations : Members(o) \subseteq users
    /\ \A o \in Organizations \ organizations : Members(o) = {}
    /\ \A i \in InvitationIds :
          Exists(i) => invitations[i].organization \in organizations

\* organizations.service.ts:119 "Impossible de retirer le dernier administrateur de
\* l'organisation": an organization has an administrator (changeRole, removeMember,
\* deleteAccount, deleteUser).
AdministratorRemains ==
    \A o \in organizations : Admins(o) # {}

\* auth.service.ts:394 "Every organization this user is the *sole* member of is
\* deleted": deleting an account deletes nobody else's organization (deleteAccount,
\* deleteUser).
OnlySoleOrganizationsGo ==
    [][\A o \in organizations \ organizations' :
          \/ \E u \in Users : Members(o) \subseteq {u}
          \/ \E r \in Requests : req[r].op = "deleteOrganization" /\ req[r].organization = o
      ]_vars

\* invitations.service.ts:261 "Invitation introuvable ou deja utilisee": a revoked
\* invitation is not accepted (revoke, accept).
RevokedIsNotAccepted ==
    [][\A i \in InvitationIds :
          invitations[i].status = "REVOKED" => invitations[i].status' # "ACCEPTED"]_vars

\* invitations.service.ts:74 "Une invitation est deja en attente pour cet email": an
\* email has one pending invitation to an organization (invite).
OnePendingInvitation ==
    \A i, j \in InvitationIds :
        /\ invitations[i].status = "PENDING" /\ invitations[j].status = "PENDING"
        /\ invitations[i].organization = invitations[j].organization
        /\ invitations[i].email = invitations[j].email
        => i = j
================================================================================
