--------------------------- MODULE MembershipProofs ----------------------------
(***************************************************************************)
(* Proofs about the members of organizations: what holds whatever the      *)
(* requests interleave, for every set of users and organizations and every *)
(* number of requests, calls and losses; then what holds as long as the    *)
(* API serves one request at a time.                                       *)
(***************************************************************************)
EXTENDS Membership, TLAPS

(***************************************************************************)
(* The invariant                                                           *)
(***************************************************************************)
Joining == {"join", "enroll"}
Deleting == {"survey", "deleteAll", "deleteNext"}

\* What a handler has read stays what it is about: an invitation keeps its organization
\* and its email as long as it is there.
Handled(q) ==
    /\ q.op \in {"register", "changeRole", "removeMember", "invite"} =>
          q.user \in Users /\ q.organization \in Organizations
    /\ q.op \in {"changeRole", "invite"} => q.role \in Roles
    /\ q.op \in {"revoke", "accept"} =>
          q.invitation \in InvitationIds /\ invitations[q.invitation].status # "none"
    /\ q.step \in Joining =>
          /\ q.op = "accept"
          /\ q.user \in Users /\ q.organization \in Organizations /\ q.role \in Roles
          /\ Exists(q.invitation) =>
                /\ invitations[q.invitation].organization = q.organization
                /\ invitations[q.invitation].email = q.user
    /\ q.step \in Deleting => q.user \in Users
    /\ q.step = "delete" => q.organization \in Organizations

InvitationsInv ==
    \A i \in InvitationIds : Exists(i) =>
        /\ invitations[i].organization \in organizations
        /\ invitations[i].email \in Users /\ invitations[i].role \in Roles

MembersInv ==
    \A o \in Organizations, u \in Users :
        Role(o, u) # "none" => o \in organizations /\ u \in users

RowsInv ==
    /\ TypeOK /\ MembersInv /\ InvitationsInv
    /\ \A r \in Requests : Handled(req[r])

LEMMA RowsHang == RowsInv => NothingDangles
  BY DEF RowsInv, MembersInv, InvitationsInv, NothingDangles, Members

(***************************************************************************)
(* Records                                                                 *)
(***************************************************************************)
LEMMA IdleIsHandled ==
    /\ Idle \in Request /\ Handled(Idle)
    /\ Idle.step = "idle" /\ Idle.op = "none" /\ Idle.user = None /\ Idle.organization = None
    /\ Idle.role = "none" /\ Idle.invitation = 0 /\ Idle.sole = {} /\ Idle.row = 0
  BY DEF Idle, Request, Steps, Handled, Joining, Deleting

LEMMA NoInvitationFields ==
    NoInvitation \in Invitation /\ NoInvitation.status = "none" /\ NoInvitation.organization = None
  BY DEF NoInvitation, Invitation

LEMMA StepWritten ==
    ASSUME NEW r \in Requests, NEW s \in Steps, req \in [Requests -> Request],
           req' = [req EXCEPT ![r].step = s]
    PROVE  /\ req' \in [Requests -> Request]
           /\ req'[r] = [req[r] EXCEPT !.step = s]
           /\ req'[r].step = s /\ req'[r].op = req[r].op /\ req'[r].user = req[r].user
           /\ req'[r].organization = req[r].organization /\ req'[r].role = req[r].role
           /\ req'[r].row = req[r].row /\ req'[r].invitation = req[r].invitation
           /\ req'[r].sole = req[r].sole
           /\ \A q \in Requests \ {r} : req'[q] = req[q]
  <1> DEFINE new == [req[r] EXCEPT !.step = s]
  <1>1. /\ new \in Request
        /\ new.step = s /\ new.op = req[r].op /\ new.user = req[r].user
        /\ new.organization = req[r].organization /\ new.role = req[r].role
        /\ new.row = req[r].row /\ new.invitation = req[r].invitation
        /\ new.sole = req[r].sole
    BY DEF Request
  <1>2. req' = [req EXCEPT ![r] = new]
    OBVIOUS
  <1>3. req'[r] = new
    BY <1>2
  <1> HIDE DEF new
  <1>4. req' \in [Requests -> Request] /\ \A q \in Requests \ {r} : req'[q] = req[q]
    BY <1>1, <1>2
  <1> QED
    BY <1>1, <1>3, <1>4 DEF new

LEMMA MemberWritten ==
    ASSUME NEW o \in Organizations, NEW u \in Users, NEW new \in Membership,
           member \in [Organizations -> [Users -> Membership]],
           member' = [member EXCEPT ![o][u] = new]
    PROVE  /\ member' \in [Organizations -> [Users -> Membership]]
           /\ member'[o][u] = new
           /\ \A p \in Organizations, v \in Users :
                 (p # o \/ v # u) => member'[p][v] = member[p][v]
  OBVIOUS

(***************************************************************************)
(* What a step of one request leaves alone                                 *)
(***************************************************************************)
\* An invitation is never taken back to nothing, nor moved to another organization.
InvitationsKept ==
    \A i \in InvitationIds : invitations[i].status # "none" =>
        /\ invitations'[i].status # "none"
        /\ Exists(i)' =>
              /\ Exists(i)
              /\ invitations'[i].organization = invitations[i].organization
              /\ invitations'[i].email = invitations[i].email

LEMMA OthersHandled ==
    ASSUME RowsInv, NEW r \in Requests, InvitationsKept, Handled(req[r])',
           \A q \in Requests \ {r} : req'[q] = req[q]
    PROVE  \A q \in Requests : Handled(req[q])'
  <1> SUFFICES ASSUME NEW q \in Requests \ {r} PROVE Handled(req[q])'
    OBVIOUS
  <1>1. Handled(req[q]) /\ req'[q] = req[q]
    BY DEF RowsInv
  <1>2. CASE req[q].op \in {"revoke", "accept"} \/ req[q].step \in Joining
    <2>1. /\ req[q].invitation \in InvitationIds
          /\ invitations[req[q].invitation].status # "none"
      BY <1>1, <1>2 DEF Handled
    <2> QED
      BY <1>1, <2>1 DEF Handled, InvitationsKept
  <1>3. CASE ~(req[q].op \in {"revoke", "accept"} \/ req[q].step \in Joining)
    BY <1>1, <1>3 DEF Handled
  <1> QED
    BY <1>2, <1>3

\* A step that writes no row.
LEMMA QuietKeeps ==
    ASSUME RowsInv, NEW r \in Requests, UNCHANGED <<users, organizations, member, invitations>>,
           req' \in [Requests -> Request], calls' \in Nat, failures' \in Nat,
           Handled(req'[r]), \A q \in Requests \ {r} : req'[q] = req[q]
    PROVE  RowsInv'
  <1>1. TypeOK'
    BY DEF RowsInv, TypeOK
  <1>2. MembersInv' /\ InvitationsInv' /\ InvitationsKept
    BY DEF RowsInv, MembersInv, InvitationsInv, InvitationsKept, Role, Exists
  <1>3. Handled(req[r])'
    BY DEF Handled, Exists
  <1>4. \A q \in Requests : Handled(req[q])'
    BY <1>2, <1>3, OthersHandled
  <1> QED
    BY <1>1, <1>2, <1>4 DEF RowsInv

LEMMA FinishTypes ==
    ASSUME NEW r \in Requests, req \in [Requests -> Request], Finish(r)
    PROVE  /\ req' \in [Requests -> Request] /\ req'[r] = Idle
           /\ \A q \in Requests \ {r} : req'[q] = req[q]
  BY IdleIsHandled DEF Finish

LEMMA FinishKeeps ==
    ASSUME RowsInv, NEW r \in Requests, Finish(r), calls' \in Nat, failures' \in Nat,
           UNCHANGED <<users, organizations, member, invitations>>
    PROVE  RowsInv'
  BY FinishTypes, IdleIsHandled, QuietKeeps DEF RowsInv, TypeOK

LEMMA RefuseKeeps ==
    ASSUME RowsInv, NEW r \in Requests, Refuse(r)
    PROVE  RowsInv'
  BY FinishKeeps DEF Refuse, RowsInv, TypeOK

LEMMA ContinueKeeps ==
    ASSUME RowsInv, NEW r \in Requests, NEW s \in Steps \ ({"delete"} \cup Joining \cup Deleting),
           Continue(r, s)
    PROVE  RowsInv'
  <1>1. req' = [req EXCEPT ![r].step = s]
    BY DEF Continue
  <1>2. /\ req' \in [Requests -> Request]
        /\ req'[r].step = s /\ req'[r].op = req[r].op /\ req'[r].user = req[r].user
        /\ req'[r].organization = req[r].organization /\ req'[r].role = req[r].role
        /\ req'[r].invitation = req[r].invitation
        /\ \A q \in Requests \ {r} : req'[q] = req[q]
    BY <1>1, StepWritten DEF RowsInv, TypeOK
  <1>3. Handled(req'[r])
    BY <1>2 DEF RowsInv, Handled
  <1> QED
    BY <1>2, <1>3, QuietKeeps DEF Continue, RowsInv, TypeOK

LEMMA AcceptKeeps ==
    ASSUME RowsInv, NEW r \in Requests, NEW state \in Request, Handled(state), Accept(r, state)
    PROVE  RowsInv'
  <1>1. /\ req' \in [Requests -> Request] /\ req'[r] = state
        /\ \A q \in Requests \ {r} : req'[q] = req[q]
    BY DEF Accept, RowsInv, TypeOK
  <1>2. calls' \in Nat /\ failures' \in Nat
    BY DEF Accept, Spend, RowsInv, TypeOK
  <1> QED
    BY <1>1, <1>2, QuietKeeps DEF Accept

(***************************************************************************)
(* The calls                                                               *)
(***************************************************************************)
LEMMA RegisterStarts ==
    ASSUME RowsInv, NEW r \in Requests, StartRegister(r)
    PROVE  RowsInv'
  <1> PICK u \in Users, o \in Organizations :
        Accept(r, [Idle EXCEPT !.op = "register", !.step = "create", !.user = u,
                               !.organization = o, !.role = "ORG_ADMIN"])
    BY DEF StartRegister
  <1> DEFINE new == [Idle EXCEPT !.op = "register", !.step = "create", !.user = u,
                                 !.organization = o, !.role = "ORG_ADMIN"]
  <1>1. new.op = "register" /\ new.step = "create" /\ new.user = u /\ new.organization = o
    BY DEF Idle
  <1>2. new \in Request
    BY DEF Accept, Spend, Idle, Request, Steps, Roles
  <1>3. Accept(r, new)
    OBVIOUS
  <1> HIDE DEF new
  <1>4. Handled(new)
    BY <1>1 DEF Handled, Joining, Deleting
  <1> QED
    BY <1>2, <1>3, <1>4, AcceptKeeps

LEMMA ChangeStarts ==
    ASSUME RowsInv, NEW r \in Requests, StartChange(r)
    PROVE  RowsInv'
  <1> PICK o \in Organizations, u \in Users, role \in Roles,
           op \in {"changeRole", "removeMember"} :
        Accept(r, [Idle EXCEPT !.op = op, !.step = "check", !.organization = o, !.user = u,
                               !.role = IF op = "changeRole" THEN role ELSE "none",
                               !.row = member[o][u].row])
    BY DEF StartChange, Members
  <1> DEFINE new == [Idle EXCEPT !.op = op, !.step = "check", !.organization = o, !.user = u,
                                 !.role = IF op = "changeRole" THEN role ELSE "none",
                                 !.row = member[o][u].row]
  <1>1. /\ new.op = op /\ new.step = "check" /\ new.user = u /\ new.organization = o
        /\ new.role = IF op = "changeRole" THEN role ELSE "none"
    BY DEF Idle
  <1>2. member[o][u].row \in Nat
    BY DEF RowsInv, TypeOK, Membership
  <1>3. new \in Request
    BY <1>2 DEF Accept, Spend, Idle, Request, Steps, Roles
  <1>4. Accept(r, new)
    OBVIOUS
  <1> HIDE DEF new
  <1>5. Handled(new)
    BY <1>1 DEF Handled, Joining, Deleting
  <1> QED
    BY <1>3, <1>4, <1>5, AcceptKeeps

LEMMA InviteStarts ==
    ASSUME RowsInv, NEW r \in Requests, StartInvite(r)
    PROVE  RowsInv'
  <1> PICK o \in Organizations, u \in Users, role \in Roles :
        Accept(r, [Idle EXCEPT !.op = "invite", !.step = "check", !.organization = o,
                               !.user = u, !.role = role])
    BY DEF StartInvite
  <1> DEFINE new == [Idle EXCEPT !.op = "invite", !.step = "check", !.organization = o,
                                 !.user = u, !.role = role]
  <1>1. /\ new.op = "invite" /\ new.step = "check" /\ new.user = u /\ new.organization = o
        /\ new.role = role
    BY DEF Idle
  <1>2. new \in Request
    BY DEF Accept, Spend, Idle, Request, Steps, Roles
  <1>3. Accept(r, new)
    OBVIOUS
  <1> HIDE DEF new
  <1>4. Handled(new)
    BY <1>1 DEF Handled, Joining, Deleting
  <1> QED
    BY <1>2, <1>3, <1>4, AcceptKeeps

\* revoke and accept take the id of an invitation there is.
LEMMA AnswerStarts ==
    ASSUME RowsInv, NEW r \in Requests, StartRevoke(r) \/ StartAccept(r)
    PROVE  RowsInv'
  <1> PICK i \in InvitationIds, op \in {"revoke", "accept"}, s \in {"write", "check"} :
        /\ Exists(i)
        /\ Accept(r, [Idle EXCEPT !.op = op, !.step = s, !.invitation = i])
    BY DEF StartRevoke, StartAccept
  <1> DEFINE new == [Idle EXCEPT !.op = op, !.step = s, !.invitation = i]
  <1>1. new.op = op /\ new.step = s /\ new.invitation = i
    BY DEF Idle
  <1>2. new \in Request
    BY DEF Accept, Spend, Idle, Request, Steps
  <1>3. Accept(r, new)
    OBVIOUS
  <1> HIDE DEF new
  <1>4. Handled(new)
    BY <1>1 DEF Handled, Joining, Deleting, Exists
  <1> QED
    BY <1>2, <1>3, <1>4, AcceptKeeps

LEMMA DeletionStarts ==
    ASSUME RowsInv, NEW r \in Requests, StartDelete(r)
    PROVE  RowsInv'
  <1> PICK u \in users, op \in {"deleteAccount", "deleteUser"} :
        Accept(r, [Idle EXCEPT !.op = op, !.step = "survey", !.user = u])
    BY DEF StartDelete
  <1> DEFINE new == [Idle EXCEPT !.op = op, !.step = "survey", !.user = u]
  <1>1. new.op = op /\ new.step = "survey" /\ new.user = u /\ u \in Users
    BY DEF Idle, RowsInv, TypeOK
  <1>2. new \in Request
    BY <1>1 DEF Accept, Spend, Idle, Request, Steps
  <1>3. Accept(r, new)
    OBVIOUS
  <1> HIDE DEF new
  <1>4. Handled(new)
    BY <1>1 DEF Handled, Joining, Deleting
  <1> QED
    BY <1>2, <1>3, <1>4, AcceptKeeps

LEMMA DissolutionStarts ==
    ASSUME RowsInv, NEW r \in Requests, StartDeleteOrganization(r)
    PROVE  RowsInv'
  <1> PICK o \in organizations :
        Accept(r, [Idle EXCEPT !.op = "deleteOrganization", !.step = "delete",
                               !.organization = o])
    BY DEF StartDeleteOrganization
  <1> DEFINE new == [Idle EXCEPT !.op = "deleteOrganization", !.step = "delete",
                                 !.organization = o]
  <1>1. /\ new.op = "deleteOrganization" /\ new.step = "delete" /\ new.organization = o
        /\ o \in Organizations
    BY DEF Idle, RowsInv, TypeOK
  <1>2. new \in Request
    BY <1>1 DEF Accept, Spend, Idle, Request, Steps
  <1>3. Accept(r, new)
    OBVIOUS
  <1> HIDE DEF new
  <1>4. Handled(new)
    BY <1>1 DEF Handled, Joining, Deleting
  <1> QED
    BY <1>2, <1>3, <1>4, AcceptKeeps

LEMMA Starts ==
    ASSUME RowsInv, NEW r \in Requests, Start(r)
    PROVE  RowsInv'
  BY RegisterStarts, ChangeStarts, InviteStarts, AnswerStarts, DeletionStarts,
     DissolutionStarts DEF Start

(***************************************************************************)
(* The checks                                                              *)
(***************************************************************************)
LEMMA ChecksKeep ==
    ASSUME RowsInv, NEW r \in Requests, CheckNotLastAdmin(r) \/ CheckNotInvited(r)
    PROVE  RowsInv'
  BY ContinueKeeps, RefuseKeeps
     DEF CheckNotLastAdmin, CheckNotInvited, Steps, Joining, Deleting

LEMMA InvitationChecked ==
    ASSUME RowsInv, NEW r \in Requests, CheckInvitation(r)
    PROVE  RowsInv'
  <1> DEFINE i == req[r].invitation
             s == IF invitations[i].email \in users THEN "join" ELSE "enroll"
             new == [req[r] EXCEPT !.step = s,
                        !.organization = invitations[i].organization,
                        !.user = invitations[i].email, !.role = invitations[i].role]
  <1>1. CASE Refuse(r)
    BY <1>1, RefuseKeeps
  <1>2. CASE ~Refuse(r)
    <2>1. /\ req[r].op = "accept" /\ invitations[i].status = "PENDING"
          /\ req' = [req EXCEPT ![r] = new]
          /\ UNCHANGED <<users, organizations, member, invitations, calls, failures>>
      BY <1>2 DEF CheckInvitation
    <2>2. i \in InvitationIds /\ Exists(i) /\ req[r] \in Request
      BY <2>1 DEF RowsInv, Handled, Exists, TypeOK
    <2>3. /\ invitations[i].organization \in Organizations /\ invitations[i].email \in Users
          /\ invitations[i].role \in Roles
      BY <2>2 DEF RowsInv, InvitationsInv, TypeOK
    <2>4. /\ new \in Request /\ new.step \in Joining /\ new.op = "accept"
          /\ new.organization = invitations[i].organization
          /\ new.user = invitations[i].email /\ new.role = invitations[i].role
          /\ new.invitation = i
      BY <2>1, <2>2, <2>3 DEF Request, Steps, Joining
    <2> HIDE DEF new
    <2>5. /\ req' \in [Requests -> Request] /\ req'[r] = new
          /\ \A q \in Requests \ {r} : req'[q] = req[q]
      BY <2>1, <2>4 DEF RowsInv, TypeOK
    <2>6. Handled(new)
      BY <2>2, <2>3, <2>4 DEF Handled, Joining, Deleting, Exists
    <2> QED
      BY <2>1, <2>5, <2>6, QuietKeeps DEF RowsInv, TypeOK
  <1> QED
    BY <1>1, <1>2

LEMMA AloneIsThere ==
    ASSUME RowsInv, NEW u
    PROVE  Alone(u) \in SUBSET Organizations
  BY DEF Alone, RowsInv, TypeOK

LEMMA Surveyed ==
    ASSUME RowsInv, NEW r \in Requests, Survey(r)
    PROVE  RowsInv'
  <1> DEFINE s == IF req[r].op = "deleteAccount" THEN "deleteAll" ELSE "deleteNext"
             new == [req[r] EXCEPT !.sole = Alone(req[r].user), !.step = s]
  <1>1. CASE Refuse(r)
    BY <1>1, RefuseKeeps
  <1>2. CASE ~Refuse(r)
    <2>1. /\ req[r].step = "survey" /\ req' = [req EXCEPT ![r] = new]
          /\ UNCHANGED <<users, organizations, member, invitations, calls, failures>>
      BY <1>2 DEF Survey
    <2>2. req[r] \in Request /\ Handled(req[r])
      BY DEF RowsInv, TypeOK
    <2>3. /\ new \in Request /\ new.step \in {"deleteAll", "deleteNext"} /\ new.op = req[r].op
          /\ new.user = req[r].user /\ new.organization = req[r].organization
          /\ new.role = req[r].role /\ new.invitation = req[r].invitation
      BY <2>2, AloneIsThere DEF Request, Steps
    <2> HIDE DEF new
    <2>4. /\ req' \in [Requests -> Request] /\ req'[r] = new
          /\ \A q \in Requests \ {r} : req'[q] = req[q]
      BY <2>1, <2>3 DEF RowsInv, TypeOK
    <2>5. Handled(new)
      BY <2>1, <2>2, <2>3 DEF Handled, Joining, Deleting
    <2> QED
      BY <2>1, <2>4, <2>5, QuietKeeps DEF RowsInv, TypeOK
  <1> QED
    BY <1>1, <1>2

(***************************************************************************)
(* The writes                                                              *)
(***************************************************************************)
\* The last write of a handler, which ends with it.
LEMMA WriteKeeps ==
    ASSUME RowsInv, NEW r \in Requests, Finish(r), UNCHANGED <<calls, failures>>,
           users' \subseteq Users, organizations' \subseteq Organizations,
           member' \in [Organizations -> [Users -> Membership]],
           invitations' \in [InvitationIds -> Invitation],
           MembersInv', InvitationsInv', InvitationsKept
    PROVE  RowsInv'
  <1>1. /\ req' \in [Requests -> Request] /\ req'[r] = Idle
        /\ \A q \in Requests \ {r} : req'[q] = req[q]
    BY FinishTypes DEF RowsInv, TypeOK
  <1>2. TypeOK'
    BY <1>1 DEF RowsInv, TypeOK
  <1>3. Handled(req[r])'
    BY <1>1, IdleIsHandled DEF Handled, Joining, Deleting
  <1>4. \A q \in Requests : Handled(req[q])'
    BY <1>1, <1>3, OthersHandled
  <1> QED
    BY <1>2, <1>4 DEF RowsInv

\* A handler that writes no invitation: those there are keep an organization.
LEMMA InvitationsStay ==
    ASSUME RowsInv, UNCHANGED invitations, organizations \subseteq organizations'
    PROVE  /\ invitations' \in [InvitationIds -> Invitation]
           /\ InvitationsInv' /\ InvitationsKept
  BY DEF RowsInv, TypeOK, InvitationsInv, InvitationsKept, Exists

\* One membership is written, of an account and an organization that are there.
LEMMA MemberEntered ==
    ASSUME RowsInv, NEW o \in organizations', NEW u \in users', NEW new \in Membership,
           o \in Organizations, u \in Users,
           users \subseteq users', organizations \subseteq organizations',
           member' = [member EXCEPT ![o][u] = new]
    PROVE  member' \in [Organizations -> [Users -> Membership]] /\ MembersInv'
  <1>1. /\ member' \in [Organizations -> [Users -> Membership]]
        /\ \A p \in Organizations, v \in Users :
              (p # o \/ v # u) => member'[p][v] = member[p][v]
    BY MemberWritten DEF RowsInv, TypeOK
  <1>2. ASSUME NEW p \in Organizations, NEW v \in Users, member'[p][v].role # "none"
        PROVE  p \in organizations' /\ v \in users'
    <2>1. CASE p = o /\ v = u
      BY <2>1
    <2>2. CASE p # o \/ v # u
      BY <1>1, <1>2, <2>2 DEF RowsInv, MembersInv, Role
    <2> QED
      BY <2>1, <2>2
  <1> QED
    BY <1>1, <1>2 DEF MembersInv, Role

LEMMA EnterKeeps ==
    ASSUME RowsInv, NEW o \in organizations', NEW u \in users', NEW role \in Roles,
           o \in Organizations, u \in Users,
           users \subseteq users', organizations \subseteq organizations', Enter(o, u, role)
    PROVE  member' \in [Organizations -> [Users -> Membership]] /\ MembersInv'
  <1> DEFINE new == [role |-> role, row |-> member[o][u].row + 1]
  <1>1. new \in Membership
    BY DEF RowsInv, TypeOK, Membership
  <1>2. member' = [member EXCEPT ![o][u] = new]
    BY DEF Enter, RowsInv, TypeOK
  <1> HIDE DEF new
  <1> QED
    BY <1>1, <1>2, MemberEntered

LEMMA RegisterKeeps ==
    ASSUME RowsInv, NEW r \in Requests, Register(r)
    PROVE  RowsInv'
  <1> DEFINE q == req[r]
  <1>1. CASE Refuse(r)
    BY <1>1, RefuseKeeps
  <1>2. CASE ~Refuse(r)
    <2>1. /\ q.op = "register" /\ users' = users \cup {q.user}
          /\ organizations' = organizations \cup {q.organization}
          /\ Enter(q.organization, q.user, "ORG_ADMIN") /\ Finish(r)
          /\ UNCHANGED <<invitations, calls, failures>>
      BY <1>2 DEF Register
    <2>2. q.user \in Users /\ q.organization \in Organizations
      BY <2>1 DEF RowsInv, Handled
    <2>3. member' \in [Organizations -> [Users -> Membership]] /\ MembersInv'
      BY <2>1, <2>2, EnterKeeps DEF Roles
    <2>4. /\ invitations' \in [InvitationIds -> Invitation]
          /\ InvitationsInv' /\ InvitationsKept
      BY <2>1, InvitationsStay
    <2>5. users' \subseteq Users /\ organizations' \subseteq Organizations
      BY <2>1, <2>2 DEF RowsInv, TypeOK
    <2> QED
      BY <2>1, <2>3, <2>4, <2>5, WriteKeeps
  <1> QED
    BY <1>1, <1>2

\* changeRole and removeMember write the row they found only if it is still there.
LEMMA RoleWritten ==
    ASSUME RowsInv, NEW r \in Requests, NEW new \in Membership, Same(req[r]), Finish(r),
           req[r].organization \in Organizations, req[r].user \in Users,
           member' = [member EXCEPT ![req[r].organization][req[r].user] = new],
           UNCHANGED <<users, organizations, invitations, calls, failures>>
    PROVE  RowsInv'
  <1>1. req[r].organization \in organizations' /\ req[r].user \in users'
    BY DEF Same, RowsInv, MembersInv
  <1>2. member' \in [Organizations -> [Users -> Membership]] /\ MembersInv'
    BY <1>1, MemberEntered
  <1>3. /\ invitations' \in [InvitationIds -> Invitation]
        /\ InvitationsInv' /\ InvitationsKept
    BY InvitationsStay
  <1>4. users' \subseteq Users /\ organizations' \subseteq Organizations
    BY DEF RowsInv, TypeOK
  <1> QED
    BY <1>2, <1>3, <1>4, WriteKeeps

LEMMA WriteRoleKeeps ==
    ASSUME RowsInv, NEW r \in Requests, WriteRole(r)
    PROVE  RowsInv'
  <1> DEFINE q == req[r]
             new == [member[q.organization][q.user] EXCEPT !.role = q.role]
  <1>1. CASE Refuse(r)
    BY <1>1, RefuseKeeps
  <1>2. CASE ~Refuse(r)
    <2>1. /\ q.op = "changeRole" /\ Same(q) /\ Finish(r)
          /\ member' = [member EXCEPT ![q.organization][q.user].role = q.role]
          /\ UNCHANGED <<users, organizations, invitations, calls, failures>>
      BY <1>2 DEF WriteRole
    <2>2. q.user \in Users /\ q.organization \in Organizations /\ q.role \in Roles
      BY <2>1 DEF RowsInv, Handled
    <2>3. new \in Membership
      BY <2>2 DEF RowsInv, TypeOK, Membership
    <2>4. member' = [member EXCEPT ![q.organization][q.user] = new]
      BY <2>1
    <2> HIDE DEF new
    <2> QED
      BY <2>1, <2>2, <2>3, <2>4, RoleWritten
  <1> QED
    BY <1>1, <1>2

LEMMA DeleteMemberKeeps ==
    ASSUME RowsInv, NEW r \in Requests, DeleteMember(r)
    PROVE  RowsInv'
  <1> DEFINE q == req[r]
             new == Dismissed(member[q.organization][q.user])
  <1>1. CASE Refuse(r)
    BY <1>1, RefuseKeeps
  <1>2. CASE ~Refuse(r)
    <2>1. /\ q.op = "removeMember" /\ Same(q) /\ Finish(r)
          /\ member' = [member EXCEPT ![q.organization][q.user] = Dismissed(@)]
          /\ UNCHANGED <<users, organizations, invitations, calls, failures>>
      BY <1>2 DEF DeleteMember
    <2>2. q.user \in Users /\ q.organization \in Organizations
      BY <2>1 DEF RowsInv, Handled
    <2>3. new \in Membership
      BY <2>2 DEF RowsInv, TypeOK, Membership, Dismissed
    <2>4. member' = [member EXCEPT ![q.organization][q.user] = new]
      BY <2>1
    <2> HIDE DEF new
    <2> QED
      BY <2>1, <2>2, <2>3, <2>4, RoleWritten
  <1> QED
    BY <1>1, <1>2

LEMMA CreateInvitationKeeps ==
    ASSUME RowsInv, NEW r \in Requests, CreateInvitation(r)
    PROVE  RowsInv'
  <1> DEFINE q == req[r]
             new == [organization |-> q.organization, email |-> q.user, role |-> q.role,
                     status |-> "PENDING", expired |-> FALSE]
  <1>1. CASE Refuse(r)
    BY <1>1, RefuseKeeps
  <1>2. CASE ~Refuse(r)
    <2>1. PICK i \in InvitationIds :
          /\ q.op = "invite" /\ q.organization \in organizations
          /\ invitations[i] = NoInvitation
          /\ invitations' = [invitations EXCEPT ![i] = new]
          /\ Finish(r)
          /\ UNCHANGED <<users, organizations, member, calls, failures>>
      BY <1>2 DEF CreateInvitation
    <2>2. q.user \in Users /\ q.organization \in Organizations /\ q.role \in Roles
      BY <2>1 DEF RowsInv, Handled
    <2>3. /\ new \in Invitation /\ new.status = "PENDING"
          /\ new.organization = q.organization /\ new.email = q.user /\ new.role = q.role
      BY <2>2 DEF Invitation
    <2> HIDE DEF new
    <2>4. /\ invitations' \in [InvitationIds -> Invitation] /\ invitations'[i] = new
          /\ \A j \in InvitationIds \ {i} : invitations'[j] = invitations[j]
      BY <2>1, <2>3 DEF RowsInv, TypeOK
    <2>5. invitations[i].status = "none"
      BY <2>1, NoInvitationFields
    <2>6. InvitationsInv'
      BY <2>1, <2>2, <2>3, <2>4 DEF RowsInv, InvitationsInv, Exists
    <2>7. InvitationsKept
      BY <2>4, <2>5 DEF InvitationsKept, Exists
    <2>8. users' \subseteq Users /\ organizations' \subseteq Organizations
      BY <2>1 DEF RowsInv, TypeOK
    <2>9. member' \in [Organizations -> [Users -> Membership]] /\ MembersInv'
      BY <2>1 DEF RowsInv, TypeOK, MembersInv, Role
    <2> QED
      BY <2>1, <2>4, <2>6, <2>7, <2>8, <2>9, WriteKeeps
  <1> QED
    BY <1>1, <1>2

\* revoke, accept and time change an invitation that is there, and keep what it is for.
LEMMA InvitationWritten ==
    ASSUME RowsInv, NEW i \in InvitationIds, NEW new \in Invitation, Exists(i),
           new.status \in {"PENDING", "ACCEPTED", "REVOKED"},
           new.organization = invitations[i].organization,
           new.email = invitations[i].email, new.role = invitations[i].role,
           invitations' = [invitations EXCEPT ![i] = new], UNCHANGED organizations
    PROVE  /\ invitations' \in [InvitationIds -> Invitation]
           /\ InvitationsInv' /\ InvitationsKept
  <1>1. /\ invitations' \in [InvitationIds -> Invitation] /\ invitations'[i] = new
        /\ \A j \in InvitationIds \ {i} : invitations'[j] = invitations[j]
    BY DEF RowsInv, TypeOK
  <1>2. InvitationsInv'
    BY <1>1 DEF RowsInv, InvitationsInv, Exists
  <1>3. InvitationsKept
    BY <1>1 DEF InvitationsKept, Exists
  <1> QED
    BY <1>1, <1>2, <1>3

LEMMA StatusFields ==
    ASSUME NEW old \in Invitation, NEW status \in {"ACCEPTED", "REVOKED"}
    PROVE  /\ [old EXCEPT !.status = status] \in Invitation
           /\ [old EXCEPT !.status = status].status = status
           /\ [old EXCEPT !.status = status].organization = old.organization
           /\ [old EXCEPT !.status = status].email = old.email
           /\ [old EXCEPT !.status = status].role = old.role
  BY DEF Invitation

LEMMA RevokeKeeps ==
    ASSUME RowsInv, NEW r \in Requests, Revoke(r)
    PROVE  RowsInv'
  <1> DEFINE i == req[r].invitation
             new == [invitations[i] EXCEPT !.status = "REVOKED"]
  <1>1. CASE Refuse(r)
    BY <1>1, RefuseKeeps
  <1>2. CASE ~Refuse(r)
    <2>1. /\ req[r].op = "revoke" /\ Exists(i) /\ Finish(r)
          /\ invitations' = [invitations EXCEPT ![i] = new]
          /\ UNCHANGED <<users, organizations, member, calls, failures>>
      BY <1>2 DEF Revoke
    <2>2. i \in InvitationIds /\ invitations[i] \in Invitation
      BY <2>1 DEF RowsInv, Handled, TypeOK
    <2>3. /\ new \in Invitation /\ new.status = "REVOKED"
          /\ new.organization = invitations[i].organization
          /\ new.email = invitations[i].email /\ new.role = invitations[i].role
      BY <2>2, StatusFields
    <2> HIDE DEF new
    <2>4. /\ invitations' \in [InvitationIds -> Invitation]
          /\ InvitationsInv' /\ InvitationsKept
      BY <2>1, <2>2, <2>3, InvitationWritten
    <2>5. users' \subseteq Users /\ organizations' \subseteq Organizations
      BY <2>1 DEF RowsInv, TypeOK
    <2>6. member' \in [Organizations -> [Users -> Membership]] /\ MembersInv'
      BY <2>1 DEF RowsInv, TypeOK, MembersInv, Role
    <2> QED
      BY <2>1, <2>4, <2>5, <2>6, WriteKeeps
  <1> QED
    BY <1>1, <1>2

\* The one who joins is of the organization of the invitation, which is still there.
LEMMA JoinKeeps ==
    ASSUME RowsInv, NEW r \in Requests, Join(r)
    PROVE  RowsInv'
  <1> DEFINE q == req[r]
             i == req[r].invitation
             new == [invitations[i] EXCEPT !.status = "ACCEPTED"]
  <1>1. CASE Refuse(r)
    BY <1>1, RefuseKeeps
  <1>2. CASE ~Refuse(r)
    <2>1. /\ q.step \in Joining /\ Exists(i) /\ Finish(r)
          /\ users' = users \cup {q.user} /\ Enter(q.organization, q.user, q.role)
          /\ invitations' = [invitations EXCEPT ![i] = new]
          /\ UNCHANGED <<organizations, calls, failures>>
      BY <1>2 DEF Join, Joining
    <2>2. /\ q.user \in Users /\ q.organization \in Organizations /\ q.role \in Roles
          /\ i \in InvitationIds /\ invitations[i].organization = q.organization
      BY <2>1 DEF RowsInv, Handled
    <2>3. invitations[i] \in Invitation /\ q.organization \in organizations'
      BY <2>1, <2>2 DEF RowsInv, TypeOK, InvitationsInv
    <2>4. /\ new \in Invitation /\ new.status = "ACCEPTED"
          /\ new.organization = invitations[i].organization
          /\ new.email = invitations[i].email /\ new.role = invitations[i].role
      BY <2>3, StatusFields
    <2> HIDE DEF new
    <2>5. /\ invitations' \in [InvitationIds -> Invitation]
          /\ InvitationsInv' /\ InvitationsKept
      BY <2>1, <2>2, <2>4, InvitationWritten
    <2>6. member' \in [Organizations -> [Users -> Membership]] /\ MembersInv'
      BY <2>1, <2>2, <2>3, EnterKeeps
    <2>7. users' \subseteq Users /\ organizations' \subseteq Organizations
      BY <2>1, <2>2 DEF RowsInv, TypeOK
    <2> QED
      BY <2>1, <2>5, <2>6, <2>7, WriteKeeps
  <1> QED
    BY <1>1, <1>2

LEMMA ExpireKeeps ==
    ASSUME RowsInv, NEW i \in InvitationIds, Expire(i)
    PROVE  RowsInv'
  <1> DEFINE new == [invitations[i] EXCEPT !.expired = TRUE]
  <1>1. /\ invitations[i].status = "PENDING" /\ calls' \in Nat
        /\ invitations' = [invitations EXCEPT ![i] = new]
        /\ UNCHANGED <<users, organizations, member, req, failures>>
    BY DEF Expire, Spend, RowsInv, TypeOK
  <1>2. /\ new \in Invitation /\ new.status = "PENDING"
        /\ new.organization = invitations[i].organization
        /\ new.email = invitations[i].email /\ new.role = invitations[i].role
    BY <1>1 DEF RowsInv, TypeOK, Invitation
  <1> HIDE DEF new
  <1>3. /\ invitations' \in [InvitationIds -> Invitation]
        /\ InvitationsInv' /\ InvitationsKept
    BY <1>1, <1>2, InvitationWritten DEF Exists
  <1>4. TypeOK' /\ MembersInv'
    BY <1>1, <1>3 DEF RowsInv, TypeOK, MembersInv, Role
  <1>5. ASSUME NEW r \in Requests PROVE \A q \in Requests : Handled(req[q])'
    <2>1. Handled(req[r])'
      BY <1>1, <1>3 DEF RowsInv, Handled, InvitationsKept
    <2> QED
      BY <1>1, <1>3, <2>1, OthersHandled
  <1> QED
    BY <1>3, <1>4, <1>5 DEF RowsInv

LEMMA FailKeeps ==
    ASSUME RowsInv, NEW r \in Requests, Fail(r)
    PROVE  RowsInv'
  BY FinishKeeps DEF Fail, RowsInv, TypeOK

(***************************************************************************)
(* The deletions                                                           *)
(***************************************************************************)
\* An organization takes its memberships and its invitations with it, an account its
\* memberships.
LEMMA DissolveKeeps ==
    ASSUME RowsInv, NEW gone, NEW leaving, Dissolve(gone, leaving)
    PROVE  /\ users' \subseteq Users /\ organizations' \subseteq Organizations
           /\ member' \in [Organizations -> [Users -> Membership]]
           /\ invitations' \in [InvitationIds -> Invitation]
           /\ MembersInv' /\ InvitationsInv' /\ InvitationsKept
  <1>1. users' = users \ leaving /\ organizations' = organizations \ gone
    BY DEF Dissolve
  <1>2. ASSUME NEW o \in Organizations, NEW u \in Users
        PROVE  /\ member'[o][u] \in Membership
               /\ o \in gone \/ u \in leaving => member'[o][u].role = "none"
               /\ ~(o \in gone \/ u \in leaving) => member'[o][u] = member[o][u]
    <2>1. member'[o][u] = IF o \in gone \/ u \in leaving THEN Dismissed(member[o][u])
                          ELSE member[o][u]
      BY DEF Dissolve
    <2>2. member[o][u] \in Membership
      BY DEF RowsInv, TypeOK
    <2>3. Dismissed(member[o][u]) \in Membership /\ Dismissed(member[o][u]).role = "none"
      BY <2>2 DEF Dismissed, Membership
    <2> QED
      BY <2>1, <2>2, <2>3
  <1>3. /\ member' = [o \in Organizations |-> member'[o]]
        /\ \A o \in Organizations : member'[o] = [u \in Users |-> member'[o][u]]
    BY DEF Dissolve
  <1>4. member' \in [Organizations -> [Users -> Membership]]
    BY <1>2, <1>3
  <1>5. MembersInv'
    BY <1>1, <1>2 DEF RowsInv, MembersInv, Role
  <1> DEFINE removed == [NoInvitation EXCEPT !.status = "deleted"]
  <1>6. removed \in Invitation /\ removed.status = "deleted"
    BY DEF NoInvitation, Invitation
  <1>7. invitations' = [i \in InvitationIds |->
            IF invitations[i].organization \in gone THEN removed ELSE invitations[i]]
    BY DEF Dissolve
  <1> HIDE DEF removed
  <1>8. invitations' \in [InvitationIds -> Invitation]
    BY <1>6, <1>7 DEF RowsInv, TypeOK
  <1>9. ASSUME NEW i \in InvitationIds, Exists(i)'
        PROVE  invitations[i].organization \notin gone /\ invitations'[i] = invitations[i]
    BY <1>6, <1>7, <1>9 DEF Exists
  <1>10. InvitationsInv'
    BY <1>1, <1>9 DEF RowsInv, InvitationsInv, Exists
  <1>11. InvitationsKept
    BY <1>6, <1>7, <1>9 DEF InvitationsKept, Exists
  <1>12. users' \subseteq Users /\ organizations' \subseteq Organizations
    BY <1>1 DEF RowsInv, TypeOK
  <1> QED
    BY <1>4, <1>5, <1>8, <1>10, <1>11, <1>12

LEMMA DissolvedKeeps ==
    ASSUME RowsInv, NEW r \in Requests, NEW gone, NEW leaving, Dissolve(gone, leaving),
           Finish(r), UNCHANGED <<calls, failures>>
    PROVE  RowsInv'
  BY DissolveKeeps, WriteKeeps

LEMMA DeleteAllKeeps ==
    ASSUME RowsInv, NEW r \in Requests, DeleteAll(r)
    PROVE  RowsInv'
  BY DissolvedKeeps, RefuseKeeps DEF DeleteAll

LEMMA DeleteOrganizationKeeps ==
    ASSUME RowsInv, NEW r \in Requests, DeleteOrganization(r)
    PROVE  RowsInv'
  BY DissolvedKeeps, RefuseKeeps DEF DeleteOrganization

\* deleteUser goes on after each organization.
LEMMA DeleteNextKeeps ==
    ASSUME RowsInv, NEW r \in Requests, DeleteNext(r)
    PROVE  RowsInv'
  <1> DEFINE q == req[r]
  <1>1. CASE Refuse(r) \/ (Dissolve({}, {q.user}) /\ Finish(r) /\ UNCHANGED <<calls, failures>>)
    BY <1>1, RefuseKeeps, DissolvedKeeps
  <1>2. CASE \E o \in q.sole : /\ Dissolve({o}, {})
                               /\ req' = [req EXCEPT ![r].sole = @ \ {o}]
                               /\ UNCHANGED <<calls, failures>>
    <2> PICK o \in q.sole : /\ Dissolve({o}, {})
                            /\ req' = [req EXCEPT ![r].sole = @ \ {o}]
                            /\ UNCHANGED <<calls, failures>>
      BY <1>2
    <2> DEFINE new == [q EXCEPT !.sole = @ \ {o}]
    <2>1. q \in Request /\ Handled(q)
      BY DEF RowsInv, TypeOK
    <2>2. /\ new \in Request /\ new.step = q.step /\ new.op = q.op
          /\ new.user = q.user /\ new.organization = q.organization
          /\ new.role = q.role /\ new.invitation = q.invitation
      BY <2>1 DEF Request
    <2>3. req' = [req EXCEPT ![r] = new]
      OBVIOUS
    <2> HIDE DEF new
    <2>4. /\ req' \in [Requests -> Request] /\ req'[r] = new
          /\ \A p \in Requests \ {r} : req'[p] = req[p]
      BY <2>2, <2>3 DEF RowsInv, TypeOK
    <2>5. /\ users' \subseteq Users /\ organizations' \subseteq Organizations
          /\ member' \in [Organizations -> [Users -> Membership]]
          /\ invitations' \in [InvitationIds -> Invitation]
          /\ MembersInv' /\ InvitationsInv' /\ InvitationsKept
      BY DissolveKeeps
    <2>6. TypeOK'
      BY <2>4, <2>5 DEF RowsInv, TypeOK
    <2>7. Handled(req[r])'
      BY <2>1, <2>2, <2>4, <2>5 DEF Handled, InvitationsKept
    <2>8. \A p \in Requests : Handled(req[p])'
      BY <2>4, <2>5, <2>7, OthersHandled
    <2> QED
      BY <2>5, <2>6, <2>8 DEF RowsInv
  <1> QED
    BY <1>1, <1>2 DEF DeleteNext

(***************************************************************************)
(* Every behaviour                                                         *)
(***************************************************************************)
LEMMA RowsBegin == Init => RowsInv
  <1> SUFFICES ASSUME Init PROVE RowsInv
    OBVIOUS
  <1>1. TypeOK
    <2>1. {[role |-> "none", row |-> 0]} \cup [role : Roles, row : {1}] \subseteq Membership
      BY DEF Membership, Roles
    <2>2. member \in [Organizations -> [Users -> Membership]]
      BY <2>1 DEF Init
    <2>3. calls \in Nat /\ failures \in Nat
      BY Bounds DEF Init
    <2> QED
      BY <2>2, <2>3, IdleIsHandled, NoInvitationFields DEF Init, TypeOK
  <1>2. MembersInv
    BY DEF Init, MembersInv, Members
  <1>3. InvitationsInv /\ \A r \in Requests : Handled(req[r])
    BY IdleIsHandled, NoInvitationFields DEF Init, InvitationsInv, Exists
  <1> QED
    BY <1>1, <1>2, <1>3 DEF RowsInv

LEMMA RowsStep == RowsInv /\ [Next]_vars => RowsInv'
  <1> SUFFICES ASSUME RowsInv, [Next]_vars PROVE RowsInv'
    OBVIOUS
  <1>1. ASSUME NEW r \in Requests, Start(r) \/ Fail(r) PROVE RowsInv'
    BY <1>1, Starts, FailKeeps
  <1>2. ASSUME NEW r \in Requests, Proceed(r) PROVE RowsInv'
    BY <1>2, RegisterKeeps, ChecksKeep, WriteRoleKeeps, DeleteMemberKeeps,
       CreateInvitationKeeps, RevokeKeeps, InvitationChecked, JoinKeeps, Surveyed,
       DeleteAllKeeps, DeleteNextKeeps, DeleteOrganizationKeeps DEF Proceed
  <1>3. ASSUME NEW i \in InvitationIds, Expire(i) PROVE RowsInv'
    BY <1>3, ExpireKeeps
  <1>4. CASE UNCHANGED vars
    BY <1>4 DEF vars, RowsInv, TypeOK, MembersInv, InvitationsInv, Handled, Exists, Role
  <1> QED
    BY <1>1, <1>2, <1>3, <1>4 DEF Next

LEMMA RowsHold == Spec => []RowsInv
  BY RowsBegin, RowsStep, PTL DEF Spec

\* Type correctness of the members of organizations.
THEOREM MembershipTypes == Spec => []TypeOK
  <1>1. RowsInv => TypeOK
    BY DEF RowsInv
  <1> QED
    BY <1>1, RowsHold, PTL

\* Whatever calls interleave and wherever a request is lost: members are accounts, an
\* organization that is gone has none, and an invitation hangs on an organization.
THEOREM NothingEverDangles == Spec => []NothingDangles
  BY RowsHang, RowsHold, PTL

(***************************************************************************)
(* One request at a time                                                   *)
(***************************************************************************)
\* What a check established still holds at the write it allows.
Checked(q) ==
    /\ q.op = "removeMember" => q.role = "none"
    /\ q.op \in {"changeRole", "removeMember"} /\ q.step = "write" =>
          (Role(q.organization, q.user) = "ORG_ADMIN" /\ q.role # "ORG_ADMIN"
              => OtherAdmins(q.organization, q.user) # {})
    /\ q.op = "invite" /\ q.step = "create" =>
          \A i \in InvitationIds : ~Pending(i, q.organization, q.user)
    /\ q.step \in Joining => invitations[q.invitation].status = "PENDING"
    /\ q.step \in {"deleteAll", "deleteNext"} =>
          /\ Abandoned(q.user) \subseteq q.sole
          /\ \A o \in q.sole : Members(o) \subseteq {q.user}
    /\ q.step = "delete" => q.op = "deleteOrganization"

AloneInv ==
    /\ RowsInv /\ AdministratorRemains /\ OnePendingInvitation
    /\ \A r \in Requests : Checked(req[r])

LEMMA IdleIsChecked == Checked(Idle)
  BY DEF Checked, Idle, Joining

\* A step that writes no row.
LEMMA QuietAlone ==
    ASSUME AloneInv, RowsInv', NEW r, Requests = {r}, Checked(req'[r]),
           UNCHANGED <<users, organizations, member, invitations>>
    PROVE  AloneInv'
  <1>1. AdministratorRemains' /\ OnePendingInvitation'
    BY DEF AloneInv, AdministratorRemains, OnePendingInvitation, Admins, Role
  <1>2. Checked(req[r])'
    BY DEF Checked, Role, OtherAdmins, Admins, Pending, Abandoned, Members
  <1> QED
    BY <1>1, <1>2 DEF AloneInv

LEMMA FinishedAlone ==
    ASSUME AloneInv, RowsInv', NEW r, Requests = {r}, Finish(r),
           UNCHANGED <<users, organizations, member, invitations>>
    PROVE  AloneInv'
  <1>1. req'[r] = Idle
    BY FinishTypes DEF AloneInv, RowsInv, TypeOK
  <1> QED
    BY <1>1, IdleIsChecked, QuietAlone

\* The last write of a handler.
LEMMA WrittenAlone ==
    ASSUME AloneInv, RowsInv', NEW r, Requests = {r}, Finish(r),
           AdministratorRemains', OnePendingInvitation'
    PROVE  AloneInv'
  <1>1. req'[r] = Idle
    BY FinishTypes DEF AloneInv, RowsInv, TypeOK
  <1>2. Checked(req[r])'
    BY <1>1 DEF Checked, Idle, Joining
  <1> QED
    BY <1>2 DEF AloneInv

LEMMA StartsAlone ==
    ASSUME AloneInv, RowsInv', NEW r, Requests = {r}, Start(r)
    PROVE  AloneInv'
  <1>1. req \in [Requests -> Request]
    BY DEF AloneInv, RowsInv, TypeOK
  <1>2. ASSUME NEW state, Accept(r, state), Checked(state) PROVE AloneInv'
    BY <1>1, <1>2, QuietAlone DEF Accept
  <1>3. CASE StartRegister(r)
    BY <1>2, <1>3 DEF StartRegister, Checked, Idle, Joining
  <1>4. CASE StartChange(r)
    <2> PICK o \in Organizations, u \in Users, role \in Roles,
             op \in {"changeRole", "removeMember"} :
          Accept(r, [Idle EXCEPT !.op = op, !.step = "check", !.organization = o, !.user = u,
                                 !.role = IF op = "changeRole" THEN role ELSE "none",
                                 !.row = member[o][u].row])
      BY <1>4 DEF StartChange, Members
    <2> DEFINE new == [Idle EXCEPT !.op = op, !.step = "check", !.organization = o, !.user = u,
                                   !.role = IF op = "changeRole" THEN role ELSE "none",
                                   !.row = member[o][u].row]
    <2>1. new.op = op /\ new.step = "check" /\ (op = "removeMember" => new.role = "none")
      BY DEF Idle
    <2>2. Accept(r, new)
      OBVIOUS
    <2> HIDE DEF new
    <2>3. Checked(new)
      BY <2>1 DEF Checked, Joining
    <2> QED
      BY <1>2, <2>2, <2>3
  <1>5. CASE StartInvite(r)
    BY <1>2, <1>5 DEF StartInvite, Checked, Idle, Joining
  <1>6. CASE StartRevoke(r) \/ StartAccept(r)
    BY <1>2, <1>6 DEF StartRevoke, StartAccept, Checked, Idle, Joining
  <1>7. CASE StartDelete(r) \/ StartDeleteOrganization(r)
    BY <1>2, <1>7 DEF StartDelete, StartDeleteOrganization, Checked, Idle, Joining
  <1> QED
    BY <1>3, <1>4, <1>5, <1>6, <1>7 DEF Start

LEMMA CheckedAlone ==
    ASSUME AloneInv, RowsInv', NEW r, Requests = {r},
           CheckNotLastAdmin(r) \/ CheckNotInvited(r)
    PROVE  AloneInv'
  <1>1. req \in [Requests -> Request] /\ Checked(req[r])
    BY DEF AloneInv, RowsInv, TypeOK
  <1>2. CASE Refuse(r)
    BY <1>2, FinishedAlone DEF Refuse
  <1>3. CASE CheckNotLastAdmin(r) /\ ~Refuse(r)
    <2>1. Continue(r, "write") /\ req[r].op \in {"changeRole", "removeMember"}
      BY <1>3 DEF CheckNotLastAdmin
    <2>2. Role(req[r].organization, req[r].user) = "ORG_ADMIN" /\ req[r].role # "ORG_ADMIN"
             => OtherAdmins(req[r].organization, req[r].user) # {}
      BY <1>3 DEF CheckNotLastAdmin
    <2>3. /\ req'[r].step = "write" /\ req'[r].op = req[r].op /\ req'[r].user = req[r].user
          /\ req'[r].organization = req[r].organization /\ req'[r].role = req[r].role
      BY <1>1, <2>1, StepWritten DEF Continue, Steps
    <2>4. Checked(req'[r])
      BY <1>1, <2>1, <2>2, <2>3 DEF Checked, Joining
    <2> QED
      BY <2>1, <2>4, QuietAlone DEF Continue
  <1>4. CASE CheckNotInvited(r) /\ ~Refuse(r)
    <2>1. Continue(r, "create") /\ req[r].op = "invite"
      BY <1>4 DEF CheckNotInvited
    <2>2. \A i \in InvitationIds : ~Pending(i, req[r].organization, req[r].user)
      BY <1>4 DEF CheckNotInvited
    <2>3. /\ req'[r].step = "create" /\ req'[r].op = req[r].op /\ req'[r].user = req[r].user
          /\ req'[r].organization = req[r].organization /\ req'[r].role = req[r].role
      BY <1>1, <2>1, StepWritten DEF Continue, Steps
    <2>4. Checked(req'[r])
      BY <1>1, <2>1, <2>2, <2>3 DEF Checked, Joining
    <2> QED
      BY <2>1, <2>4, QuietAlone DEF Continue
  <1> QED
    BY <1>2, <1>3, <1>4

LEMMA InvitationCheckedAlone ==
    ASSUME AloneInv, RowsInv', NEW r, Requests = {r}, CheckInvitation(r)
    PROVE  AloneInv'
  <1>1. req \in [Requests -> Request] /\ Checked(req[r])
    BY DEF AloneInv, RowsInv, TypeOK
  <1>2. CASE Refuse(r)
    BY <1>2, FinishedAlone DEF Refuse
  <1>3. CASE ~Refuse(r)
    <2>1. /\ req[r].op = "accept" /\ invitations[req[r].invitation].status = "PENDING"
          /\ req'[r].op = "accept" /\ req'[r].invitation = req[r].invitation
          /\ req'[r].step \in Joining
          /\ UNCHANGED <<users, organizations, member, invitations>>
      BY <1>1, <1>3 DEF CheckInvitation, Request, Joining
    <2>2. Checked(req'[r])
      BY <2>1 DEF Checked, Joining
    <2> QED
      BY <2>1, <2>2, QuietAlone
  <1> QED
    BY <1>2, <1>3

LEMMA SurveyedAlone ==
    ASSUME AloneInv, RowsInv', NEW r, Requests = {r}, Survey(r)
    PROVE  AloneInv'
  <1>1. req \in [Requests -> Request] /\ Checked(req[r])
    BY DEF AloneInv, RowsInv, TypeOK
  <1>2. CASE Refuse(r)
    BY <1>2, FinishedAlone DEF Refuse
  <1>3. CASE ~Refuse(r)
    <2>1. /\ Abandoned(req[r].user) \subseteq Alone(req[r].user)
          /\ req'[r].op = req[r].op /\ req'[r].role = req[r].role
          /\ req'[r].step \in {"deleteAll", "deleteNext"} /\ req'[r].user = req[r].user
          /\ req'[r].sole = Alone(req[r].user)
          /\ UNCHANGED <<users, organizations, member, invitations>>
      BY <1>1, <1>3 DEF Survey, Request
    <2>2. Checked(req'[r])
      BY <1>1, <2>1 DEF Checked, Joining, Alone
    <2> QED
      BY <2>1, <2>2, QuietAlone
  <1> QED
    BY <1>2, <1>3

\* register: an organization and its administrator are created together.
LEMMA RegisteredAlone ==
    ASSUME AloneInv, RowsInv', NEW r, Requests = {r}, Register(r)
    PROVE  AloneInv'
  <1> DEFINE q == req[r]
  <1>1. CASE Refuse(r)
    BY <1>1, FinishedAlone DEF Refuse
  <1>2. CASE ~Refuse(r)
    <2>1. /\ q.op = "register" /\ organizations' = organizations \cup {q.organization}
          /\ Enter(q.organization, q.user, "ORG_ADMIN") /\ Finish(r) /\ UNCHANGED invitations
      BY <1>2 DEF Register
    <2>2. q.user \in Users /\ q.organization \in Organizations
      BY <2>1 DEF AloneInv, RowsInv, Handled
    <2>3. /\ member'[q.organization][q.user].role = "ORG_ADMIN"
          /\ \A o \in Organizations, u \in Users :
                o # q.organization \/ u # q.user => member'[o][u] = member[o][u]
      BY <2>1, <2>2 DEF Enter, AloneInv, RowsInv, TypeOK
    <2>4. AdministratorRemains'
      <3> SUFFICES ASSUME NEW o \in organizations' PROVE (Admins(o) # {})'
        BY DEF AdministratorRemains
      <3>1. CASE o = q.organization
        BY <2>2, <2>3, <3>1 DEF Admins, Role
      <3>2. CASE o # q.organization
        BY <2>1, <2>3, <3>2 DEF AloneInv, AdministratorRemains, RowsInv, TypeOK, Admins, Role
      <3> QED
        BY <3>1, <3>2
    <2>5. OnePendingInvitation'
      BY <2>1 DEF AloneInv, OnePendingInvitation
    <2> QED
      BY <2>1, <2>4, <2>5, WrittenAlone
  <1> QED
    BY <1>1, <1>2

\* changeRole and removeMember leave another administrator when they take one away.
LEMMA RoleWrittenAlone ==
    ASSUME AloneInv, RowsInv', NEW r, Requests = {r}, NEW new \in Membership, Finish(r),
           req[r].op \in {"changeRole", "removeMember"}, req[r].step = "write",
           new.role = req[r].role,
           member' = [member EXCEPT ![req[r].organization][req[r].user] = new],
           UNCHANGED <<users, organizations, invitations>>
    PROVE  AloneInv'
  <1> DEFINE q == req[r]
  <1>1. q.user \in Users /\ q.organization \in Organizations
    BY DEF AloneInv, RowsInv, Handled
  <1>2. /\ member'[q.organization][q.user] = new
        /\ \A o \in Organizations, u \in Users :
              o # q.organization \/ u # q.user => member'[o][u] = member[o][u]
    BY <1>1, MemberWritten DEF AloneInv, RowsInv, TypeOK
  <1>3. AdministratorRemains'
    <2> SUFFICES ASSUME NEW o \in organizations' PROVE (Admins(o) # {})'
      BY DEF AdministratorRemains
    <2>1. o \in organizations /\ o \in Organizations
      BY DEF AloneInv, RowsInv, TypeOK
    <2>2. PICK a \in Users : Role(o, a) = "ORG_ADMIN"
      BY <2>1 DEF AloneInv, AdministratorRemains, Admins
    <2>3. CASE o # q.organization \/ a # q.user
      BY <1>2, <2>1, <2>2, <2>3 DEF Admins, Role
    <2>4. CASE o = q.organization /\ a = q.user /\ q.role = "ORG_ADMIN"
      BY <1>1, <1>2, <2>4 DEF Admins, Role
    <2>5. CASE o = q.organization /\ a = q.user /\ q.role # "ORG_ADMIN"
      <3>1. OtherAdmins(o, a) # {}
        BY <2>2, <2>5 DEF AloneInv, Checked
      <3>2. PICK b \in Users : b # a /\ Role(o, b) = "ORG_ADMIN"
        BY <3>1 DEF OtherAdmins, Admins
      <3> QED
        BY <1>2, <2>1, <2>5, <3>2 DEF Admins, Role
    <2> QED
      BY <2>3, <2>4, <2>5
  <1>4. OnePendingInvitation'
    BY DEF AloneInv, OnePendingInvitation
  <1> QED
    BY <1>3, <1>4, WrittenAlone

LEMMA RoleChangedAlone ==
    ASSUME AloneInv, RowsInv', NEW r, Requests = {r}, WriteRole(r) \/ DeleteMember(r)
    PROVE  AloneInv'
  <1> DEFINE q == req[r]
             old == member[q.organization][q.user]
             new == [old EXCEPT !.role = q.role]
  <1>1. CASE Refuse(r)
    BY <1>1, FinishedAlone DEF Refuse
  <1>2. CASE ~Refuse(r)
    <2>1. /\ q.op \in {"changeRole", "removeMember"} /\ q.step = "write" /\ Finish(r)
          /\ UNCHANGED <<users, organizations, invitations>>
          /\ q.op = "removeMember" => q.role = "none"
      BY <1>2 DEF WriteRole, DeleteMember, AloneInv, Checked
    <2>2. q.user \in Users /\ q.organization \in Organizations /\ q \in Request
      BY <2>1 DEF AloneInv, RowsInv, Handled, TypeOK
    <2>3. old \in Membership
      BY <2>2 DEF AloneInv, RowsInv, TypeOK
    <2>4. new \in Membership /\ new.role = q.role
      BY <2>2, <2>3 DEF Membership, Request
    <2>5. member' = [member EXCEPT ![q.organization][q.user] = new]
      BY <1>2, <2>1 DEF WriteRole, DeleteMember, Dismissed
    <2> HIDE DEF new
    <2> QED
      BY <2>1, <2>4, <2>5, RoleWrittenAlone
  <1> QED
    BY <1>1, <1>2

\* invite: the email had no pending invitation.
LEMMA InvitedAlone ==
    ASSUME AloneInv, RowsInv', NEW r, Requests = {r}, CreateInvitation(r)
    PROVE  AloneInv'
  <1> DEFINE q == req[r]
             new == [organization |-> q.organization, email |-> q.user, role |-> q.role,
                     status |-> "PENDING", expired |-> FALSE]
  <1>1. CASE Refuse(r)
    BY <1>1, FinishedAlone DEF Refuse
  <1>2. CASE ~Refuse(r)
    <2>1. PICK i \in InvitationIds :
          /\ q.op = "invite" /\ q.step = "create"
          /\ invitations' = [invitations EXCEPT ![i] = new] /\ Finish(r)
          /\ UNCHANGED <<users, organizations, member>>
      BY <1>2 DEF CreateInvitation
    <2>2. new.organization = q.organization /\ new.email = q.user
      OBVIOUS
    <2> HIDE DEF new
    <2>3. invitations'[i] = new /\ \A j \in InvitationIds \ {i} : invitations'[j] = invitations[j]
      BY <2>1 DEF AloneInv, RowsInv, TypeOK
    <2>4. \A j \in InvitationIds : ~Pending(j, q.organization, q.user)
      BY <2>1 DEF AloneInv, Checked
    <2>5. OnePendingInvitation'
      BY <2>2, <2>3, <2>4 DEF AloneInv, OnePendingInvitation, Pending
    <2>6. AdministratorRemains'
      BY <2>1 DEF AloneInv, AdministratorRemains, Admins, Role
    <2> QED
      BY <2>1, <2>5, <2>6, WrittenAlone
  <1> QED
    BY <1>1, <1>2

\* An invitation that leaves PENDING, or stays what it is, is in nobody's way.
LEMMA FewerPending ==
    ASSUME OnePendingInvitation,
           \A i \in InvitationIds : invitations'[i].status = "PENDING" =>
               /\ invitations[i].status = "PENDING"
               /\ invitations'[i].organization = invitations[i].organization
               /\ invitations'[i].email = invitations[i].email
    PROVE  OnePendingInvitation'
  BY DEF OnePendingInvitation

LEMMA RevokedAlone ==
    ASSUME AloneInv, RowsInv', NEW r, Requests = {r}, Revoke(r)
    PROVE  AloneInv'
  <1> DEFINE i == req[r].invitation
  <1>1. CASE Refuse(r)
    BY <1>1, FinishedAlone DEF Refuse
  <1>2. CASE ~Refuse(r)
    <2>1. /\ req[r].op = "revoke" /\ Finish(r) /\ UNCHANGED <<users, organizations, member>>
          /\ invitations' = [invitations EXCEPT ![i].status = "REVOKED"]
      BY <1>2 DEF Revoke
    <2>2. i \in InvitationIds /\ invitations \in [InvitationIds -> Invitation]
      BY <2>1 DEF AloneInv, RowsInv, Handled, TypeOK
    <2>3. OnePendingInvitation'
      BY <2>1, <2>2, FewerPending DEF AloneInv, Invitation
    <2>4. AdministratorRemains'
      BY <2>1 DEF AloneInv, AdministratorRemains, Admins, Role
    <2> QED
      BY <2>1, <2>3, <2>4, WrittenAlone
  <1> QED
    BY <1>1, <1>2

\* The one who joins was no member: no administrator is lost.
LEMMA JoinedAlone ==
    ASSUME AloneInv, RowsInv', NEW r, Requests = {r}, Join(r)
    PROVE  AloneInv'
  <1> DEFINE q == req[r]
  <1>1. CASE Refuse(r)
    BY <1>1, FinishedAlone DEF Refuse
  <1>2. CASE ~Refuse(r)
    <2>1. /\ q.step \in Joining /\ Finish(r) /\ UNCHANGED organizations
          /\ Role(q.organization, q.user) = "none" /\ Enter(q.organization, q.user, q.role)
          /\ invitations' = [invitations EXCEPT ![q.invitation].status = "ACCEPTED"]
      BY <1>2 DEF Join, Joining
    <2>2. /\ q.user \in Users /\ q.organization \in Organizations
          /\ q.invitation \in InvitationIds /\ invitations \in [InvitationIds -> Invitation]
      BY <2>1 DEF AloneInv, RowsInv, Handled, TypeOK
    <2>3. OnePendingInvitation'
      BY <2>1, <2>2, FewerPending DEF AloneInv, Invitation
    <2>4. \A o \in Organizations, u \in Users :
              o # q.organization \/ u # q.user => member'[o][u] = member[o][u]
      BY <2>1, <2>2 DEF Enter, AloneInv, RowsInv, TypeOK
    <2>5. AdministratorRemains'
      <3> SUFFICES ASSUME NEW o \in organizations' PROVE (Admins(o) # {})'
        BY DEF AdministratorRemains
      <3>1. o \in organizations /\ o \in Organizations
        BY <2>1 DEF AloneInv, RowsInv, TypeOK
      <3>2. PICK a \in Users : Role(o, a) = "ORG_ADMIN"
        BY <3>1 DEF AloneInv, AdministratorRemains, Admins
      <3>3. member'[o][a] = member[o][a]
        BY <2>1, <2>4, <3>1, <3>2
      <3> QED
        BY <3>2, <3>3 DEF Admins, Role
    <2> QED
      BY <2>1, <2>3, <2>5, WrittenAlone
  <1> QED
    BY <1>1, <1>2

LEMMA ExpiredAlone ==
    ASSUME AloneInv, RowsInv', NEW r, Requests = {r}, NEW i \in InvitationIds, Expire(i)
    PROVE  AloneInv'
  <1>1. /\ invitations' = [invitations EXCEPT ![i].expired = TRUE]
        /\ UNCHANGED <<users, organizations, member, req>>
        /\ invitations \in [InvitationIds -> Invitation]
    BY DEF Expire, AloneInv, RowsInv, TypeOK
  <1>2. \A j \in InvitationIds :
            /\ invitations'[j].status = invitations[j].status
            /\ invitations'[j].organization = invitations[j].organization
            /\ invitations'[j].email = invitations[j].email
    BY <1>1 DEF Invitation
  <1>3. OnePendingInvitation'
    BY <1>2, FewerPending DEF AloneInv
  <1>4. AdministratorRemains'
    BY <1>1 DEF AloneInv, AdministratorRemains, Admins, Role
  <1>5. req[r].step \in Joining => req[r].invitation \in InvitationIds
    BY DEF AloneInv, RowsInv, Handled
  <1>6. Checked(req[r])'
    BY <1>1, <1>2, <1>5
       DEF AloneInv, Checked, Role, OtherAdmins, Admins, Pending, Abandoned, Members
  <1> QED
    BY <1>3, <1>4, <1>6 DEF AloneInv

\* The organizations that stay keep an administrator, if whoever leaves was not the last.
LEMMA DissolvedAlone ==
    ASSUME AloneInv, NEW gone, NEW leaving, Dissolve(gone, leaving),
           \A u \in leaving : Abandoned(u) \subseteq gone,
           \A u, v \in leaving : u = v
    PROVE  AdministratorRemains' /\ OnePendingInvitation'
  <1>1. /\ organizations' = organizations \ gone
        /\ \A o \in Organizations, u \in Users : o \notin gone /\ u \notin leaving =>
              member'[o][u] = member[o][u]
    BY DEF Dissolve
  <1>2. AdministratorRemains'
    <2> SUFFICES ASSUME NEW o \in organizations' PROVE (Admins(o) # {})'
      BY DEF AdministratorRemains
    <2>1. o \in organizations /\ o \in Organizations /\ o \notin gone
      BY <1>1 DEF AloneInv, RowsInv, TypeOK
    <2>2. PICK a \in Users : Role(o, a) = "ORG_ADMIN"
      BY <2>1 DEF AloneInv, AdministratorRemains, Admins
    <2>3. CASE a \notin leaving
      BY <1>1, <2>1, <2>2, <2>3 DEF Admins, Role
    <2>4. CASE a \in leaving
      <3>1. OtherAdmins(o, a) # {}
        BY <2>1, <2>2, <2>4 DEF Abandoned, Members
      <3>2. PICK b \in Users : b # a /\ Role(o, b) = "ORG_ADMIN"
        BY <3>1 DEF OtherAdmins, Admins
      <3>3. b \notin leaving
        BY <2>4, <3>2
      <3> QED
        BY <1>1, <2>1, <3>2, <3>3 DEF Admins, Role
    <2> QED
      BY <2>3, <2>4
  <1>3. \A i \in InvitationIds : invitations'[i].status = "PENDING" =>
            invitations'[i] = invitations[i]
    BY DEF Dissolve, NoInvitation
  <1>4. OnePendingInvitation'
    BY <1>3, FewerPending DEF AloneInv
  <1> QED
    BY <1>2, <1>4

LEMMA DeletedAllAlone ==
    ASSUME AloneInv, RowsInv', NEW r, Requests = {r}, DeleteAll(r)
    PROVE  AloneInv'
  <1>1. CASE Refuse(r)
    BY <1>1, FinishedAlone DEF Refuse
  <1>2. CASE ~Refuse(r)
    <2>1. /\ req[r].step = "deleteAll" /\ Finish(r)
          /\ Dissolve(req[r].sole, {req[r].user})
      BY <1>2 DEF DeleteAll
    <2>2. Abandoned(req[r].user) \subseteq req[r].sole
      BY <2>1 DEF AloneInv, Checked
    <2>3. AdministratorRemains' /\ OnePendingInvitation'
      BY <2>1, <2>2, DissolvedAlone
    <2> QED
      BY <2>1, <2>3, WrittenAlone
  <1> QED
    BY <1>1, <1>2

LEMMA DeletedNextAlone ==
    ASSUME AloneInv, RowsInv', NEW r, Requests = {r}, DeleteNext(r)
    PROVE  AloneInv'
  <1> DEFINE q == req[r]
  <1> PICK user, sole : user = q.user /\ sole = q.sole   \* as they are before the step
    OBVIOUS
  <1>1. /\ q.step = "deleteNext" /\ q \in Request /\ Checked(q)
        /\ Abandoned(q.user) \subseteq q.sole
        /\ \A o \in q.sole : Members(o) \subseteq {q.user}
    BY DEF DeleteNext, AloneInv, Checked, RowsInv, TypeOK
  <1>2. CASE Refuse(r)
    BY <1>2, FinishedAlone DEF Refuse
  <1>3. CASE q.sole = {} /\ Dissolve({}, {q.user}) /\ Finish(r)
    <2>1. AdministratorRemains' /\ OnePendingInvitation'
      BY <1>1, <1>3, DissolvedAlone
    <2> QED
      BY <1>3, <2>1, WrittenAlone
  <1>4. CASE \E o \in q.sole : Dissolve({o}, {}) /\ req' = [req EXCEPT ![r].sole = @ \ {o}]
    <2> PICK o \in q.sole : Dissolve({o}, {}) /\ req' = [req EXCEPT ![r].sole = @ \ {o}]
      BY <1>4
    <2>1. AdministratorRemains' /\ OnePendingInvitation'
      BY DissolvedAlone
    <2>2. /\ req'[r].step = "deleteNext" /\ req'[r].op = q.op /\ req'[r].role = q.role
          /\ req'[r].user = user /\ req'[r].sole = sole \ {o}
      BY <1>1 DEF AloneInv, RowsInv, TypeOK, Request
    <2>3. /\ organizations' = organizations \ {o}
          /\ \A p \in Organizations \ {o}, u \in Users : member'[p][u] = member[p][u]
      BY DEF Dissolve
    <2>4. organizations \subseteq Organizations /\ sole \subseteq Organizations
      BY <1>1 DEF AloneInv, RowsInv, TypeOK, Request
    <2>5. \A p \in Organizations \ {o} : Members(p)' = Members(p) /\ Admins(p)' = Admins(p)
      BY <2>3 DEF Members, Admins, Role
    <2>6. Abandoned(user)' \subseteq sole \ {o}
      BY <1>1, <2>3, <2>4, <2>5 DEF Abandoned, OtherAdmins
    <2>7. \A p \in sole \ {o} : Members(p)' \subseteq {user}
      BY <1>1, <2>4, <2>5
    <2>8. Checked(req[r])'
      <3>1. Abandoned(req[r].user)' = Abandoned(user)'
        BY <2>2
      <3>2. (/\ Abandoned(req[r].user) \subseteq req[r].sole
             /\ \A p \in req[r].sole : Members(p) \subseteq {req[r].user})'
        BY <2>2, <2>6, <2>7, <3>1
      <3> QED
        BY <1>1, <2>2, <3>2 DEF Checked, Joining
    <2> QED
      BY <2>1, <2>8 DEF AloneInv
  <1> QED
    BY <1>2, <1>3, <1>4 DEF DeleteNext

LEMMA DeletedOrganizationAlone ==
    ASSUME AloneInv, RowsInv', NEW r, Requests = {r}, DeleteOrganization(r)
    PROVE  AloneInv'
  <1>1. CASE Refuse(r)
    BY <1>1, FinishedAlone DEF Refuse
  <1>2. CASE ~Refuse(r)
    <2>1. Finish(r) /\ Dissolve({req[r].organization}, {})
      BY <1>2 DEF DeleteOrganization
    <2>2. AdministratorRemains' /\ OnePendingInvitation'
      BY <2>1, DissolvedAlone
    <2> QED
      BY <2>1, <2>2, WrittenAlone
  <1> QED
    BY <1>1, <1>2

LEMMA AloneBegins ==
    ASSUME Init
    PROVE  AloneInv
  <1>1. AdministratorRemains
    BY DEF Init, AdministratorRemains
  <1>2. OnePendingInvitation
    BY NoInvitationFields DEF Init, OnePendingInvitation
  <1>3. \A r \in Requests : Checked(req[r])
    BY IdleIsChecked DEF Init
  <1> QED
    BY <1>1, <1>2, <1>3, RowsBegin DEF AloneInv

LEMMA AloneStep ==
    ASSUME NEW r, Requests = {r}, AloneInv, [Next]_vars
    PROVE  AloneInv'
  <1>1. RowsInv'
    BY RowsStep DEF AloneInv
  <1>2. CASE Fail(r)
    BY <1>1, <1>2, FinishedAlone DEF Fail
  <1>3. CASE Start(r)
    BY <1>1, <1>3, StartsAlone
  <1>4. CASE Proceed(r)
    BY <1>1, <1>4, RegisteredAlone, CheckedAlone, RoleChangedAlone, InvitedAlone,
       RevokedAlone, InvitationCheckedAlone, JoinedAlone, SurveyedAlone, DeletedAllAlone,
       DeletedNextAlone, DeletedOrganizationAlone DEF Proceed
  <1>5. ASSUME NEW i \in InvitationIds, Expire(i) PROVE AloneInv'
    BY <1>1, <1>5, ExpiredAlone
  <1>6. CASE UNCHANGED vars
    <2>1. req'[r] = req[r] /\ Checked(req[r])
      BY <1>6 DEF vars, AloneInv
    <2> QED
      BY <1>1, <1>6, <2>1, QuietAlone DEF vars
  <1> QED
    BY <1>2, <1>3, <1>4, <1>5, <1>6 DEF Next

LEMMA AloneHolds ==
    ASSUME NEW r, Requests = {r}
    PROVE  Spec => []AloneInv
  BY AloneBegins, AloneStep, PTL DEF Spec

\* As long as the API serves one request at a time, an organization has an administrator
\* and an email at most one pending invitation to it, even when requests are lost.
THEOREM AdministratorAlwaysRemains ==
    ASSUME NEW r, Requests = {r}
    PROVE  Spec => []AdministratorRemains
  <1>1. AloneInv => AdministratorRemains
    BY DEF AloneInv
  <1> QED
    BY <1>1, AloneHolds, PTL

THEOREM InvitationsPendOnce ==
    ASSUME NEW r, Requests = {r}
    PROVE  Spec => []OnePendingInvitation
  <1>1. AloneInv => OnePendingInvitation
    BY DEF AloneInv
  <1> QED
    BY <1>1, AloneHolds, PTL

(***************************************************************************)
(* What a step does not do, one request at a time                          *)
(***************************************************************************)
Goes(o) ==
    \/ \E u \in Users : Members(o) \subseteq {u}
    \/ \E r \in Requests : req[r].op = "deleteOrganization" /\ req[r].organization = o

\* The steps that write organizations or invitations.
LEMMA OtherSteps ==
    ASSUME NEW r, Requests = {r}, [Next]_vars
    PROVE  \/ UNCHANGED <<organizations, invitations>>
           \/ Register(r) \/ CreateInvitation(r) \/ Revoke(r) \/ Join(r)
           \/ DeleteAll(r) \/ DeleteNext(r) \/ DeleteOrganization(r)
           \/ \E i \in InvitationIds : Expire(i)
  <1>1. CASE Start(r)
    BY <1>1 DEF Start, StartRegister, StartChange, StartInvite, StartRevoke, StartAccept,
                StartDelete, StartDeleteOrganization, Accept
  <1>2. CASE WriteRole(r) \/ DeleteMember(r)
    BY <1>2 DEF WriteRole, DeleteMember, Refuse
  <1>3. CASE CheckNotLastAdmin(r) \/ CheckNotInvited(r) \/ CheckInvitation(r) \/ Survey(r)
    BY <1>3 DEF CheckNotLastAdmin, CheckNotInvited, CheckInvitation, Survey, Continue, Refuse
  <1>4. CASE Fail(r) \/ UNCHANGED vars
    BY <1>4 DEF Fail, vars
  <1> QED
    BY <1>1, <1>2, <1>3, <1>4 DEF Next, Proceed

LEMMA OnlySoleGo ==
    ASSUME NEW r, Requests = {r}, AloneInv, [Next]_vars,
           NEW o \in organizations \ organizations'
    PROVE  Goes(o)
  <1> DEFINE q == req[r]
  <1>1. Checked(q) /\ Handled(q)
    BY DEF AloneInv, RowsInv
  <1>2. DeleteAll(r) \/ DeleteNext(r) \/ DeleteOrganization(r)
    BY OtherSteps DEF Register, CreateInvitation, Revoke, Join, Refuse, Expire
  <1>3. CASE DeleteAll(r) \/ DeleteNext(r)
    <2>1. o \in q.sole /\ q.step \in {"deleteAll", "deleteNext"}
      BY <1>3 DEF DeleteAll, DeleteNext, Dissolve, Refuse
    <2>2. Members(o) \subseteq {q.user} /\ q.user \in Users
      BY <1>1, <2>1 DEF Checked, Handled, Deleting
    <2> QED
      BY <2>2 DEF Goes
  <1>4. CASE DeleteOrganization(r)
    <2>1. q.step = "delete" /\ q.organization = o
      BY <1>4 DEF DeleteOrganization, Dissolve, Refuse
    <2> QED
      BY <1>1, <2>1 DEF Checked, Goes
  <1> QED
    BY <1>2, <1>3, <1>4

LEMMA RevokedStays ==
    ASSUME NEW r, Requests = {r}, AloneInv, [Next]_vars,
           NEW i \in InvitationIds, invitations[i].status = "REVOKED"
    PROVE  invitations'[i].status # "ACCEPTED"
  <1>1. Checked(req[r]) /\ Handled(req[r]) /\ invitations \in [InvitationIds -> Invitation]
    BY DEF AloneInv, RowsInv, TypeOK
  <1>2. CASE Join(r)
    <2>1. CASE UNCHANGED invitations
      BY <2>1
    <2>2. CASE ~(UNCHANGED invitations)
      <3>1. /\ req[r].step \in Joining
            /\ invitations' = [invitations EXCEPT ![req[r].invitation].status = "ACCEPTED"]
        BY <1>2, <2>2 DEF Join, Joining, Refuse
      <3>2. req[r].invitation # i
        BY <1>1, <3>1 DEF Checked
      <3> QED
        BY <1>1, <3>1, <3>2
    <2> QED
      BY <2>1, <2>2
  <1>3. CASE CreateInvitation(r) \/ Revoke(r)
    BY <1>1, <1>3 DEF CreateInvitation, Revoke, Refuse, Invitation
  <1>4. CASE DeleteAll(r) \/ DeleteNext(r) \/ DeleteOrganization(r)
    <2>1. \/ UNCHANGED invitations
          \/ \E gone, leaving : Dissolve(gone, leaving)
      BY <1>4 DEF DeleteAll, DeleteNext, DeleteOrganization, Refuse
    <2> QED
      BY <2>1 DEF Dissolve, NoInvitation
  <1>5. CASE \E j \in InvitationIds : Expire(j)
    BY <1>1, <1>5 DEF Expire, Invitation
  <1>6. CASE UNCHANGED invitations \/ Register(r)
    BY <1>6 DEF Register, Refuse
  <1> QED
    BY <1>2, <1>3, <1>4, <1>5, <1>6, OtherSteps

\* As long as the API serves one request at a time, deleting an account takes only
\* organizations nobody else is in.
THEOREM OnlySoleOrganizationsEverGo ==
    ASSUME NEW one, Requests = {one}
    PROVE  Spec => OnlySoleOrganizationsGo
  <1>1. Spec => []AloneInv
    BY AloneHolds
  <1>2. AloneInv /\ [Next]_vars =>
          [\A o \in organizations \ organizations' :
              \/ \E u \in Users : Members(o) \subseteq {u}
              \/ \E r \in Requests :
                   req[r].op = "deleteOrganization" /\ req[r].organization = o]_vars
    BY OnlySoleGo DEF Goes
  <1> QED
    BY <1>1, <1>2, PTL DEF Spec, OnlySoleOrganizationsGo

\* As long as the API serves one request at a time, a revoked invitation is not accepted.
THEOREM RevokedIsNeverAccepted ==
    ASSUME NEW r, Requests = {r}
    PROVE  Spec => RevokedIsNotAccepted
  <1>1. AloneInv /\ [Next]_vars =>
          [\A i \in InvitationIds : invitations[i].status = "REVOKED"
              => invitations[i].status' # "ACCEPTED"]_vars
    BY RevokedStays
  <1> QED
    BY <1>1, AloneHolds, PTL DEF Spec, RevokedIsNotAccepted
================================================================================
