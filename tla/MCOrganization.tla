----------------------------- MODULE MCOrganization -----------------------------
(***************************************************************************)
(* The members of organizations and the administrators of a tournament     *)
(* checked in one run.  A behaviour is of one part: the members in the     *)
(* scenario the constants give, two organizations served one request at a  *)
(* time, the administrators, or the administrators served one request at a *)
(* time.  The variables of the other services stay as they began.          *)
(***************************************************************************)
EXTENDS Membership, TLC

CONSTANTS
    FewUsers,            \* the accounts of every part but the first
    TwoOrganizations,    \* those of the part "single"
    OneRequest,          \* the request of the parts served one at a time
    MoreCalls,           \* bound: the calls of one behaviour there
    Permissions,
    PermissionSets

VARIABLES
    members, administrator,   \* those of TournamentAdministrators
    part

AllCalls == {"register", "changeRole", "removeMember", "invite", "revoke", "accept",
             "deleteAccount", "deleteUser", "deleteOrganization", "expire"}
PermissionCalls == {"add", "update", "remove", "leave", "enter"}

\* The main scenario has one organization, this one two, and one request at a time.
Single == INSTANCE Membership WITH
    Users <- FewUsers, Organizations <- TwoOrganizations, Requests <- {OneRequest},
    MaxCalls <- MoreCalls

Grants == INSTANCE TournamentAdministrators WITH
    Users <- FewUsers, Operations <- PermissionCalls

OneGrant == INSTANCE TournamentAdministrators WITH
    Users <- FewUsers, Operations <- PermissionCalls, Requests <- {OneRequest},
    MaxCalls <- MoreCalls, MaxFailures <- 0

ASSUME PartBounds == MoreCalls \in Nat /\ Grants!Sets

ASSUME NoneIsNoPart == None \notin FewUsers /\ None \notin TwoOrganizations

UserSymmetry == Permutations(FewUsers)

NoGrants == members = {} /\ administrator = [u \in FewUsers |-> Grants!Nobody]

NoOrganization ==
    /\ users = {}
    /\ organizations = {}
    /\ member = << >>
    /\ invitations = << >>

grantVars == <<members, administrator>>
memberVars == <<users, organizations, member, invitations>>

MCInit ==
    \/ part = "members" /\ Init /\ NoGrants
    \/ part = "single" /\ Single!Init /\ NoGrants
    \/ part = "grants" /\ Grants!Init /\ NoOrganization
    \/ part = "oneGrant" /\ OneGrant!Init /\ NoOrganization

MCNext ==
    /\ \/ part = "members" /\ Next /\ UNCHANGED grantVars
       \/ part = "single" /\ Single!Next /\ UNCHANGED grantVars
       \/ part = "grants" /\ Grants!Next /\ UNCHANGED memberVars
       \/ part = "oneGrant" /\ OneGrant!Next /\ UNCHANGED memberVars
    /\ UNCHANGED part

MCSpec == MCInit /\ [][MCNext]_<<vars, grantVars, part>>

\* TypeOK and NothingDangles of the members, NoOrphanGrant of the administrators: no row
\* outlives the row it hangs on, whatever interleaves (deleteUser, accept, and remove
\* against updatePermissions).
RowsDoNotDangle ==
    /\ part = "members" => TypeOK /\ NothingDangles
    /\ part = "grants" => Grants!NoOrphanGrant

\* One request at a time and none lost: AdministratorRemains (changeRole, removeMember,
\* deleteUser), OnePendingInvitation (invite), PermissionsAsAsked (updatePermissions).
RowsAsAskedAlone ==
    /\ part = "single" => Single!AdministratorRemains /\ Single!OnePendingInvitation
    /\ part = "oneGrant" => OneGrant!PermissionsAsAsked

\* OnlySoleOrganizationsGo and RevokedIsNotAccepted, one request at a time: an account
\* takes only organizations nobody else is in, and an invitation revoked is not accepted
\* (deleteAccount, deleteUser, revoke, accept).
DeletionsAndAnswersStandAlone ==
    [][part = "single" =>
          /\ \A o \in organizations \ organizations' :
                \/ \E u \in FewUsers : Single!Members(o) \subseteq {u}
                \/ /\ req[OneRequest].op = "deleteOrganization"
                   /\ req[OneRequest].organization = o
          /\ \A i \in Single!InvitationIds :
                invitations[i].status = "REVOKED" => invitations[i].status' # "ACCEPTED"]_vars
================================================================================
