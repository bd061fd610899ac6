--------------------------- MODULE CollaboratorsPage ---------------------------
(***************************************************************************)
(* The organizer's page of collaborators (collaborators.page.ts): the      *)
(* members of the organization and their roles, the invitations that wait, *)
(* and, for the tournament selected, its administrators.  The API keeps    *)
(* the three tables and asks who is calling (OrganizationsService,         *)
(* InvitationsService, TournamentAdministratorsService).  Nobody else acts *)
(* meanwhile; a member is its e-mail, and is its own row.                  *)
(***************************************************************************)
EXTENDS PageCalls

CONSTANTS
    Me,           \* the organizer in front of the page
    Emails,       \* what may be typed as an e-mail
    Tournaments,
    First,        \* the tournament the list starts with
    KeySets,      \* the permissions the ticks and the two presets may leave
    Given         \* what the API stores at first: one of these

Roles == {"ORG_ADMIN", "ORG_MEMBER"}

Init ==
    /\ server \in Given
    /\ page = [admin |-> server.members[Me] = "ORG_ADMIN", loaded |-> FALSE, members |-> <<>>,
               pending |-> <<>>, inviting |-> FALSE, listed |-> FALSE, selected |-> None,
               loading |-> FALSE, administrators |-> {}, email |-> None, keys |-> {}]
    /\ NoCalls

\* Before the members are there nothing of the page shows.
Ready(c, op) == Click(c, op) /\ page.loaded
IsMember == Me \in DOMAIN server.members
IsAdmin == IsMember /\ server.members[Me] = "ORG_ADMIN"

Without(f, ids) == Restrict(f, DOMAIN f \ ids)

(***************************************************************************)
(* Loading: the members, with the invitations for an administrator, and    *)
(* the tournaments, then the administrators of the first                   *)
(***************************************************************************)
Load(c) ==
    /\ Click(c, "open") /\ ~page.loaded /\ \A d \in Connections : wire[d].op # "load"
    /\ Send(c, [op |-> "load"]) /\ UNCHANGED <<page, server>>

Waiting == {i \in DOMAIN server.invitations : server.invitations[i].pending}
Listed(ids) == [i \in ids |-> [email |-> server.invitations[i].email,
                               role |-> server.invitations[i].role]]

ServeLoad(c) ==
    /\ Serve(c, "load") /\ UNCHANGED server
    /\ Answer(c, [members |-> server.members,
                  pending |-> IF page.admin THEN Listed(Waiting) ELSE <<>>])

GotLoad(c) ==
    /\ Back(c, "load") /\ Hang(c)
    /\ page' = [page EXCEPT !.loaded = TRUE, !.members = wire[c].data.members,
                            !.pending = wire[c].data.pending]

LoadTournaments(c) ==
    /\ Click(c, "open") /\ ~page.listed /\ \A d \in Connections : wire[d].op # "tournaments"
    /\ Send(c, [op |-> "tournaments"]) /\ UNCHANGED <<page, server>>

ServeTournaments(c) ==
    /\ Serve(c, "tournaments")
    /\ \/ IsMember /\ Answer(c, None) /\ UNCHANGED server
       \/ ~IsMember /\ Refuse(c)

\* The first tournament is selected and the handler goes on to its administrators.
GotTournaments(c) ==
    /\ Back(c, "tournaments") /\ Send(c, [op |-> "list", tournament |-> First])
    /\ page' = [page EXCEPT !.listed = TRUE, !.selected = First, !.loading = TRUE]

ServeList(c) ==
    /\ Serve(c, "list")
    /\ \/ /\ IsMember /\ UNCHANGED server
          /\ Answer(c, {a \in server.administrators : a.tournament = wire[c].tournament})
       \/ ~IsMember /\ Refuse(c)

GotList(c) ==
    /\ Back(c, "list") /\ Hang(c)
    /\ page' = [page EXCEPT !.administrators = wire[c].data, !.loading = FALSE]

(***************************************************************************)
(* Members                                                                 *)
(***************************************************************************)
ChangeRole(c) ==
    /\ Ready(c, "role") /\ page.admin /\ UNCHANGED <<page, server>>
    /\ \E m \in DOMAIN page.members : \E role \in Roles \ {page.members[m]} :
          Send(c, [op |-> "role", member |-> m, role |-> role])

\* An administrator who stops being one leaves another.
OthersRemain(m) ==
    server.members[m] = "ORG_ADMIN" =>
        \E n \in DOMAIN server.members \ {m} : server.members[n] = "ORG_ADMIN"

ServeRole(c) ==
    /\ Serve(c, "role")
    /\ LET m == wire[c].member
           allowed == /\ IsAdmin /\ m \in DOMAIN server.members
                      /\ wire[c].role = "ORG_ADMIN" \/ OthersRemain(m)
       IN
       \/ allowed /\ server' = [server EXCEPT !.members[m] = wire[c].role] /\ Answer(c, None)
       \/ ~allowed /\ Refuse(c)

\* Mutant: the select keeps what was chosen, refused or not.
GotRoleAnyway(c) ==
    /\ UNCHANGED <<server, left>> /\ Hang(c)
    /\ wire[c].at \in {"back", "refused"} /\ wire[c].op = "role"
    /\ page' = [page EXCEPT !.members = [m \in DOMAIN @ |-> IF m = wire[c].member
                                                            THEN wire[c].role ELSE @[m]]]

GotRole(c) ==
    /\ Back(c, "role") /\ Hang(c)
    /\ page' = [page EXCEPT !.members = [m \in DOMAIN @ |-> IF m = wire[c].member
                                                            THEN wire[c].role ELSE @[m]]]

RemoveMember(c) ==
    /\ Ready(c, "remove") /\ page.admin /\ UNCHANGED <<page, server>>
    /\ \E m \in DOMAIN page.members :
          Send(c, [op |-> "remove", member |-> m, shown |-> page.members])

\* The tournaments a removed member administers keep it.
ServeRemove(c) ==
    /\ Serve(c, "remove")
    /\ LET m == wire[c].member
           allowed == IsAdmin /\ m \in DOMAIN server.members /\ OthersRemain(m)
       IN
       \/ allowed /\ server' = [server EXCEPT !.members = Without(@, {m})] /\ Answer(c, None)
       \/ ~allowed /\ Refuse(c)

\* Mutant: the list is the one of the click, without the member.
GotRemovedFromThen(c) ==
    /\ Back(c, "remove") /\ Hang(c)
    /\ page' = [page EXCEPT !.members = Without(wire[c].shown, {wire[c].member})]

GotRemoved(c) ==
    /\ Back(c, "remove") /\ Hang(c)
    /\ page' = [page EXCEPT !.members = Without(@, {wire[c].member})]

(***************************************************************************)
(* Invitations                                                             *)
(***************************************************************************)
Invite(c) ==
    /\ Ready(c, "invite") /\ page.admin /\ ~page.inviting
    /\ page' = [page EXCEPT !.inviting = TRUE]
    /\ \E email \in Emails, role \in Roles :
          Send(c, [op |-> "invite", email |-> email, role |-> role])
    /\ UNCHANGED server

ServeInvite(c) ==
    /\ Serve(c, "invite")
    /\ LET email == wire[c].email
           id == server.last + 1
           allowed == /\ IsAdmin /\ email \notin DOMAIN server.members
                      /\ \A i \in Waiting : server.invitations[i].email # email
           row == [email |-> email, role |-> wire[c].role]
       IN
       \/ /\ allowed /\ Answer(c, [id |-> id, row |-> row])
          /\ server' = [server EXCEPT !.last = id,
                          !.invitations = (id :> ([pending |-> TRUE] @@ row)) @@ @]
       \/ ~allowed /\ Refuse(c)

GotInvite(c) ==
    /\ Back(c, "invite") /\ Hang(c)
    /\ page' = [page EXCEPT !.inviting = FALSE,
                            !.pending = (wire[c].data.id :> wire[c].data.row) @@ @]

Revoke(c) ==
    /\ Ready(c, "revoke") /\ page.admin /\ UNCHANGED <<page, server>>
    /\ \E i \in DOMAIN page.pending : Send(c, [op |-> "revoke", id |-> i])

ServeRevoke(c) ==
    /\ Serve(c, "revoke")
    /\ \/ /\ IsAdmin /\ Answer(c, None)
          /\ server' = [server EXCEPT !.invitations[wire[c].id].pending = FALSE]
       \/ ~IsAdmin /\ Refuse(c)

GotRevoke(c) ==
    /\ Back(c, "revoke") /\ Hang(c)
    /\ page' = [page EXCEPT !.pending = Without(@, {wire[c].id})]

(***************************************************************************)
(* The administrators of the tournament selected                           *)
(***************************************************************************)
\* The list of the tournament left stays until the other's is there.
SelectTournament(c) ==
    /\ Ready(c, "select") /\ page.listed /\ UNCHANGED server
    /\ \E t \in Tournaments \ {page.selected} :
       /\ page' = [page EXCEPT !.selected = t, !.email = None, !.keys = {}, !.loading = TRUE]
       /\ Send(c, [op |-> "list", tournament |-> t])

Type ==
    /\ Spend("type") /\ page.loaded /\ page.listed /\ ~page.loading /\ UNCHANGED <<server, wire>>
    /\ \E email \in Emails, keys \in KeySets :
          page' = [page EXCEPT !.email = email, !.keys = keys]

AddAdministrator(c) ==
    /\ Ready(c, "add") /\ page.listed /\ ~page.loading /\ page.email # None
    /\ Send(c, [op |-> "add", tournament |-> page.selected, email |-> page.email, keys |-> page.keys])
    /\ UNCHANGED <<page, server>>

ServeAdd(c) ==
    /\ Serve(c, "add")
    /\ LET t == wire[c].tournament
           email == wire[c].email
           row == [id |-> server.last + 1, tournament |-> t, user |-> email, keys |-> wire[c].keys]
           allowed == /\ IsAdmin /\ email \in DOMAIN server.members
                      /\ \A a \in server.administrators : ~(a.tournament = t /\ a.user = email)
       IN
       \/ /\ allowed /\ Answer(c, row)
          /\ server' = [server EXCEPT !.administrators = @ \cup {row}, !.last = row.id]
       \/ ~allowed /\ Refuse(c)

\* The fields are emptied, whatever was typed in them meanwhile.
GotAdded(c) ==
    /\ Back(c, "add") /\ Hang(c)
    /\ page' = [page EXCEPT !.administrators = @ \cup {wire[c].data}, !.email = None, !.keys = {}]

RemoveAdministrator(c) ==
    /\ Ready(c, "dismiss") /\ page.listed /\ ~page.loading /\ UNCHANGED <<page, server>>
    /\ \E a \in page.administrators :
          Send(c, [op |-> "dismiss", tournament |-> page.selected, id |-> a.id])

\* Mutant: the row is looked up by its id alone.
RowsAnywhere(t, id) == {a \in server.administrators : a.id = id}

RowsOf(t, id) == {a \in server.administrators : a.id = id /\ a.tournament = t}

ServeDismiss(c) ==
    /\ Serve(c, "dismiss")
    /\ LET rows == RowsOf(wire[c].tournament, wire[c].id) IN
       \/ /\ IsAdmin /\ rows # {} /\ Answer(c, None)
          /\ server' = [server EXCEPT !.administrators = @ \ rows]
       \/ ~(IsAdmin /\ rows # {}) /\ Refuse(c)

GotDismissed(c) ==
    /\ Back(c, "dismiss") /\ Hang(c)
    /\ page' = [page EXCEPT !.administrators = {a \in @ : a.id # wire[c].id}]

\* A refusal is a message, and puts back what the call had disabled.
GotRefusal(c) ==
    /\ Refused(c) /\ Hang(c)
    /\ page' = [page EXCEPT !.inviting = @ /\ wire[c].op # "invite",
                            !.loading = @ /\ wire[c].op # "list"]

Next ==
    \/ Type
    \/ \E c \in Connections :
       \/ Load(c) \/ ServeLoad(c) \/ GotLoad(c)
       \/ LoadTournaments(c) \/ ServeTournaments(c) \/ GotTournaments(c)
       \/ ServeList(c) \/ GotList(c) \/ GotRefusal(c)
       \/ ChangeRole(c) \/ ServeRole(c) \/ GotRole(c)
       \/ RemoveMember(c) \/ ServeRemove(c) \/ GotRemoved(c)
       \/ Invite(c) \/ ServeInvite(c) \/ GotInvite(c)
       \/ Revoke(c) \/ ServeRevoke(c) \/ GotRevoke(c)
       \/ SelectTournament(c)
       \/ AddAdministrator(c) \/ ServeAdd(c) \/ GotAdded(c)
       \/ RemoveAdministrator(c) \/ ServeDismiss(c) \/ GotDismissed(c)

Spec == Init /\ [][Next]_vars

--------------------------------------------------------------------------------
ShownAsStored ==
    /\ page.members = server.members
    /\ page.admin => page.pending = Listed(Waiting)
    /\ page.listed => page.administrators =
                        {a \in server.administrators : a.tournament = page.selected}

\* When no call is in flight the members, their roles, the invitations and the
\* administrators shown are those stored, refusals included, as long as the
\* organizer has not removed itself (changeRole, removeMember, addAdministrator).
RestingCollaboratorsAreTrue == page.loaded /\ AtRest /\ IsMember => ShownAsStored

\* However answers cross, once they are in the page misses no member and shows none
\* removed; nor does it with the invitations (removeMember, invite, revokeInvitation).
CollaboratorsConverge ==
    page.loaded /\ AtRest =>
        /\ DOMAIN page.members = DOMAIN server.members
        /\ page.admin => page.pending = Listed(Waiting)

\* An administrator leaves only the tournament that was selected when its row was
\* clicked, though the list then shown may be another tournament's (getOrThrow).
OnlyTheSelectedLoses ==
    [][\A a \in server.administrators \ server'.administrators :
          \E c \in Connections : /\ wire[c].op = "dismiss" /\ wire[c].id = a.id
                                 /\ wire[c].tournament = a.tournament]_vars
================================================================================
