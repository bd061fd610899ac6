----------------------------- MODULE OtherSessions ------------------------------
(***************************************************************************)
(* The two other services that keep sessions the same way, each with its   *)
(* own tables: the players' accounts (PlayerAuthService), where a          *)
(* registration opens a session at once, there is no email to verify and   *)
(* no password reset; and the super-admins' (SuperAdminAuthService),       *)
(* created by hand, never registered, and deleted by their owner unless it *)
(* is the last one.                                                        *)
(***************************************************************************)
EXTENDS RefreshTokens

(***************************************************************************)
(* The players                                                             *)
(***************************************************************************)
PlayersInit == TokenInit({"none"})

\* register: no account has the email, then the unique index decides.
StartRegister(r) == \E a \in Accounts :
    Accept(r, [Idle EXCEPT !.op = "register", !.step = "findEmail", !.account = a])

FindEmail(r) ==
    /\ req[r].step = "findEmail"
    /\ \/ /\ account[req[r].account].state = "none"
          /\ Goto(r, "create")
          /\ UNCHANGED <<account, tokens, jar, calls, failures>>
       \/ account[req[r].account].state # "none" /\ Refuse(r)

CreateAccount(r) ==
    /\ req[r].step = "create"
    /\ \/ /\ account[req[r].account].state = "none"
          /\ account' = [account EXCEPT ![req[r].account].state = "active"]
          /\ Goto(r, "issue")
          /\ UNCHANGED <<tokens, jar, calls, failures>>
       \/ account[req[r].account].state # "none" /\ Refuse(r)

PlayerLogin(r) == CheckPassword(r, TRUE)

PlayerRefresh(r) == FindToken(r) \/ RevokeFamily(r) \/ Rotate(r)

PlayerLogout(r) == RevokeToken(r) \/ ClearCookie(r)

PlayerIssue(r) == IssueToken(r) \/ SetCookie(r)

PlayerProceed(r) ==
    \/ FindEmail(r) \/ CreateAccount(r)
    \/ PlayerLogin(r) \/ PlayerIssue(r) \/ PlayerRefresh(r) \/ PlayerLogout(r)

PlayersNext ==
    \/ \E r \in Requests : StartSession(r) \/ StartRegister(r) \/ PlayerProceed(r) \/ Fail(r)
    \/ \E t \in Tokens : Expire(t)

(***************************************************************************)
(* The super-admins                                                        *)
(***************************************************************************)
AdminsInit == TokenInit({"active"})

AdminLogin(r) == CheckPassword(r, TRUE)

AdminRefresh(r) == FindToken(r) \/ RevokeFamily(r) \/ Rotate(r)

AdminLogout(r) == RevokeToken(r) \/ ClearCookie(r)

AdminIssue(r) == IssueToken(r) \/ SetCookie(r)

\* deleteAccount: count the other accounts, then delete this one, and the
\* controller clears the cookie.
StartDelete(r) == \E a \in Accounts :
    Active(a) /\ Accept(r, [Idle EXCEPT !.op = "deleteAccount", !.step = "count",
                                        !.account = a])

OtherAccounts(a) == {b \in Accounts \ {a} : Active(b)}

\* Mutant: the account itself is counted.
CountAccounts(r) ==
    LET a == req[r].account IN
    /\ req[r].step = "count"
    /\ \/ /\ Active(a)
          /\ Goto(r, "delete")
          /\ UNCHANGED <<account, tokens, jar, calls, failures>>
       \/ ~Active(a) /\ Refuse(r)

CountOthers(r) ==
    LET a == req[r].account IN
    /\ req[r].step = "count"
    /\ \/ /\ Active(a) /\ OtherAccounts(a) # {}
          /\ Goto(r, "delete")
          /\ UNCHANGED <<account, tokens, jar, calls, failures>>
       \/ ~(Active(a) /\ OtherAccounts(a) # {}) /\ Refuse(r)

Delete(r) ==
    LET a == req[r].account IN
    /\ req[r].step = "delete"
    /\ \/ /\ Active(a)
          /\ DeleteAccount(a)
          /\ Goto(r, "clear")
          /\ UNCHANGED <<jar, calls, failures>>
       \/ ~Active(a) /\ Refuse(r)

AdminProceed(r) ==
    \/ AdminLogin(r) \/ AdminIssue(r) \/ AdminRefresh(r) \/ AdminLogout(r)
    \/ CountOthers(r) \/ Delete(r)

AdminsNext ==
    \/ \E r \in Requests : StartSession(r) \/ StartDelete(r) \/ AdminProceed(r) \/ Fail(r)
    \/ \E t \in Tokens : Expire(t)

--------------------------------------------------------------------------------
(***************************************************************************)
(* Properties                                                              *)
(***************************************************************************)

\* super-admin-auth.service.ts:143 "deleting the last one would leave the whole
\* platform with nobody able to log into the super-admin dashboard -- blocked"
\* (deleteAccount).
SomeoneIsSuperAdmin == \E a \in Accounts : Active(a)
================================================================================
