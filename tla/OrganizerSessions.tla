--------------------------- MODULE OrganizerSessions ---------------------------
(***************************************************************************)
(* The organizers' accounts (AuthService): registration, verification of   *)
(* the email by a mailed link, password reset by another, deletion, and    *)
(* the account an invitation creates, above the refresh tokens.            *)
(***************************************************************************)
EXTENDS RefreshTokens

VARIABLES
    verified,    \* accounts whose emailVerifiedAt is set
    verifyLink,  \* per account: the link emailVerificationTokenHash stands for, or 0
    resetLink,   \* per account: the link passwordResetTokenHash stands for, or 0
    mailed       \* per account: how many links were mailed to it

mailVars == <<verified, verifyLink, resetLink, mailed>>

vars == <<tokenVars, mailVars>>

Init ==
    /\ TokenInit({"none", "active"})
    /\ verified = {a \in Accounts : Active(a)}
    /\ verifyLink = [a \in Accounts |-> 0]
    /\ resetLink = [a \in Accounts |-> 0]
    /\ mailed = [a \in Accounts |-> 0]

Call(r, a, op, step) == Accept(r, [Idle EXCEPT !.op = op, !.step = step, !.account = a])

\* The step is over and the mails are as they were.
Reject(r) == Refuse(r) /\ UNCHANGED mailVars

Continue(r, step) ==
    /\ Goto(r, step)
    /\ UNCHANGED <<account, tokens, jar, calls, failures, mailVars>>

Awaits(r, op, step) == req[r].op = op /\ req[r].step = step

(***************************************************************************)
(* register, and the new account of InvitationsService.accept: no account  *)
(* has the email, then the unique index decides.  Only the first mails a   *)
(* link, only the second opens a session at once.                          *)
(***************************************************************************)
StartRegister(r) == \E a \in Accounts, op \in {"register", "acceptInvitation"} :
    Call(r, a, op, "findEmail") /\ UNCHANGED mailVars

FindEmail(r) ==
    /\ req[r].step = "findEmail"
    /\ \/ account[req[r].account].state = "none" /\ Continue(r, "create")
       \/ account[req[r].account].state # "none" /\ Reject(r)

CreateAccount(r) ==
    LET a == req[r].account IN
    /\ req[r].step = "create"
    /\ \/ /\ account[a].state = "none"
          /\ account' = [account EXCEPT ![a].state = "active"]
          /\ \/ /\ req[r].op = "register"
                /\ mailed' = [mailed EXCEPT ![a] = @ + 1]
                /\ verifyLink' = [verifyLink EXCEPT ![a] = mailed[a] + 1]
                /\ Finish(r)
             \/ /\ req[r].op = "acceptInvitation"
                /\ Goto(r, "issue")
                /\ UNCHANGED <<mailed, verifyLink>>
          /\ UNCHANGED <<tokens, jar, calls, failures, verified, resetLink>>
       \/ account[a].state # "none" /\ Reject(r)

(***************************************************************************)
(* verifyEmail: find the account by its link, then mark it verified and    *)
(* forget the link, whichever it is by then, and open a session.           *)
(***************************************************************************)
StartVerify(r) == \E a \in Accounts : \E l \in 1 .. mailed[a] :
    /\ Accept(r, [Idle EXCEPT !.op = "verifyEmail", !.step = "findLink", !.account = a,
                              !.link = l])
    /\ UNCHANGED mailVars

FindVerification(r) ==
    LET a == req[r].account IN
    /\ Awaits(r, "verifyEmail", "findLink")
    /\ \/ Active(a) /\ verifyLink[a] = req[r].link /\ Continue(r, "write")
       \/ ~(Active(a) /\ verifyLink[a] = req[r].link) /\ Reject(r)

\* Mutant: the link is still good after its use.
VerifyKeepingLink(r) ==
    LET a == req[r].account IN
    /\ Awaits(r, "verifyEmail", "write")
    /\ verified' = verified \cup {a}
    /\ req' = [req EXCEPT ![r].step = "issue", ![r].since = account[a].password]
    /\ UNCHANGED <<account, tokens, jar, calls, failures, verifyLink, resetLink, mailed>>

Verify(r) ==
    LET a == req[r].account IN
    /\ Awaits(r, "verifyEmail", "write")
    /\ \/ /\ Active(a)
          /\ verified' = verified \cup {a}
          /\ verifyLink' = [verifyLink EXCEPT ![a] = 0]
          /\ req' = [req EXCEPT ![r].step = "issue", ![r].since = account[a].password]
          /\ UNCHANGED <<account, tokens, jar, calls, failures, resetLink, mailed>>
       \/ ~Active(a) /\ Reject(r)

\* SuperAdminUsersService.verifyEmail: support verifies the account, without a session.
StartSupportVerify(r) == \E a \in Accounts :
    Call(r, a, "supportVerify", "findLink") /\ UNCHANGED mailVars

FindUnverified(r) ==
    LET a == req[r].account IN
    /\ req[r].op \in {"supportVerify", "resend"} /\ req[r].step = "findLink"
    /\ \/ Active(a) /\ a \notin verified /\ Continue(r, "write")
       \/ ~(Active(a) /\ a \notin verified) /\ Reject(r)

SupportVerify(r) ==
    LET a == req[r].account IN
    /\ Awaits(r, "supportVerify", "write")
    /\ \/ /\ Active(a)
          /\ verified' = verified \cup {a}
          /\ verifyLink' = [verifyLink EXCEPT ![a] = 0]
          /\ Finish(r)
          /\ UNCHANGED <<account, tokens, jar, calls, failures, resetLink, mailed>>
       \/ ~Active(a) /\ Reject(r)

(***************************************************************************)
(* resendVerificationEmail and requestPasswordReset: find the account, then*)
(* a new link replaces the one before it.                                  *)
(***************************************************************************)
StartResend(r) == \E a \in Accounts :
    Call(r, a, "resend", "findLink") /\ UNCHANGED mailVars

Resend(r) ==
    LET a == req[r].account IN
    /\ Awaits(r, "resend", "write")
    /\ \/ /\ Active(a)
          /\ mailed' = [mailed EXCEPT ![a] = @ + 1]
          /\ verifyLink' = [verifyLink EXCEPT ![a] = mailed[a] + 1]
          /\ Finish(r)
          /\ UNCHANGED <<account, tokens, jar, calls, failures, verified, resetLink>>
       \/ ~Active(a) /\ Reject(r)

StartRequestReset(r) == \E a \in Accounts :
    Call(r, a, "requestReset", "findLink") /\ UNCHANGED mailVars

FindAccount(r) ==
    /\ Awaits(r, "requestReset", "findLink")
    /\ \/ Active(req[r].account) /\ Continue(r, "write")
       \/ ~Active(req[r].account) /\ Reject(r)

RequestReset(r) ==
    LET a == req[r].account IN
    /\ Awaits(r, "requestReset", "write")
    /\ \/ /\ Active(a)
          /\ mailed' = [mailed EXCEPT ![a] = @ + 1]
          /\ resetLink' = [resetLink EXCEPT ![a] = mailed[a] + 1]
          /\ Finish(r)
          /\ UNCHANGED <<account, tokens, jar, calls, failures, verified, verifyLink>>
       \/ ~Active(a) /\ Reject(r)

(***************************************************************************)
(* resetPassword: find the account by its link, then one transaction sets  *)
(* the password, forgets the link and revokes the account's tokens.        *)
(***************************************************************************)
StartReset(r) == \E a \in Accounts : \E l \in 1 .. mailed[a] :
    /\ Accept(r, [Idle EXCEPT !.op = "resetPassword", !.step = "findLink", !.account = a,
                              !.link = l])
    /\ UNCHANGED mailVars

FindReset(r) ==
    LET a == req[r].account IN
    /\ Awaits(r, "resetPassword", "findLink")
    /\ \/ Active(a) /\ resetLink[a] = req[r].link /\ Continue(r, "write")
       \/ ~(Active(a) /\ resetLink[a] = req[r].link) /\ Reject(r)

\* Mutant: the sessions survive the new password.
ResetPasswordOnly(r) ==
    LET a == req[r].account IN
    /\ Awaits(r, "resetPassword", "write")
    /\ account' = [account EXCEPT ![a].password = @ + 1]
    /\ resetLink' = [resetLink EXCEPT ![a] = 0]
    /\ Finish(r)
    /\ UNCHANGED <<tokens, jar, calls, failures, verified, verifyLink, mailed>>

ResetPassword(r) ==
    LET a == req[r].account IN
    /\ Awaits(r, "resetPassword", "write")
    /\ \/ /\ Active(a)
          /\ account' = [account EXCEPT ![a].password = @ + 1]
          /\ resetLink' = [resetLink EXCEPT ![a] = 0]
          /\ RevokeAll({t \in Tokens : tokens[t].account = a})
          /\ Finish(r)
          /\ UNCHANGED <<jar, calls, failures, verified, verifyLink, mailed>>
       \/ ~Active(a) /\ Reject(r)

\* deleteAccount, once its organizations allow it: the account and its tokens go.
StartDelete(r) == \E a \in Accounts :
    Active(a) /\ Call(r, a, "deleteAccount", "delete") /\ UNCHANGED mailVars

Delete(r) ==
    LET a == req[r].account IN
    /\ Awaits(r, "deleteAccount", "delete")
    /\ \/ /\ Active(a)
          /\ DeleteAccount(a)
          /\ Goto(r, "clear")
          /\ UNCHANGED <<jar, calls, failures, mailVars>>
       \/ ~Active(a) /\ Reject(r)

\* A link is too old: it is refused as if it were forgotten.
ExpireLink(a) ==
    /\ Spend("expireLink")
    /\ \/ verifyLink[a] # 0 /\ verifyLink' = [verifyLink EXCEPT ![a] = 0] /\ UNCHANGED resetLink
       \/ resetLink[a] # 0 /\ resetLink' = [resetLink EXCEPT ![a] = 0] /\ UNCHANGED verifyLink
    /\ UNCHANGED <<account, tokens, jar, req, failures, verified, mailed>>

Login(r) ==
    /\ req[r].step = "check"
    /\ CheckPassword(r, req[r].account \in verified)
    /\ UNCHANGED mailVars

Start(r) ==
    \/ StartSession(r) /\ UNCHANGED mailVars
    \/ StartRegister(r) \/ StartVerify(r) \/ StartSupportVerify(r) \/ StartResend(r)
    \/ StartRequestReset(r) \/ StartReset(r) \/ StartDelete(r)

Proceed(r) ==
    \/ ProceedSession(r) /\ UNCHANGED mailVars
    \/ Login(r) \/ FindEmail(r) \/ CreateAccount(r)
    \/ FindVerification(r) \/ Verify(r) \/ FindUnverified(r) \/ SupportVerify(r)
    \/ Resend(r) \/ FindAccount(r) \/ RequestReset(r)
    \/ FindReset(r) \/ ResetPassword(r) \/ Delete(r)

Next ==
    \/ \E r \in Requests : Start(r) \/ Proceed(r) \/ (Fail(r) /\ UNCHANGED mailVars)
    \/ \E t \in Tokens : Expire(t) /\ UNCHANGED mailVars
    \/ \E a \in Accounts : ExpireLink(a)

Spec == Init /\ [][Next]_vars

--------------------------------------------------------------------------------
(***************************************************************************)
(* Properties                                                              *)
(***************************************************************************)

TypeOK ==
    /\ TokensTypeOK
    /\ verified \subseteq Accounts
    /\ verifyLink \in [Accounts -> Nat]
    /\ resetLink \in [Accounts -> Nat]
    /\ mailed \in [Accounts -> Nat]

\* auth.service.ts:130 "The account only becomes usable once verifyEmail() confirms
\* the address": an account with a session is verified (login, verifyEmail, accept).
SessionsAreVerified ==
    \A t \in Tokens : Unrevoked(t) => tokens[t].account \in verified

\* auth.service.ts:155 "Consumes a verification token (single use ...)": a mailed
\* link opens at most one session.
LinkOpensOneSession ==
    \A t, u \in Tokens :
        /\ tokens[t].link # 0 /\ tokens[t].link = tokens[u].link
        /\ tokens[t].account = tokens[u].account
        => tokens[t].family = tokens[u].family
================================================================================
