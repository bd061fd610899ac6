----------------------------- MODULE RefreshTokens -----------------------------
(***************************************************************************)
(* Refresh tokens, as the organizers', the players' and the super-admins'  *)
(* services all keep them: a login opens a family, each refresh exchanges  *)
(* the family's token for a new one, and a token presented again after its *)
(* exchange revokes the family.  Each account has one browser, whose tabs  *)
(* share one httpOnly cookie.  A handler is a sequence of steps, one per   *)
(* awaited query.  The modules that extend this one say which calls each   *)
(* of the three services has, and compose the specification.               *)
(***************************************************************************)
EXTENDS Integers

CONSTANTS
    Accounts,     \* the rows of the account table that may come to exist
    Requests,     \* the requests the API serves concurrently
    OneTab,       \* does a browser wait for an answer before it asks again?
    Operations,   \* the calls and outside events considered
    MaxCalls,     \* bound: calls and outside events in one behaviour
    MaxFailures,  \* bound: requests lost half-way
    None          \* no account

ASSUME Bounds == OneTab \in BOOLEAN /\ MaxCalls \in Nat /\ MaxFailures \in Nat

ASSUME NoneIsNoAccount == None \notin Accounts

VARIABLES
    account,   \* per account: does its row exist, how often its password changed
    tokens,    \* the refresh token rows
    jar,       \* per account: the token in the cookie of its browser, or 0
    req,       \* what each request in flight does next, and for what
    calls,     \* calls still to come
    failures   \* requests lost so far

tokenVars == <<account, tokens, jar, req, calls, failures>>

\* A call issues at most one token.
Tokens == 1 .. MaxCalls

AccountRow == [state : {"none", "active", "deleted"}, password : Nat]

\* family: the first token of the login this one descends from; since: the password
\* of that login; link: the mailed link that opened it, or 0.
NoToken == [account |-> None, family |-> 0, status |-> "none", since |-> 0, link |-> 0]

TokenRow == [account : Accounts \cup {None}, family : Tokens \cup {0},
             status : {"none", "valid", "expired", "revoked", "deleted"},
             since : Nat, link : Nat]

Steps == {"idle", "check", "issue", "respond", "find", "revokeFamily", "rotate", "revoke",
          "clear", "findEmail", "create", "findLink", "write", "count", "delete"}

Idle == [op |-> "none", step |-> "idle", account |-> None, token |-> 0, since |-> 0,
         link |-> 0]

Request == [op : Operations \cup {"none"}, step : Steps, account : Accounts \cup {None},
            token : Tokens \cup {0}, since : Nat, link : Nat]

Unrevoked(t) == tokens[t].status \in {"valid", "expired"}

Active(a) == account[a].state = "active"

TokenInit(states) ==
    /\ account \in [Accounts -> [state : states, password : {0}]]
    /\ tokens = [t \in Tokens |-> NoToken]
    /\ jar = [a \in Accounts |-> 0]
    /\ req = [r \in Requests |-> Idle]
    /\ calls = MaxCalls
    /\ failures = 0

Spend(op) == op \in Operations /\ calls > 0 /\ calls' = calls - 1

\* A browser sends a request.
Accept(r, state) ==
    /\ Spend(state.op)
    /\ req[r].step = "idle"
    /\ OneTab => \A q \in Requests : req[q].account # state.account
    /\ req' = [req EXCEPT ![r] = state]
    /\ UNCHANGED <<account, tokens, jar, failures>>

Goto(r, step) == req' = [req EXCEPT ![r].step = step]

Finish(r) == req' = [req EXCEPT ![r] = Idle]

\* The handler throws: nothing is written and no cookie is set.
Refuse(r) == Finish(r) /\ UNCHANGED <<account, tokens, jar, calls, failures>>

(***************************************************************************)
(* login, then issueTokenPair, which every other way to a session shares.  *)
(***************************************************************************)
StartLogin(r) == \E a \in Accounts :
    Accept(r, [Idle EXCEPT !.op = "login", !.step = "check", !.account = a])

\* Mutant: nobody asks whether the account allows a login.
CheckPasswordOnly(r, allowed) ==
    LET a == req[r].account IN
    /\ req[r].step = "check"
    /\ \/ /\ Active(a)
          /\ req' = [req EXCEPT ![r].step = "issue", ![r].since = account[a].password]
          /\ UNCHANGED <<account, tokens, jar, calls, failures>>
       \/ ~Active(a) /\ Refuse(r)

\* The account exists and allows a login, and the password is its own.
CheckPassword(r, allowed) ==
    LET a == req[r].account IN
    /\ req[r].step = "check"
    /\ \/ /\ Active(a) /\ allowed
          /\ req' = [req EXCEPT ![r].step = "issue", ![r].since = account[a].password]
          /\ UNCHANGED <<account, tokens, jar, calls, failures>>
       \/ ~(Active(a) /\ allowed) /\ Refuse(r)

Fresh(t) ==
    /\ tokens[t] = NoToken
    /\ \A u \in Tokens : u < t => tokens[u] # NoToken

\* Mutant: the token's userId is another row's.
IssueTokenToRequest(r) ==
    /\ req[r].step = "issue"
    /\ \E t \in Tokens :
          /\ Fresh(t)
          /\ tokens' = [tokens EXCEPT ![t] =
                [account |-> r, family |-> t, status |-> "valid",
                 since |-> req[r].since, link |-> req[r].link]]
          /\ req' = [req EXCEPT ![r].step = "respond", ![r].token = t]
          /\ UNCHANGED <<account, jar, calls, failures>>

IssueToken(r) ==
    LET a == req[r].account IN
    /\ req[r].step = "issue"
    /\ \/ \E t \in Tokens :
          /\ Active(a) /\ Fresh(t)
          /\ tokens' = [tokens EXCEPT ![t] =
                [account |-> a, family |-> t, status |-> "valid",
                 since |-> req[r].since, link |-> req[r].link]]
          /\ req' = [req EXCEPT ![r].step = "respond", ![r].token = t]
          /\ UNCHANGED <<account, jar, calls, failures>>
       \/ ~Active(a) /\ Refuse(r)

\* Mutant: only a login's answer carries the cookie.
SetCookieAtLogin(r) ==
    /\ req[r].step = "respond"
    /\ jar' = IF req[r].op = "refresh" THEN jar
              ELSE [jar EXCEPT ![req[r].account] = req[r].token]
    /\ Finish(r)
    /\ UNCHANGED <<account, tokens, calls, failures>>

\* setRefreshCookie: the answer reaches the browser.
SetCookie(r) ==
    /\ req[r].step = "respond"
    /\ jar' = [jar EXCEPT ![req[r].account] = req[r].token]
    /\ Finish(r)
    /\ UNCHANGED <<account, tokens, calls, failures>>

(***************************************************************************)
(* refresh: find the presented token; a revoked one revokes its family, an *)
(* unrevoked and unexpired one is exchanged in a transaction that does not *)
(* look at it again.                                                       *)
(***************************************************************************)
StartRefresh(r) == \E a \in Accounts :
    /\ jar[a] # 0
    /\ Accept(r, [Idle EXCEPT !.op = "refresh", !.step = "find", !.account = a,
                              !.token = jar[a]])

\* Mutant: revokedAt is not looked at.
FindTokenByDate(r) ==
    LET status == tokens[req[r].token].status IN
    /\ req[r].step = "find"
    /\ \/ /\ status \in {"valid", "revoked"}
          /\ Goto(r, "rotate")
          /\ UNCHANGED <<account, tokens, jar, calls, failures>>
       \/ status \notin {"valid", "revoked"} /\ Refuse(r)

FindToken(r) ==
    LET status == tokens[req[r].token].status IN
    /\ req[r].step = "find"
    /\ \/ /\ status = "revoked"
          /\ Goto(r, "revokeFamily")
          /\ UNCHANGED <<account, tokens, jar, calls, failures>>
       \/ /\ status = "valid"
          /\ Goto(r, "rotate")
          /\ UNCHANGED <<account, tokens, jar, calls, failures>>
       \/ status \notin {"valid", "revoked"} /\ Refuse(r)

RevokeAll(revoked) ==
    tokens' = [t \in Tokens |-> IF t \in revoked /\ Unrevoked(t)
                                THEN [tokens[t] EXCEPT !.status = "revoked"]
                                ELSE tokens[t]]

Family(f) == {t \in Tokens : tokens[t].family = f}

RevokeFamily(r) ==
    /\ req[r].step = "revokeFamily"
    /\ RevokeAll(Family(tokens[req[r].token].family))
    /\ Finish(r)
    /\ UNCHANGED <<account, jar, calls, failures>>

Rotate(r) ==
    LET old == tokens[req[r].token] IN
    /\ req[r].step = "rotate"
    /\ \/ \E t \in Tokens :
          /\ old.status # "deleted" /\ Fresh(t)
          /\ tokens' = [tokens EXCEPT ![t] = [old EXCEPT !.status = "valid"],
                                      ![req[r].token].status = "revoked"]
          /\ req' = [req EXCEPT ![r].step = "respond", ![r].token = t]
          /\ UNCHANGED <<account, jar, calls, failures>>
       \/ old.status = "deleted" /\ Refuse(r)

(***************************************************************************)
(* logout: revokes the presented token, then clears the cookie.            *)
(***************************************************************************)
StartLogout(r) == \E a \in Accounts :
    Accept(r, [Idle EXCEPT !.op = "logout", !.account = a, !.token = jar[a],
                           !.step = IF jar[a] = 0 THEN "clear" ELSE "revoke"])

RevokeToken(r) ==
    /\ req[r].step = "revoke"
    /\ RevokeAll({req[r].token})
    /\ Goto(r, "clear")
    /\ UNCHANGED <<account, jar, calls, failures>>

ClearCookie(r) ==
    /\ req[r].step = "clear"
    /\ jar' = [jar EXCEPT ![req[r].account] = 0]
    /\ Finish(r)
    /\ UNCHANGED <<account, tokens, calls, failures>>

\* Deleting an account deletes its tokens with it.
DeleteAccount(a) ==
    /\ account' = [account EXCEPT ![a].state = "deleted"]
    /\ tokens' = [t \in Tokens |-> IF tokens[t].account = a
                                   THEN [tokens[t] EXCEPT !.status = "deleted"]
                                   ELSE tokens[t]]

(***************************************************************************)
(* Outside events.  A token and the cookie that holds it have one date of  *)
(* expiry.  A request is lost between two of its steps, or its answer is.  *)
(***************************************************************************)
Expire(t) ==
    /\ Spend("expire")
    /\ tokens[t].status = "valid"
    /\ tokens' = [tokens EXCEPT ![t].status = "expired"]
    /\ jar' = [a \in Accounts |-> IF jar[a] = t THEN 0 ELSE jar[a]]
    /\ UNCHANGED <<account, req, failures>>

Fail(r) ==
    /\ req[r].step # "idle"
    /\ failures < MaxFailures
    /\ failures' = failures + 1
    /\ Finish(r)
    /\ UNCHANGED <<account, tokens, jar, calls>>

StartSession(r) == StartLogin(r) \/ StartRefresh(r) \/ StartLogout(r)

ProceedSession(r) ==
    \/ IssueToken(r) \/ SetCookie(r)
    \/ FindToken(r) \/ RevokeFamily(r) \/ Rotate(r)
    \/ RevokeToken(r) \/ ClearCookie(r)

--------------------------------------------------------------------------------
(***************************************************************************)
(* Properties                                                              *)
(***************************************************************************)

TokensTypeOK ==
    /\ account \in [Accounts -> AccountRow]
    /\ tokens \in [Tokens -> TokenRow]
    /\ jar \in [Accounts -> Tokens \cup {0}]
    /\ req \in [Requests -> Request]
    /\ calls \in Nat
    /\ failures \in Nat

Stage(f) ==
    CASE \E t \in Family(f) : Unrevoked(t) -> "open"
      [] Family(f) = {} -> "none"
      [] OTHER -> "ended"

Stages == [f \in Tokens |-> Stage(f)]

Life == INSTANCE SessionLife WITH Sessions <- Tokens, stage <- Stages

\* A session begins once, when its family is opened, and after a logout, a replay, a
\* reset or the deletion of the account no token of it is exchanged again (refresh).
KeepsSessionLife == Life!Spec

\* auth.service.ts:321 "revoke the whole rotation chain, forcing a fresh login": no
\* token of a session that ended, by a replay or otherwise, is issued later (rotate).
FreshLoginForced ==
    [][\A f \in Tokens : Stage(f) = "ended" => Stage(f)' = "ended"]_tokens

\* web admin/core/auth.service.ts:98 "Restores a session from the httpOnly refresh cookie on
\* app startup": with at most two requests at a time and no lost answer, what a browser at
\* rest holds is the unrevoked token of its session, if that session has not ended:
\* refreshing can not end it. A third request can: one sees a rotated token and revokes the
\* family while the other two answer in the wrong order (rotate, setRefreshCookie).
CookieIsUnrevoked ==
    \A a \in Accounts :
        /\ jar[a] # 0
        /\ \A r \in Requests : req[r].account # a
        /\ \E t \in Family(tokens[jar[a]].family) : Unrevoked(t)
        => Unrevoked(jar[a])

\* auth.service.ts:270 "no longer needs any session that predates it": the sessions
\* of an account were opened with the password it has now (login, resetPassword).
NoSessionPredatesReset ==
    \A t \in Tokens : Unrevoked(t) => tokens[t].since = account[tokens[t].account].password
================================================================================
