------------------------------ MODULE MCSessions -------------------------------
(***************************************************************************)
(* The three session services checked in one run.  A behaviour is of one   *)
(* part: the organizers' service in the scenario its constants give, or in *)
(* one of three with another number of tabs, calls or losses, the players' *)
(* service, or the super-admins'.  Every service keeps its own tables, so  *)
(* the variables stand for those of the part the behaviour is of.          *)
(***************************************************************************)
EXTENDS OrganizerSessions

CONSTANTS a1, r1   \* one of the accounts, one of the requests

ASSUME OneOfEach == a1 \in Accounts /\ r1 \in Requests

VARIABLE part

TokenCalls == {"login", "refresh", "logout", "expire"}
AccountCalls == {"register", "verifyEmail", "supportVerify", "resend", "requestReset",
                 "resetPassword", "deleteAccount", "expireLink"}
OwnCalls == TokenCalls \cup AccountCalls
EveryCall == OwnCalls \cup {"acceptInvitation"}

\* One tab and six calls in a row.
Tab == INSTANCE OrganizerSessions WITH
    Accounts <- {a1}, Requests <- {r1}, Operations <- OwnCalls, MaxCalls <- 6, MaxFailures <- 0

\* Several tabs of one browser, every call but the invitation's.
Tabs == INSTANCE OrganizerSessions WITH
    Accounts <- {a1}, OneTab <- FALSE, Operations <- OwnCalls, MaxCalls <- 4

\* Several tabs that only log in, refresh and log out, and no lost answer.
TokenTabs == INSTANCE OrganizerSessions WITH
    Accounts <- {a1}, OneTab <- FALSE, Operations <- TokenCalls, MaxCalls <- 6,
    MaxFailures <- 0

Players == INSTANCE OtherSessions WITH Operations <- TokenCalls \cup {"register"}

AdminCalls == TokenCalls \cup {"deleteAccount"}
Admins == INSTANCE OtherSessions WITH Operations <- AdminCalls

\* One super-admin's request at a time.
OneAdmin == INSTANCE OtherSessions WITH
    Requests <- {r1}, Operations <- AdminCalls, MaxCalls <- 5

NoMails ==
    /\ verified = {}
    /\ verifyLink = [a \in Accounts |-> 0]
    /\ resetLink = [a \in Accounts |-> 0]
    /\ mailed = [a \in Accounts |-> 0]

MCInit ==
    \/ part = "accounts" /\ Init
    \/ part = "tab" /\ Tab!Init
    \/ part = "tabs" /\ Tabs!Init
    \/ part = "tokenTabs" /\ TokenTabs!Init
    \/ part = "players" /\ Players!PlayersInit /\ NoMails
    \/ part = "admins" /\ Admins!AdminsInit /\ NoMails
    \/ part = "oneAdmin" /\ OneAdmin!AdminsInit /\ NoMails

MCNext ==
    /\ \/ part = "accounts" /\ Next
       \/ part = "tab" /\ Tab!Next
       \/ part = "tabs" /\ Tabs!Next
       \/ part = "tokenTabs" /\ TokenTabs!Next
       \/ part = "players" /\ Players!PlayersNext /\ UNCHANGED mailVars
       \/ part = "admins" /\ Admins!AdminsNext /\ UNCHANGED mailVars
       \/ part = "oneAdmin" /\ OneAdmin!AdminsNext /\ UNCHANGED mailVars
    /\ UNCHANGED part

MCSpec == MCInit /\ [][MCNext]_<<vars, part>>

OneTabPart == part \in {"accounts", "players", "admins"}

\* SessionLife, where a browser waits for its answers: a session begins once and, when it
\* has ended, no token of it is issued again, in any of the three services (refresh).
SessionsBeginAndEndOnce ==
    /\ OneTabPart => Life!Init
    /\ [][OneTabPart => Life!Next \/ Stages' = Stages]_vars

\* TypeOK, and NoSessionPredatesReset where a browser waits for its answers: what was
\* open when a password was reset is closed, and stays so (resetPassword, refresh).
ResetEndsSessions ==
    /\ OneTabPart => TypeOK
    /\ part = "accounts" => NoSessionPredatesReset

\* LinkOpensOneSession, one call after the other, and SessionsAreVerified, without the
\* account an invitation creates: a session takes a proven address (login, verifyEmail).
SessionsTakeAProvenAddress ==
    /\ part = "tab" => Tab!LinkOpensOneSession
    /\ part = "tabs" => Tabs!SessionsAreVerified

\* CookieIsUnrevoked, with several tabs, two requests at a time and no lost answer
\* (setRefreshCookie).
TabsShareLiveCookie == part = "tokenTabs" => TokenTabs!CookieIsUnrevoked

\* SomeoneIsSuperAdmin, one request at a time (deleteAccount).
LastSuperAdminStays == part = "oneAdmin" => OneAdmin!SomeoneIsSuperAdmin
================================================================================
