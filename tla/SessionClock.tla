----------------------------- MODULE SessionClock -----------------------------
(***************************************************************************)
(* An organizer's session seen from the page: the two clients of the       *)
(* sessions (auth.service.ts), the clock that signs out after a time       *)
(* without activity or a time in all and renews the access token meanwhile *)
(* (session-timeout.service.ts), and the shell that starts and stops it on *)
(* the web (app-shell.ts).  The API keeps the refresh tokens.  The durations *)
(* keep the order they have in the code: a token lives longer than the     *)
(* period of its renewal, which is longer than the time without activity.  *)
(***************************************************************************)
EXTENDS PageCalls

CONSTANTS
    Shell,        \* the web's clock runs with its shell, the app's with the token
    IdleLimit, AbsoluteLimit, Lead,
    RefreshEvery, \* how often the clock renews the access token
    TokenLife,
    MaxTime,      \* bound on the time
    MaxFailures   \* bound: calls that get no answer

NoToken == -1
SignedOut(p) == [p EXCEPT !.token = NoToken, !.profile = FALSE]

Init ==
    /\ server = [live |-> {}, last |-> 0, lost |-> 0]
    /\ page = [now |-> 0, jar |-> None, running |-> FALSE, started |-> 0, activity |-> 0,
               refreshed |-> 0, warned |-> FALSE, inside |-> FALSE, token |-> NoToken,
               profile |-> FALSE]
    /\ NoCalls

SignedIn(p) == p.token # NoToken

(***************************************************************************)
(* The clock                                                               *)
(***************************************************************************)
Stamped(p) == [p EXCEPT !.started = p.now, !.activity = p.now, !.refreshed = p.now, !.warned = FALSE]
Started(p) == IF p.running THEN p ELSE [Stamped(p) EXCEPT !.running = TRUE]
Stopped(p) == [p EXCEPT !.running = FALSE, !.warned = @ /\ Shell]

\* In the app the clock follows the token.
Follow(p) == IF Shell THEN p ELSE IF SignedIn(p) THEN Started(p) ELSE Stopped(p)

\* What is left before the session expires.
Remaining(p) ==
    LET idle == IdleLimit - (p.now - p.activity)  whole == AbsoluteLimit - (p.now - p.started)
    IN IF idle < whole THEN idle ELSE whole

\* The web looks at the activity alone, the app at what remains.
Comfortable(p) == IF Shell THEN p.now - p.activity < IdleLimit - Lead ELSE Remaining(p) > Lead

\* Mutant: the token is renewed only once it has lapsed.
DueWhenLapsed(p) == p.running /\ Remaining(p) > 0 /\ Comfortable(p) /\ p.now - p.refreshed >= TokenLife

Due(p) == p.running /\ Remaining(p) > 0 /\ Comfortable(p) /\ p.now - p.refreshed >= RefreshEvery

Expired(p) == p.running /\ Remaining(p) <= 0

\* A call is answered, or given up, within a unit of time.
Ticking == AtRest /\ page.now < MaxTime

Later == [page EXCEPT !.now = @ + 1]
Warned(p) == [p EXCEPT !.warned = IF p.running THEN Remaining(p) <= Lead \/ (~Shell /\ @) ELSE @]

\* A tick with nothing to do.
Pass ==
    /\ Ticking /\ ~Expired(Later) /\ ~Due(Later)
    /\ page' = Warned(Later) /\ UNCHANGED <<server, wire, left>>

Renew(c) ==
    /\ Ticking /\ Due(Later)
    /\ page' = Warned([Later EXCEPT !.refreshed = page.now + 1])
    /\ Send(c, [op |-> "refresh", cookie |-> page.jar]) /\ UNCHANGED <<server, left>>

\* Mutant: the page forgets its session and tells nobody.
ExpireUntold(c) ==
    /\ Ticking /\ Expired(Later)
    /\ page' = SignedOut([Stopped(Warned(Later)) EXCEPT !.jar = None, !.inside = FALSE])
    /\ UNCHANGED <<server, wire, left>>

Expire(c) ==
    /\ Ticking /\ Expired(Later)
    /\ page' = Stopped(Warned(Later))
    /\ Send(c, [op |-> "logout", cookie |-> page.jar]) /\ UNCHANGED <<server, left>>

\* Mouse, keys and scrolling are listened to while the clock runs.
Activity ==
    /\ page.running /\ page.activity # page.now
    /\ page' = [page EXCEPT !.activity = page.now] /\ UNCHANGED <<server, wire, left>>

(***************************************************************************)
(* The organizer                                                           *)
(***************************************************************************)
\* A page that starts asks for a session with the cookie it has.
Reload(c) ==
    /\ AtRest /\ Click(c, "reload")
    /\ page' = SignedOut([page EXCEPT !.running = FALSE, !.warned = FALSE, !.inside = FALSE])
    /\ Send(c, [op |-> "refresh", cookie |-> page.jar]) /\ UNCHANGED server

Login(c) ==
    /\ Click(c, "login") /\ ~SignedIn(page) /\ Send(c, [op |-> "login"]) /\ UNCHANGED <<page, server>>

\* The guard lets in whoever has a token; the shell starts the clock and stops it.
Enter ==
    /\ Shell /\ Spend("enter") /\ ~page.inside /\ SignedIn(page)
    /\ page' = [Started(page) EXCEPT !.inside = TRUE] /\ UNCHANGED <<server, wire>>

Leave ==
    /\ Shell /\ Spend("leave") /\ page.inside
    /\ page' = [Stopped(page) EXCEPT !.inside = FALSE] /\ UNCHANGED <<server, wire>>

Extend(c) ==
    /\ Click(c, "extend") /\ page.warned /\ page' = Stamped(page)
    /\ Send(c, [op |-> "refresh", cookie |-> page.jar]) /\ UNCHANGED server

Logout(c) ==
    /\ Click(c, "logout") /\ (SignedIn(page) \/ page.inside)
    /\ page' = IF Shell \/ page.warned THEN Stopped(page) ELSE page
    /\ Send(c, [op |-> "logout", cookie |-> page.jar]) /\ UNCHANGED server

DeleteAccount(c) ==
    /\ Click(c, "delete") /\ SignedIn(page)
    /\ Send(c, [op |-> "delete", token |-> page.token]) /\ UNCHANGED <<page, server>>

(***************************************************************************)
(* The API                                                                 *)
(***************************************************************************)
\* No answer comes, whether or not the call was served.
Lost(c) ==
    /\ wire[c].at \in {"sent", "back"}
    /\ server.lost < MaxFailures /\ server' = [server EXCEPT !.lost = @ + 1]
    /\ wire' = [wire EXCEPT ![c].at = "refused"] /\ UNCHANGED <<page, left>>

\* A new refresh token in the cookie, and an access token of now.
Issue(c, others, family) ==
    LET token == [id |-> server.last + 1, family |-> family] IN
    /\ server' = [server EXCEPT !.live = others \cup {token}, !.last = token.id]
    /\ Answer(c, [cookie |-> token, token |-> page.now])

ServeLogin(c) == Serve(c, "login") /\ Issue(c, server.live, server.last + 1)

\* A token already replaced revokes those that replaced it.
ServeRefresh(c) ==
    /\ Serve(c, "refresh")
    /\ LET shown == wire[c].cookie IN
       \/ shown = None /\ Refuse(c)
       \/ shown # None /\ shown \in server.live /\ Issue(c, server.live \ {shown}, shown.family)
       \/ /\ shown # None /\ shown \notin server.live
          /\ server' = [server EXCEPT !.live = {t \in @ : t.family # shown.family}]
          /\ wire' = [wire EXCEPT ![c].at = "refused"]

ServeLogout(c) ==
    /\ Serve(c, "logout") /\ Answer(c, None)
    /\ server' = [server EXCEPT !.live = @ \ {wire[c].cookie}]

Accepted(token) == page.now < token + TokenLife

ServeDelete(c) ==
    /\ Serve(c, "delete")
    /\ \/ Accepted(wire[c].token) /\ server' = [server EXCEPT !.live = {}] /\ Answer(c, None)
       \/ ~Accepted(wire[c].token) /\ Refuse(c)

ServeMe(c) ==
    /\ Serve(c, "me")
    /\ \/ SignedIn(wire[c]) /\ Accepted(wire[c].token) /\ Answer(c, None) /\ UNCHANGED server
       \/ ~(SignedIn(wire[c]) /\ Accepted(wire[c].token)) /\ Refuse(c)

(***************************************************************************)
(* What follows the answers                                                *)
(***************************************************************************)
GotToken(c) ==
    /\ \E op \in {"login", "refresh"} : Back(c, op)
    /\ LET data == wire[c].data IN
       /\ page' = Follow([page EXCEPT !.token = data.token, !.jar = data.cookie])
       /\ Send(c, [op |-> "me", for |-> wire[c].op, token |-> data.token])

GotMe(c) == Back(c, "me") /\ Hang(c) /\ page' = [page EXCEPT !.profile = TRUE]

\* Signed out, off the shell.
GotGone(c) ==
    /\ \E op \in {"logout", "delete"} : Back(c, op)
    /\ Hang(c)
    /\ page' = Follow(SignedOut([Stopped(page) EXCEPT !.jar = None, !.inside = FALSE]))

\* A refusal, or no answer: a session that is not renewed is forgotten, and so is
\* one whose end could not be told; the cookie stays.
GotNothing(c) ==
    /\ Refused(c) /\ Hang(c)
    /\ page' = IF wire[c].op \in {"refresh", "logout"}
                  \/ (wire[c].op = "me" /\ wire[c].for = "refresh")
               THEN Follow(SignedOut(page)) ELSE page

Next ==
    \/ Activity \/ Pass \/ Enter \/ Leave
    \/ \E c \in Connections :
          \/ Renew(c) \/ Expire(c) \/ Reload(c) \/ Login(c) \/ Extend(c) \/ Logout(c)
          \/ DeleteAccount(c) \/ Lost(c)
          \/ ServeLogin(c) \/ ServeRefresh(c) \/ ServeLogout(c) \/ ServeDelete(c) \/ ServeMe(c)
          \/ GotToken(c) \/ GotMe(c) \/ GotGone(c) \/ GotNothing(c)

Spec == Init /\ [][Next]_vars

(***************************************************************************)
(* Properties                                                              *)
(***************************************************************************)
\* A page at rest that shows nobody signed in has left no session behind: what
\* the clock or the organizer ended is revoked at the API, and the cookie gone
\* (expireSession, logout).
SignedOutIsRevoked == (AtRest /\ ~SignedIn(page)) => (server.live = {} /\ page.jar = None)

\* While the clock runs, whatever the organizer does or leaves undone, the access
\* token is renewed or the session over before the token lapses (tick).
TokenNeverLapses == (page.running /\ SignedIn(page)) => Accepted(page.token)
================================================================================
