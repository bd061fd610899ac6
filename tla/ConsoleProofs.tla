----------------------------- MODULE ConsoleProofs -----------------------------
(***************************************************************************)
(* The parts proved about: the teams' files at the API, and three pages in *)
(* front of theirs: the clocks of the organizers' sessions, on the web and *)
(* in the app, the app's alerts on favourites, and the page a customer     *)
(* comes back to from a payment.  A behaviour is of one of them.  MCConsole *)
(* adds the other parts and checks them all; here they are proved for      *)
(* every number of requests, clicks and lost calls, of teams, matches and  *)
(* scores, and for clocks of any durations in the order the code gives.    *)
(***************************************************************************)
EXTENDS PageCalls, Sequences, TLAPS

CONSTANTS
    Several,                                \* connections of the alerts
    IdleLimit, AbsoluteLimit, Lead,         \* of SessionClock
    RefreshEvery, TokenLife, MaxTime,
    Games, Playing, Scores,                 \* of FavoriteAlerts, the first its matches
    Flows, MaxPolls,                        \* of PaymentReturn
    Names, Groups, Divisions, Files, Header, Requests, Workloads, \* of TeamFiles
    MaxFailures, MaxLost                    \* bounds

VARIABLE part

\* A warning a minute before the half hour, a token of an hour renewed every 45 minutes
\* (IDLE_LIMIT_MS, WARNING_LEAD_MS, TOKEN_REFRESH_INTERVAL_MS, JWT_EXPIRES_IN).
ASSUME Durations ==
    /\ {IdleLimit, AbsoluteLimit, Lead, RefreshEvery, TokenLife} \subseteq Nat \ {0}
    /\ Lead + 1 < IdleLimit
    /\ RefreshEvery + 2 * Lead <= TokenLife

\* Refresh tokens, as the API issues them.
Cookies == [id : Nat, family : Nat]

ASSUME NoneIsNoCookie == None \notin Cookies
ASSUME NoneIsNoScore == None \notin Scores
ASSUME NoneIsNotShown == None # "settled"

\* A file holds a row at least, and a workload is one of TeamFiles.
ASSUME ImportsAreLists == \A rows \in Files : Len(rows) \in Nat \ {0}
ASSUME WorkloadsAreBounds ==
    \A w \in Workloads : w \in [requests : (SUBSET Requests) \ {{}}, operations : {w.operations},
                                calls : Nat, failures : Nat]

WebSession == INSTANCE SessionClock WITH Shell <- TRUE, MaxFailures <- 0
AppSession == INSTANCE SessionClock WITH Shell <- FALSE
Alerts == INSTANCE FavoriteAlerts WITH
    Matches <- Games, Connections <- Several, Calm <- TRUE
Returning == INSTANCE PaymentReturn WITH MaxFailures <- MaxLost
Logos == INSTANCE TeamFiles WITH db <- server, req <- wire

PagesInit ==
    \/ part = "web session" /\ WebSession!Init
    \/ part = "app session" /\ AppSession!Init
    \/ part = "alerts" /\ Alerts!Init
    \/ part = "payment return" /\ Returning!Init
    \/ part = "teams" /\ Logos!Init /\ page = <<>>

PagesNext ==
    /\ \/ part = "web session" /\ WebSession!Next
       \/ part = "app session" /\ AppSession!Next
       \/ part = "alerts" /\ Alerts!Next
       \/ part = "payment return" /\ Returning!Next
       \/ part = "teams" /\ Logos!Next /\ UNCHANGED page
    /\ UNCHANGED part

PagesSpec == PagesInit /\ [][PagesNext]_<<vars, part>>

\* SignedOutIsRevoked of the web's clock and TokenNeverLapses of the app's, one call
\* at a time, the app's calls possibly lost (tick, expireSession, logout).
SessionsFollowTheClock ==
    /\ part = "web session" => WebSession!SignedOutIsRevoked
    /\ part = "app session" => AppSession!TokenNeverLapses

\* EveryChangeIsToldOnce, as long as matches change when nothing is in flight (checkTeam).
EveryChangeIsToldOnce == part = "alerts" => Alerts!EveryChangeIsToldOnce

\* ReturnTellsTruth, of the pages a payment comes back to, calls lost included (load).
ReturnTellsTruth == part = "payment return" => Returning!ReturnTellsTruth

\* LogosNameFiles and FilesAreUsed, requests crossed and lost included (uploadLogo,
\* removeLogo, remove, importFromCsv).
LogosAreThere == part = "teams" => Logos!LogosNameFiles /\ Logos!FilesAreUsed

(*****************************************************************************)
(* Calls of a page                                                           *)
(*****************************************************************************)
LEMMA CallSent ==
    ASSUME NEW call, "op" \in DOMAIN call, "at" \notin DOMAIN call,
           NEW w, w = Overlay([at |-> "sent"], call)
    PROVE  /\ w.at = "sent" /\ w.op = call.op /\ {"at", "op"} \subseteq DOMAIN w
           /\ \A x \in DOMAIN call : w[x] = call[x]
  <1>1. /\ w.at = "sent" /\ DOMAIN w = {"at"} \cup DOMAIN call
        /\ \A x \in DOMAIN call : w[x] = call[x]
    BY SMT DEF Overlay
  <1>2. w["op"] = call["op"]
    BY <1>1
  <1> QED
    BY <1>1, <1>2

LEMMA CallAnswered ==
    ASSUME NEW call, {"at", "op"} \subseteq DOMAIN call, NEW d,
           NEW w, w = Overlay([at |-> "back", data |-> d], call)
    PROVE  /\ w.at = "back" /\ w.data = d /\ w.op = call.op /\ {"at", "op"} \subseteq DOMAIN w
           /\ \A x \in DOMAIN call \ {"at", "data"} : w[x] = call[x]
  <1>1. /\ w.at = "back" /\ w.data = d /\ DOMAIN w = {"at", "data"} \cup DOMAIN call
        /\ \A x \in DOMAIN call \ {"at", "data"} : w[x] = call[x]
    BY SMT DEF Overlay
  <1>2. w["op"] = call["op"]
    BY <1>1
  <1> QED
    BY <1>1, <1>2

LEMMA CallRefused ==
    ASSUME NEW call, {"at", "op"} \subseteq DOMAIN call,
           NEW w, w = [call EXCEPT !.at = "refused"]
    PROVE  /\ w.at = "refused" /\ w.op = call.op /\ DOMAIN w = DOMAIN call
           /\ \A x \in DOMAIN call \ {"at"} : w[x] = call[x]
  OBVIOUS

LEMMA OneCallChanges ==
    ASSUME NEW conns, wire = [b \in conns |-> wire[b]], NEW c \in conns, NEW w,
           wire' = [wire EXCEPT ![c] = w]
    PROVE  /\ wire'[c] = w
           /\ \A b \in conns \ {c} : wire'[b] = wire[b]
           /\ wire' = [b \in conns |-> wire'[b]]
  OBVIOUS

Calls ==
    /\ wire = [c \in Connections |-> wire[c]]
    /\ \A c \in Connections : {"at", "op"} \subseteq DOMAIN wire[c]

LEMMA CallsChange ==
    ASSUME Calls, NEW c \in Connections, NEW w, wire' = [wire EXCEPT ![c] = w]
    PROVE  /\ wire'[c] = w
           /\ \A b \in Connections \ {c} : wire'[b] = wire[b]
           /\ {"at", "op"} \subseteq DOMAIN w => Calls'
  <1>1. /\ wire' = [b \in Connections |-> wire'[b]]
        /\ wire'[c] = w
        /\ \A b \in Connections \ {c} : wire'[b] = wire[b]
    BY OneCallChanges DEF Calls
  <1> QED
    BY <1>1 DEF Calls

(*****************************************************************************)
(* The sessions' clock                                                       *)
(*****************************************************************************)
NoToken == -1
ClockPages(jar) ==
    [now : Nat, jar : {jar}, running : BOOLEAN, started : Nat, activity : Nat,
     refreshed : Nat, warned : BOOLEAN, inside : BOOLEAN, token : Nat \cup {NoToken},
     profile : BOOLEAN]
ClockPage(p) == p \in ClockPages(p.jar)
SinceRenewal(p) == p.now - p.refreshed
IdleLeft(p) == IdleLimit - (p.now - p.activity)
WholeLeft(p) == AbsoluteLimit - (p.now - p.started)
RenewedInTime(p) ==
    /\ p.activity <= p.now /\ p.refreshed <= p.now /\ p.started <= p.now
    /\ IdleLeft(p) >= 1 /\ WholeLeft(p) >= 1
    /\ \/ SinceRenewal(p) < RefreshEvery
       \/ /\ WholeLeft(p) > Lead
          /\ \/ SinceRenewal(p) - RefreshEvery <= Lead - IdleLeft(p)
             \/ p.activity = p.now /\ SinceRenewal(p) - RefreshEvery <= Lead - 1
       \/ WholeLeft(p) <= Lead /\ SinceRenewal(p) - RefreshEvery <= 2 * Lead - WholeLeft(p)

Fresh(p) == /\ RenewedInTime(p) /\ p.token # NoToken /\ p.now < p.token + TokenLife

\* A tick at which the session neither expires nor is renewed.
LEMMA TickKeepsTime ==
    ASSUME NEW p, ClockPage(p), RenewedInTime(p), p.running,
           NEW q, q = [p EXCEPT !.now = @ + 1],
           ~AppSession!Expired(q), ~AppSession!Due(q)
    PROVE  RenewedInTime(q)
  <1>1. /\ q.now = p.now + 1 /\ q.activity = p.activity /\ q.refreshed = p.refreshed
        /\ q.started = p.started /\ q.running
        /\ {p.now, p.activity, p.refreshed, p.started} \subseteq Nat
    BY DEF ClockPage, ClockPages
  <1>2. /\ IdleLeft(q) = IdleLeft(p) - 1 /\ WholeLeft(q) = WholeLeft(p) - 1
        /\ SinceRenewal(q) = SinceRenewal(p) + 1
        /\ {IdleLeft(p), WholeLeft(p), SinceRenewal(p)} \subseteq Int
    BY <1>1, Durations DEF IdleLeft, WholeLeft, SinceRenewal
  <1>3. AppSession!Remaining(q) = IF IdleLeft(q) < WholeLeft(q) THEN IdleLeft(q) ELSE WholeLeft(q)
    BY DEF AppSession!Remaining, IdleLeft, WholeLeft
  <1>4. IdleLeft(q) >= 1 /\ WholeLeft(q) >= 1
    BY <1>1, <1>2, <1>3 DEF AppSession!Expired
  <1>5. SinceRenewal(q) < RefreshEvery \/ IdleLeft(q) <= Lead \/ WholeLeft(q) <= Lead
    BY <1>1, <1>2, <1>3, <1>4, Durations DEF AppSession!Due, AppSession!Comfortable, SinceRenewal
  <1>6. p.activity = p.now => IdleLeft(q) > Lead
    BY <1>1, <1>2, Durations DEF IdleLeft
  <1> QED
    BY <1>1, <1>2, <1>4, <1>5, <1>6, Durations DEF RenewedInTime

LEMMA TokenOutlivesClock ==
    ASSUME NEW p, ClockPage(p), RenewedInTime(p), p.token \in Nat, p.refreshed <= p.token
    PROVE  p.now < p.token + TokenLife
  <1>1. {p.now, p.activity, p.refreshed, p.started} \subseteq Nat
    BY DEF ClockPage, ClockPages
  <1>2. SinceRenewal(p) < RefreshEvery + 2 * Lead
    BY <1>1, Durations DEF RenewedInTime, SinceRenewal, IdleLeft, WholeLeft
  <1> QED
    BY <1>1, <1>2, Durations DEF SinceRenewal

LEMMA SignedOutPages ==
    ASSUME NEW p, ClockPage(p), NEW q, q = AppSession!Follow(AppSession!SignedOut(p))
    PROVE  ClockPage(q) /\ ~q.running /\ q.now = p.now
  BY DEF ClockPage, ClockPages, AppSession!Follow, AppSession!SignedOut, AppSession!SignedIn,
         AppSession!Stopped, AppSession!Started, AppSession!Stamped, AppSession!NoToken, NoToken

LEMMA StoppedPages ==
    ASSUME NEW p, ClockPage(p), NEW q, q = AppSession!Stopped(p)
    PROVE  ClockPage(q) /\ ~q.running /\ q.now = p.now /\ q.token = p.token
  BY DEF ClockPage, ClockPages, AppSession!Stopped

LEMMA StampedPages ==
    ASSUME NEW p, ClockPage(p), NEW q, q = AppSession!Stamped(p)
    PROVE  /\ ClockPage(q) /\ RenewedInTime(q) /\ q.running = p.running /\ q.now = p.now
           /\ q.token = p.token /\ q.refreshed = p.now
  <1>1. /\ ClockPage(q) /\ q.running = p.running /\ q.now = p.now /\ q.now \in Nat
        /\ q.token = p.token /\ q.refreshed = p.now /\ q.activity = p.now /\ q.started = p.now
    BY DEF ClockPage, ClockPages, AppSession!Stamped
  <1> QED
    BY <1>1, Durations DEF RenewedInTime, SinceRenewal, IdleLeft, WholeLeft

\* A session answered: its token is of now.
LEMMA FollowedPages ==
    ASSUME NEW p, ClockPage(p), p.token = p.now, p.running => RenewedInTime(p),
           NEW q, q = AppSession!Follow(p)
    PROVE  /\ ClockPage(q) /\ q.running /\ q.now = p.now /\ Fresh(q)
           /\ q.refreshed <= q.token
  <1>0. p.now \in Nat /\ p.token # NoToken
    BY DEF ClockPage, ClockPages, NoToken
  <1>1. CASE p.running
    <2>1. q = p
      BY <1>0, <1>1 DEF AppSession!Follow, AppSession!SignedIn, AppSession!Started, NoToken,
                        AppSession!NoToken
    <2> QED
      BY <1>0, <1>1, <2>1, Durations DEF Fresh, RenewedInTime
  <1>2. CASE ~p.running
    <2> DEFINE s == AppSession!Stamped(p)
    <2>1. q = [s EXCEPT !.running = TRUE]
      BY <1>0, <1>2 DEF AppSession!Follow, AppSession!SignedIn, AppSession!Started, NoToken,
                        AppSession!NoToken
    <2>2. /\ ClockPage(s) /\ RenewedInTime(s) /\ s.now = p.now /\ s.token = p.now
          /\ s.refreshed = p.now
      BY StampedPages
    <2> HIDE DEF s
    <2>3. /\ ClockPage(q) /\ q.running /\ q.now = s.now /\ q.token = s.token
          /\ q.refreshed = s.refreshed /\ q.activity = s.activity /\ q.started = s.started
      BY <2>1, <2>2 DEF ClockPage, ClockPages
    <2> QED
      BY <1>0, <2>2, <2>3, Durations
      DEF Fresh, RenewedInTime, SinceRenewal, IdleLeft, WholeLeft
  <1> QED
    BY <1>1, <1>2 DEF ClockPage, ClockPages

Renewing == \E c \in Connections : wire[c].op = "refresh"

AnswersOfNow ==
    \A c \in Connections : wire[c].at = "back" /\ wire[c].op \in {"login", "refresh"}
                              => wire[c].data.token = page.now

AppInv ==
    /\ ClockPage(page) /\ Calls /\ AnswersOfNow
    /\ page.running => Fresh(page) /\ (Renewing \/ page.refreshed <= page.token)

LEMMA AppStarts == ASSUME AppSession!Init PROVE AppInv
  BY DEF AppSession!Init, AppSession!NoCalls, AppSession!Idle, AppInv, ClockPage, ClockPages, Calls,
         AnswersOfNow, AppSession!NoToken, NoToken

\* A call sent, on a page whose time stands still or that has none in flight.
LEMMA AppSends ==
    ASSUME AppInv, NEW c \in Connections, NEW call, "op" \in DOMAIN call, "at" \notin DOMAIN call,
           AppSession!Send(c, call), page'.now = page.now \/ AppSession!AtRest
    PROVE  /\ Calls' /\ AnswersOfNow'
           /\ wire'[c].op = call.op
           /\ wire[c] = AppSession!Idle /\ Renewing => Renewing'
           /\ call.op = "refresh" => Renewing'
  <1> DEFINE w == Overlay([at |-> "sent"], call)
  <1>1. w.at = "sent" /\ w.op = call.op /\ {"at", "op"} \subseteq DOMAIN w
    BY CallSent
  <1>2. wire' = [wire EXCEPT ![c] = w]
    BY DEF AppSession!Send, AppSession!Overlay, Overlay
  <1> HIDE DEF w
  <1>3. wire'[c] = w /\ (\A b \in Connections \ {c} : wire'[b] = wire[b]) /\ Calls'
    BY <1>1, <1>2, CallsChange DEF AppInv
  <1>4. AppSession!AtRest => \A b \in Connections : wire[b].at = "idle"
    BY DEF AppSession!AtRest, AppSession!Idle
  <1>5. AnswersOfNow'
    BY <1>1, <1>3, <1>4 DEF AppInv, AnswersOfNow
  <1>6. wire[c] = AppSession!Idle /\ Renewing => Renewing'
    BY <1>1, <1>3 DEF Renewing, AppSession!Idle
  <1>7. call.op = "refresh" => Renewing'
    BY <1>1, <1>3 DEF Renewing
  <1> QED
    BY <1>1, <1>3, <1>5, <1>6, <1>7

LEMMA WarnedPages ==
    ASSUME NEW p, ClockPage(p), NEW q, q = AppSession!Warned(p)
    PROVE  /\ ClockPage(q) /\ q.running = p.running /\ q.now = p.now /\ q.token = p.token
           /\ q.refreshed = p.refreshed /\ q.activity = p.activity /\ q.started = p.started
  <1>1. PICK b \in BOOLEAN : q = [p EXCEPT !.warned = b]
    BY DEF AppSession!Warned, ClockPage, ClockPages
  <1> QED
    BY <1>1 DEF ClockPage, ClockPages

LEMMA LaterPages ==
    ASSUME ClockPage(page), NEW q, q = AppSession!Later
    PROVE  /\ ClockPage(q) /\ q = [page EXCEPT !.now = @ + 1]
           /\ q.running = page.running /\ q.now = page.now + 1 /\ q.token = page.token
           /\ q.refreshed = page.refreshed /\ q.activity = page.activity
           /\ q.started = page.started
  BY DEF AppSession!Later, ClockPage, ClockPages

LEMMA AppTicks ==
    ASSUME AppInv, AppSession!Pass
    PROVE  AppInv'
  <1> DEFINE p == AppSession!Later
  <1>1. /\ page' = AppSession!Warned(p) /\ UNCHANGED wire
        /\ ~AppSession!Expired(p) /\ ~AppSession!Due(p) /\ AppSession!AtRest
    BY DEF AppSession!Pass, AppSession!Ticking
  <1>2. ClockPage(page) /\ Calls /\ p = [page EXCEPT !.now = @ + 1]
    BY LaterPages DEF AppInv
  <1>3. /\ ClockPage(p) /\ p.token = page.token /\ p.refreshed = page.refreshed
        /\ p.running = page.running
    BY <1>2, LaterPages
  <1>4. page.running => RenewedInTime(p)
    BY <1>1, <1>2, TickKeepsTime DEF AppInv, Fresh
  <1> HIDE DEF p
  <1>5. /\ ClockPage(page') /\ page'.running = p.running /\ page'.now = p.now
        /\ page'.token = p.token /\ page'.refreshed = p.refreshed
        /\ page'.activity = p.activity /\ page'.started = p.started
    BY <1>1, <1>3, WarnedPages
  <1>6. ~Renewing /\ AnswersOfNow'
    BY <1>1 DEF AppSession!AtRest, AppSession!Idle, Renewing, AnswersOfNow
  <1>7. ASSUME page.running PROVE Fresh(page') /\ page'.refreshed <= page'.token
    <2>1. RenewedInTime(page')
      BY <1>4, <1>5, <1>7 DEF RenewedInTime, SinceRenewal, IdleLeft, WholeLeft
    <2>2. page'.token \in Nat /\ page'.token # NoToken /\ page'.refreshed <= page'.token
      BY <1>3, <1>5, <1>6, <1>7 DEF AppInv, Fresh, ClockPage, ClockPages
    <2> QED
      BY <1>5, <2>1, <2>2, TokenOutlivesClock DEF Fresh
  <1>8. Calls'
    BY <1>1, <1>2 DEF Calls
  <1> QED
    BY <1>3, <1>5, <1>6, <1>7, <1>8 DEF AppInv

LEMMA AppRenews ==
    ASSUME AppInv, NEW c \in Connections, AppSession!Renew(c)
    PROVE  AppInv'
  <1> DEFINE p == AppSession!Later
             q == [p EXCEPT !.refreshed = page.now + 1]
  <1>1. /\ page' = AppSession!Warned(q) /\ AppSession!Due(p) /\ AppSession!AtRest
        /\ AppSession!Send(c, [op |-> "refresh", cookie |-> page.jar])
    BY DEF AppSession!Renew, AppSession!Ticking
  <1>2. /\ ClockPage(page) /\ Calls
        /\ ClockPage(p) /\ p = [page EXCEPT !.now = @ + 1]
        /\ p.running = page.running /\ p.now = page.now + 1 /\ p.token = page.token
        /\ p.refreshed = page.refreshed /\ p.activity = page.activity
        /\ p.started = page.started
    BY LaterPages DEF AppInv
  <1>3. page.running /\ AppSession!Remaining(p) > 0 /\ AppSession!Remaining(p) > Lead
    BY <1>1, <1>2 DEF AppSession!Due, AppSession!Comfortable
  <1>4. AppSession!Remaining(p) = IF IdleLeft(p) < WholeLeft(p) THEN IdleLeft(p) ELSE WholeLeft(p)
    BY DEF AppSession!Remaining, IdleLeft, WholeLeft
  <1> HIDE DEF p
  <1>5. /\ ClockPage(q) /\ q.running /\ q.now = p.now /\ q.token = p.token
        /\ q.refreshed = p.now /\ q.activity = p.activity /\ q.started = p.started
    BY <1>2, <1>3 DEF ClockPage, ClockPages
  <1> HIDE DEF q
  <1>6. /\ ClockPage(page') /\ page'.running /\ page'.now = p.now
        /\ page'.token = p.token /\ page'.refreshed = p.now
        /\ page'.activity = p.activity /\ page'.started = p.started
    BY <1>1, <1>5, WarnedPages
  <1>7. ~Renewing /\ page.refreshed <= page.token
    BY <1>1, <1>3 DEF AppInv, AppSession!AtRest, AppSession!Idle, Renewing
  <1>8. /\ {page.now, page.activity, page.refreshed, page.started, page.token} \subseteq Nat
        /\ RenewedInTime(page)
    BY <1>2, <1>3 DEF AppInv, Fresh, ClockPage, ClockPages
  <1>9. page.now + 1 < page.token + TokenLife
    <2>1. /\ IdleLeft(p) = IdleLeft(page) - 1 /\ WholeLeft(p) = WholeLeft(page) - 1
          /\ {IdleLeft(page), WholeLeft(page), SinceRenewal(page)} \subseteq Int
      BY <1>2, <1>8, Durations DEF IdleLeft, WholeLeft, SinceRenewal
    <2>2. SinceRenewal(page) < RefreshEvery + Lead
      BY <1>3, <1>4, <1>8, <2>1, Durations DEF RenewedInTime
    <2> QED
      BY <1>7, <1>8, <2>2, Durations DEF SinceRenewal
  <1>10. RenewedInTime(page')
    <2>1. IdleLeft(p) >= 1 /\ WholeLeft(p) >= 1
      BY <1>2, <1>3, <1>4, <1>8, Durations DEF IdleLeft, WholeLeft
    <2> QED
      BY <1>2, <1>6, <1>8, <2>1, Durations DEF RenewedInTime, SinceRenewal, IdleLeft, WholeLeft
  <1>11. Fresh(page')
    BY <1>2, <1>6, <1>8, <1>9, <1>10 DEF Fresh, NoToken
  <1>12. Calls' /\ AnswersOfNow' /\ Renewing'
    <2> DEFINE call == [op |-> "refresh", cookie |-> page.jar]
    <2>1. DOMAIN call = {"op", "cookie"} /\ call.op = "refresh"
      OBVIOUS
    <2> HIDE DEF call
    <2> QED
      BY <1>1, <2>1, AppSends DEF call
  <1> QED
    BY <1>6, <1>11, <1>12 DEF AppInv

\* What the organizer does, and an expiry.
LEMMA AppClicks ==
    ASSUME AppInv, NEW c \in Connections,
           \/ AppSession!Expire(c) \/ AppSession!Reload(c) \/ AppSession!Login(c)
           \/ AppSession!Extend(c) \/ AppSession!Logout(c) \/ AppSession!DeleteAccount(c)
    PROVE  AppInv'
  <1>0. ClockPage(page) /\ AnswersOfNow
    BY DEF AppInv
  <1>1. CASE AppSession!Expire(c)
    <2> DEFINE p == AppSession!Later
               q == AppSession!Warned(p)
               call == [op |-> "logout", cookie |-> page.jar]
    <2>1. page' = AppSession!Stopped(q) /\ AppSession!Send(c, call) /\ AppSession!AtRest
      BY <1>1 DEF AppSession!Expire, AppSession!Ticking
    <2>2. DOMAIN call = {"op", "cookie"}
      OBVIOUS
    <2>3. ClockPage(p)
      BY <1>0, LaterPages
    <2> HIDE DEF p, call
    <2>4. ClockPage(q)
      BY <2>3, WarnedPages
    <2> HIDE DEF q
    <2>5. ClockPage(page') /\ ~page'.running
      BY <2>1, <2>4, StoppedPages
    <2>6. Calls' /\ AnswersOfNow'
      BY <2>1, <2>2, AppSends
    <2> QED
      BY <2>5, <2>6 DEF AppInv
  <1>2. CASE AppSession!Reload(c)
    <2> DEFINE call == [op |-> "refresh", cookie |-> page.jar]
    <2>1. /\ page' = AppSession!SignedOut([page EXCEPT !.running = FALSE, !.warned = FALSE,
                                                       !.inside = FALSE])
          /\ AppSession!Send(c, call)
      BY <1>2 DEF AppSession!Reload
    <2>2. DOMAIN call = {"op", "cookie"}
      OBVIOUS
    <2> HIDE DEF call
    <2>3. ClockPage(page') /\ ~page'.running /\ page'.now = page.now
      BY <1>0, <2>1 DEF ClockPage, ClockPages, AppSession!SignedOut, AppSession!NoToken, NoToken
    <2>4. Calls' /\ AnswersOfNow'
      BY <2>1, <2>2, <2>3, AppSends
    <2> QED
      BY <2>3, <2>4 DEF AppInv
  <1>3. CASE AppSession!Login(c) \/ AppSession!DeleteAccount(c)
    <2>1. /\ page' = page /\ wire[c] = AppSession!Idle
          /\ \/ AppSession!Send(c, [op |-> "login"])
             \/ AppSession!Send(c, [op |-> "delete", token |-> page.token])
      BY <1>3 DEF AppSession!Login, AppSession!DeleteAccount, AppSession!Click
    <2>2. Calls' /\ AnswersOfNow' /\ (Renewing => Renewing')
      <3>1. PICK call : /\ "op" \in DOMAIN call /\ "at" \notin DOMAIN call
                        /\ AppSession!Send(c, call)
        <4>1. DOMAIN [op |-> "login"] = {"op"}
          OBVIOUS
        <4>2. DOMAIN [op |-> "delete", token |-> page.token] = {"op", "token"}
          OBVIOUS
        <4> QED
          BY <2>1, <4>1, <4>2
      <3> QED
        BY <2>1, <3>1, AppSends
    <2> QED
      BY <2>1, <2>2 DEF AppInv
  <1>4. CASE AppSession!Extend(c)
    <2> DEFINE call == [op |-> "refresh", cookie |-> page.jar]
    <2>1. page' = AppSession!Stamped(page) /\ AppSession!Send(c, call)
      BY <1>4 DEF AppSession!Extend
    <2>2. DOMAIN call = {"op", "cookie"} /\ call.op = "refresh"
      OBVIOUS
    <2> HIDE DEF call
    <2>3. /\ ClockPage(page') /\ RenewedInTime(page') /\ page'.running = page.running
          /\ page'.now = page.now /\ page'.token = page.token
      BY <1>0, <2>1, StampedPages
    <2>4. Calls' /\ AnswersOfNow' /\ Renewing'
      BY <2>1, <2>2, <2>3, AppSends
    <2> QED
      BY <2>3, <2>4 DEF AppInv, Fresh
  <1>5. CASE AppSession!Logout(c)
    <2> DEFINE call == [op |-> "logout", cookie |-> page.jar]
    <2>1. /\ page' = page \/ page' = AppSession!Stopped(page)
          /\ AppSession!Send(c, call) /\ wire[c] = AppSession!Idle
      BY <1>5 DEF AppSession!Logout, AppSession!Click
    <2>2. DOMAIN call = {"op", "cookie"}
      OBVIOUS
    <2> HIDE DEF call
    <2>3. /\ ClockPage(page') /\ page'.now = page.now
          /\ page' = page \/ ~page'.running
      BY <1>0, <2>1, StoppedPages
    <2>4. Calls' /\ AnswersOfNow' /\ (Renewing => Renewing')
      BY <2>1, <2>2, <2>3, AppSends
    <2> QED
      BY <2>3, <2>4 DEF AppInv
  <1> QED
    BY <1>1, <1>2, <1>3, <1>4, <1>5

\* A call answered, refused or lost keeps its name.
LEMMA AppServes ==
    ASSUME AppInv, NEW c \in Connections,
           \/ AppSession!Lost(c) \/ AppSession!ServeLogin(c) \/ AppSession!ServeRefresh(c)
           \/ AppSession!ServeLogout(c) \/ AppSession!ServeDelete(c) \/ AppSession!ServeMe(c)
    PROVE  AppInv'
  <1>0. Calls /\ AnswersOfNow
    BY DEF AppInv
  <1>1. /\ UNCHANGED page
        /\ \/ wire' = [wire EXCEPT ![c].at = "refused"]
           \/ \E d : /\ AppSession!Answer(c, d)
                     /\ wire[c].op \in {"login", "refresh"} => d.token = page.now
    <2> USE DEF AppSession!Lost, AppSession!ServeLogin, AppSession!ServeRefresh,
                AppSession!ServeLogout, AppSession!ServeDelete, AppSession!ServeMe,
                AppSession!Serve, AppSession!Refuse, AppSession!Issue
    <2>1. CASE AppSession!ServeLogin(c) \/ AppSession!ServeRefresh(c)
      BY <2>1
    <2>2. CASE AppSession!ServeLogout(c) \/ AppSession!ServeDelete(c) \/ AppSession!ServeMe(c)
      BY <2>2
    <2>3. CASE AppSession!Lost(c)
      BY <2>3
    <2> QED
      BY <2>1, <2>2, <2>3
  <1>2. PICK w : /\ wire' = [wire EXCEPT ![c] = w] /\ w.op = wire[c].op
                 /\ {"at", "op"} \subseteq DOMAIN w
                 /\ w.at = "back" /\ w.op \in {"login", "refresh"} => w.data.token = page.now
    <2>1. CASE wire' = [wire EXCEPT ![c].at = "refused"]
      <3> DEFINE w == [wire[c] EXCEPT !.at = "refused"]
      <3>1. wire' = [wire EXCEPT ![c] = w]
        BY <2>1
      <3>2. w.at = "refused" /\ w.op = wire[c].op /\ {"at", "op"} \subseteq DOMAIN w
        BY <1>0, CallRefused DEF Calls
      <3> HIDE DEF w
      <3> QED
        BY <3>1, <3>2
    <2>2. ASSUME NEW d, AppSession!Answer(c, d),
                 wire[c].op \in {"login", "refresh"} => d.token = page.now
          PROVE  \E w : /\ wire' = [wire EXCEPT ![c] = w] /\ w.op = wire[c].op
                        /\ {"at", "op"} \subseteq DOMAIN w
                        /\ w.at = "back" /\ w.op \in {"login", "refresh"} => w.data.token = page.now
      <3> DEFINE w == Overlay([at |-> "back", data |-> d], wire[c])
      <3>1. wire' = [wire EXCEPT ![c] = w]
        BY <2>2 DEF AppSession!Answer, AppSession!Overlay, Overlay
      <3>2. w.at = "back" /\ w.data = d /\ w.op = wire[c].op /\ {"at", "op"} \subseteq DOMAIN w
        BY <1>0, CallAnswered DEF Calls
      <3> HIDE DEF w
      <3> QED
        BY <2>2, <3>1, <3>2
    <2> QED
      BY <1>1, <2>1, <2>2
  <1>3. wire'[c] = w /\ (\A b \in Connections \ {c} : wire'[b] = wire[b]) /\ Calls'
    BY <1>0, <1>2, CallsChange
  <1>4. AnswersOfNow' /\ (Renewing => Renewing')
    BY <1>0, <1>1, <1>2, <1>3 DEF AnswersOfNow, Renewing
  <1> QED
    BY <1>1, <1>3, <1>4 DEF AppInv

\* What follows an answer: the token is of now, or the clock stops with it, or nothing.
LEMMA AppAnswers ==
    ASSUME AppInv, NEW c \in Connections,
           \/ AppSession!GotToken(c) \/ AppSession!GotMe(c) \/ AppSession!GotGone(c)
           \/ AppSession!GotNothing(c)
    PROVE  AppInv'
  <1>0. ClockPage(page) /\ Calls /\ AnswersOfNow
    BY DEF AppInv
  <1>1. CASE AppSession!GotToken(c)
    <2> DEFINE data == wire[c].data
               p == [page EXCEPT !.token = data.token, !.jar = data.cookie]
               call == [op |-> "me", for |-> wire[c].op, token |-> data.token]
    <2>1. /\ page' = AppSession!Follow(p) /\ AppSession!Send(c, call)
          /\ wire[c].at = "back" /\ wire[c].op \in {"login", "refresh"}
      BY <1>1 DEF AppSession!GotToken, AppSession!Back
    <2>2. data.token = page.now
      BY <1>0, <2>1 DEF AnswersOfNow
    <2>3. DOMAIN call = {"op", "for", "token"}
      OBVIOUS
    <2> HIDE DEF data, call
    <2>4. /\ ClockPage(p) /\ p.token = page.now /\ p.now = page.now
          /\ p.running = page.running /\ p.activity = page.activity
          /\ p.started = page.started /\ p.refreshed = page.refreshed
      BY <1>0, <2>2 DEF ClockPage, ClockPages
    <2> HIDE DEF p
    <2>5. p.running => RenewedInTime(p)
      BY <2>4 DEF AppInv, Fresh, RenewedInTime, SinceRenewal, IdleLeft, WholeLeft
    <2>6. /\ ClockPage(page') /\ page'.now = page.now /\ Fresh(page')
          /\ page'.refreshed <= page'.token
      BY <2>1, <2>4, <2>5, FollowedPages
    <2>7. Calls' /\ AnswersOfNow'
      BY <2>1, <2>3, <2>6, AppSends
    <2> QED
      BY <2>6, <2>7 DEF AppInv
  <1>2. ASSUME AppSession!Hang(c) PROVE Calls' /\ (page'.now = page.now => AnswersOfNow')
    <2>2. {"at", "op"} \subseteq DOMAIN AppSession!Idle
      BY DEF AppSession!Idle
    <2>1. /\ wire'[c] = AppSession!Idle /\ (\A b \in Connections \ {c} : wire'[b] = wire[b])
          /\ Calls'
      BY <1>0, <1>2, <2>2, CallsChange DEF AppSession!Hang
    <2> QED
      BY <1>0, <2>1 DEF AnswersOfNow, AppSession!Idle
  <1>3. ASSUME AppSession!Hang(c), wire[c].op # "refresh" PROVE Renewing => Renewing'
    <2>1. \A b \in Connections \ {c} : wire'[b] = wire[b]
      BY <1>0, <1>3, CallsChange DEF AppSession!Hang
    <2> QED
      BY <1>3, <2>1 DEF Renewing
  <1>4. CASE AppSession!GotMe(c)
    <2>1. /\ page' = [page EXCEPT !.profile = TRUE] /\ AppSession!Hang(c) /\ wire[c].op # "refresh"
      BY <1>4 DEF AppSession!GotMe, AppSession!Back
    <2>2. /\ ClockPage(page') /\ page'.now = page.now /\ page'.token = page.token
          /\ page'.running = page.running /\ page'.activity = page.activity
          /\ page'.started = page.started /\ page'.refreshed = page.refreshed
      BY <1>0, <2>1 DEF ClockPage, ClockPages
    <2>3. Calls' /\ AnswersOfNow' /\ (Renewing => Renewing')
      BY <1>2, <1>3, <2>1, <2>2
    <2> QED
      BY <2>2, <2>3 DEF AppInv, Fresh, RenewedInTime, SinceRenewal, IdleLeft, WholeLeft
  <1>5. CASE AppSession!GotGone(c)
    <2> DEFINE p == AppSession!Stopped(page)
               q == [p EXCEPT !.jar = None, !.inside = FALSE]
    <2>1. page' = AppSession!Follow(AppSession!SignedOut(q)) /\ AppSession!Hang(c)
      BY <1>5 DEF AppSession!GotGone
    <2>2. ClockPage(p) /\ p.now = page.now
      BY <1>0, StoppedPages
    <2> HIDE DEF p
    <2>3. ClockPage(q) /\ q.now = page.now
      BY <2>2 DEF ClockPage, ClockPages
    <2> HIDE DEF q
    <2>4. ClockPage(page') /\ page'.now = page.now /\ ~page'.running
      BY <2>1, <2>3, SignedOutPages
    <2>5. Calls' /\ AnswersOfNow'
      BY <1>2, <2>1, <2>4
    <2> QED
      BY <2>4, <2>5 DEF AppInv
  <1>6. CASE AppSession!GotNothing(c)
    <2>1. /\ AppSession!Hang(c)
          /\ \/ page' = AppSession!Follow(AppSession!SignedOut(page))
             \/ page' = page /\ wire[c].op # "refresh"
      BY <1>6 DEF AppSession!GotNothing
    <2>2. CASE page' = AppSession!Follow(AppSession!SignedOut(page))
      <3>1. ClockPage(page') /\ page'.now = page.now /\ ~page'.running
        BY <1>0, <2>2, SignedOutPages
      <3>2. Calls' /\ AnswersOfNow'
        BY <1>2, <2>1, <3>1
      <3> QED
        BY <3>1, <3>2 DEF AppInv
    <2>3. CASE page' = page /\ wire[c].op # "refresh"
      <3>1. Calls' /\ AnswersOfNow' /\ (Renewing => Renewing')
        BY <1>2, <1>3, <2>1, <2>3
      <3> QED
        BY <2>3, <3>1 DEF AppInv
    <2> QED
      BY <2>1, <2>2, <2>3
  <1> QED
    BY <1>1, <1>4, <1>5, <1>6

LEMMA AppActivity ==
    ASSUME AppInv, AppSession!Activity
    PROVE  AppInv'
  <1>1. /\ page' = [page EXCEPT !.activity = page.now] /\ UNCHANGED wire /\ page.running
        /\ ClockPage(page) /\ Calls /\ AnswersOfNow
    BY DEF AppInv, AppSession!Activity
  <1>2. /\ ClockPage(page') /\ page'.now = page.now /\ page'.token = page.token
        /\ page'.running = page.running /\ page'.activity = page.now
        /\ page'.started = page.started /\ page'.refreshed = page.refreshed
        /\ {page.now, page.activity, page.refreshed, page.started} \subseteq Nat
    BY <1>1 DEF ClockPage, ClockPages
  <1>3. RenewedInTime(page')
    <2>1. RenewedInTime(page)
      BY <1>1 DEF AppInv, Fresh
    <2> QED
      BY <1>2, <2>1, Durations DEF RenewedInTime, SinceRenewal, IdleLeft, WholeLeft
  <1>4. Calls' /\ AnswersOfNow' /\ (Renewing <=> Renewing')
    BY <1>1, <1>2 DEF Calls, AnswersOfNow, Renewing
  <1> QED
    BY <1>1, <1>2, <1>3, <1>4 DEF AppInv, Fresh

LEMMA AppAdvances == ASSUME AppInv, AppSession!Next PROVE AppInv'
  <1>1. ~AppSession!Enter /\ ~AppSession!Leave
    BY DEF AppSession!Enter, AppSession!Leave
  <1> QED
    BY <1>1, AppTicks, AppRenews, AppClicks, AppServes, AppAnswers, AppActivity DEF AppSession!Next

LEMMA AppStutters == ASSUME AppInv, UNCHANGED vars PROVE AppInv'
  BY DEF vars, AppInv, Calls, AnswersOfNow, Renewing, ClockPage, ClockPages, Fresh, RenewedInTime,
         SinceRenewal, IdleLeft, WholeLeft

LEMMA AppTokensLast == ASSUME AppInv PROVE AppSession!TokenNeverLapses
  BY DEF AppInv, Fresh, AppSession!TokenNeverLapses, AppSession!Accepted

(*****************************************************************************)
(* The web's refresh tokens, one call at a time                              *)
(*****************************************************************************)
\* The tokens that should be live, for that cookie.
Held(jar) == {jar} \ {None}

\* What each call in flight finds, and leaves.
Standing(w) ==
    \/ w.at = "idle" /\ server.live = Held(page.jar) /\ (page.token = NoToken => page.jar = None)
    \/ w.op = "refresh" /\ w.at = "sent" /\ w.cookie = page.jar /\ server.live = Held(page.jar)
    \/ w.op = "refresh" /\ w.at = "refused" /\ page.jar = None /\ server.live = {}
    \/ w.op = "login" /\ w.at = "sent" /\ page.jar = None /\ server.live = {}
    \/ /\ w.op \in {"refresh", "login"} /\ w.at = "back"
       /\ w.data.token = page.now /\ w.data.cookie \in Cookies /\ server.live = {w.data.cookie}
    \/ /\ w.op = "me" /\ w.at \in {"sent", "back"} /\ server.live = Held(page.jar)
       /\ page.token = page.now /\ (w.at = "sent" => w.token = page.now)
    \/ w.op = "logout" /\ w.at = "sent" /\ w.cookie = page.jar /\ server.live = Held(page.jar)
    \/ w.op = "delete" /\ w.at \in {"sent", "refused"} /\ page.token # NoToken
       /\ server.live = Held(page.jar)
    \/ w.op \in {"logout", "delete"} /\ w.at = "back" /\ server.live = {}

WebTypes ==
    /\ ClockPage(page) /\ page.jar \in Cookies \cup {None}
    /\ server \in [live : SUBSET Cookies, last : Nat, lost : Nat]
    /\ Calls

WebInv == WebTypes /\ \A c \in Connections : Standing(wire[c])

LEMMA WebStarts == ASSUME WebSession!Init PROVE WebInv
  BY DEF WebSession!Init, WebSession!NoCalls, WebSession!Idle, WebInv, WebTypes, ClockPage,
         ClockPages,
         Calls, Standing, Held, WebSession!NoToken, NoToken

Kept(p, q) == ClockPage(q) /\ q.now = p.now /\ q.jar = p.jar /\ q.token = p.token

LEMMA KeptPages ==
    ASSUME NEW p, ClockPage(p)
    PROVE  /\ Kept(p, WebSession!Stopped(p)) /\ Kept(p, WebSession!Started(p))
           /\ Kept(p, WebSession!Stamped(p)) /\ Kept(p, WebSession!Warned(p))
           /\ \A t \in Nat : /\ Kept(p, [p EXCEPT !.refreshed = t])
                            /\ Kept(p, [p EXCEPT !.activity = t])
           /\ \A b \in BOOLEAN : /\ Kept(p, [p EXCEPT !.inside = b])
                                 /\ Kept(p, [p EXCEPT !.profile = b])
  <1>1. Kept(p, WebSession!Stamped(p)) /\ Kept(p, WebSession!Started(p))
    BY DEF Kept, ClockPage, ClockPages, WebSession!Stamped, WebSession!Started
  <1>2. Kept(p, WebSession!Stopped(p))
    BY DEF Kept, ClockPage, ClockPages, WebSession!Stopped
  <1>3. Kept(p, WebSession!Warned(p))
    <2>1. PICK b \in BOOLEAN : WebSession!Warned(p) = [p EXCEPT !.warned = b]
      BY DEF WebSession!Warned, ClockPage, ClockPages
    <2> QED
      BY <2>1 DEF Kept, ClockPage, ClockPages
  <1>4. \A t \in Nat : Kept(p, [p EXCEPT !.refreshed = t]) /\ Kept(p, [p EXCEPT !.activity = t])
    BY DEF Kept, ClockPage, ClockPages
  <1>5. \A b \in BOOLEAN : Kept(p, [p EXCEPT !.inside = b]) /\ Kept(p, [p EXCEPT !.profile = b])
    BY DEF Kept, ClockPage, ClockPages
  <1> QED
    BY <1>1, <1>2, <1>3, <1>4, <1>5

LEMMA SentAlone ==
    ASSUME Calls, NEW c, Connections = {c},
           NEW call, "op" \in DOMAIN call, "at" \notin DOMAIN call, WebSession!Send(c, call)
    PROVE  /\ Calls' /\ wire'[c].at = "sent" /\ wire'[c].op = call.op
           /\ \A x \in DOMAIN call : wire'[c][x] = call[x]
  <1> DEFINE w == Overlay([at |-> "sent"], call)
  <1>1. w.at = "sent" /\ w.op = call.op /\ {"at", "op"} \subseteq DOMAIN w
        /\ \A x \in DOMAIN call : w[x] = call[x]
    BY CallSent
  <1>2. wire' = [wire EXCEPT ![c] = w]
    BY DEF WebSession!Send, WebSession!Overlay, Overlay
  <1> HIDE DEF w
  <1>3. wire'[c] = w /\ Calls'
    BY <1>1, <1>2, CallsChange
  <1> QED
    BY <1>1, <1>3

LEMMA AnsweredAlone ==
    ASSUME Calls, NEW c, Connections = {c}, NEW d, WebSession!Answer(c, d)
    PROVE  Calls' /\ wire'[c].at = "back" /\ wire'[c].op = wire[c].op /\ wire'[c].data = d
  <1> DEFINE w == Overlay([at |-> "back", data |-> d], wire[c])
  <1>1. w.at = "back" /\ w.op = wire[c].op /\ w.data = d /\ {"at", "op"} \subseteq DOMAIN w
    BY CallAnswered DEF Calls
  <1>2. wire' = [wire EXCEPT ![c] = w]
    BY DEF WebSession!Answer, WebSession!Overlay, Overlay
  <1> HIDE DEF w
  <1>3. wire'[c] = w /\ Calls'
    BY <1>1, <1>2, CallsChange
  <1> QED
    BY <1>1, <1>3

LEMMA RefusedAlone ==
    ASSUME Calls, NEW c, Connections = {c}, wire' = [wire EXCEPT ![c].at = "refused"]
    PROVE  Calls' /\ wire'[c].at = "refused" /\ wire'[c].op = wire[c].op
  <1> DEFINE w == [wire[c] EXCEPT !.at = "refused"]
  <1>1. w.at = "refused" /\ w.op = wire[c].op /\ {"at", "op"} \subseteq DOMAIN w
    BY CallRefused DEF Calls
  <1>2. wire' = [wire EXCEPT ![c] = w]
    OBVIOUS
  <1> HIDE DEF w
  <1>3. wire'[c] = w /\ Calls'
    BY <1>1, <1>2, CallsChange
  <1> QED
    BY <1>1, <1>3

LEMMA HungAlone ==
    ASSUME Calls, NEW c, Connections = {c}, WebSession!Hang(c)
    PROVE  Calls' /\ wire'[c].at = "idle"
  <1>1. {"at", "op"} \subseteq DOMAIN WebSession!Idle /\ WebSession!Idle.at = "idle"
    BY DEF WebSession!Idle
  <1> QED
    BY <1>1, CallsChange DEF WebSession!Hang

\* A page that keeps its cookie and sends a call for it, or for its token.
LEMMA WebSends ==
    ASSUME WebTypes, NEW c, Connections = {c}, Standing(wire[c]), wire[c].at = "idle",
           ClockPage(page'), page'.jar = page.jar, UNCHANGED server,
           \/ WebSession!Send(c, [op |-> "refresh", cookie |-> page.jar])
           \/ WebSession!Send(c, [op |-> "logout", cookie |-> page.jar])
           \/ page.token = NoToken /\ WebSession!Send(c, [op |-> "login"])
           \/ /\ page'.token # NoToken
              /\ WebSession!Send(c, [op |-> "delete", token |-> page.token])
    PROVE  WebInv'
  <1>0. server.live = Held(page.jar) /\ (page.token = NoToken => page.jar = None)
    BY DEF Standing
  <1>1. ASSUME NEW o \in {"refresh", "logout"}, WebSession!Send(c, [op |-> o, cookie |-> page.jar])
        PROVE  Calls' /\ Standing(wire[c])'
    <2> DEFINE call == [op |-> o, cookie |-> page.jar]
    <2>1. DOMAIN call = {"op", "cookie"} /\ call["cookie"] = page.jar /\ call.op = o
      OBVIOUS
    <2>2. WebSession!Send(c, call)
      BY <1>1
    <2> HIDE DEF call
    <2>3. /\ Calls' /\ wire'[c].at = "sent" /\ wire'[c].op = o
          /\ wire'[c]["cookie"] = call["cookie"]
      BY <2>1, <2>2, SentAlone DEF WebTypes
    <2> QED
      BY <1>0, <2>1, <2>3 DEF Standing
  <1>2. ASSUME page.token = NoToken, WebSession!Send(c, [op |-> "login"])
        PROVE  Calls' /\ Standing(wire[c])'
    <2> DEFINE call == [op |-> "login"]
    <2>1. DOMAIN call = {"op"} /\ call.op = "login"
      OBVIOUS
    <2>2. WebSession!Send(c, call)
      BY <1>2
    <2> HIDE DEF call
    <2>3. Calls' /\ wire'[c].at = "sent" /\ wire'[c].op = "login"
      BY <2>1, <2>2, SentAlone DEF WebTypes
    <2> QED
      BY <1>0, <1>2, <2>3 DEF Standing, Held
  <1>3. ASSUME page'.token # NoToken, WebSession!Send(c, [op |-> "delete", token |-> page.token])
        PROVE  Calls' /\ Standing(wire[c])'
    <2> DEFINE call == [op |-> "delete", token |-> page.token]
    <2>1. DOMAIN call = {"op", "token"} /\ call.op = "delete"
      OBVIOUS
    <2>2. WebSession!Send(c, call)
      BY <1>3
    <2> HIDE DEF call
    <2>3. Calls' /\ wire'[c].at = "sent" /\ wire'[c].op = "delete"
      BY <2>1, <2>2, SentAlone DEF WebTypes
    <2> QED
      BY <1>0, <1>3, <2>3 DEF Standing
  <1>4. Calls' /\ Standing(wire[c])'
    BY <1>1, <1>2, <1>3
  <1> QED
    BY <1>4 DEF WebInv, WebTypes

\* The clock, the organizer's clicks, and the shell.
LEMMA WebClicks ==
    ASSUME WebInv, NEW c, Connections = {c},
           \/ WebSession!Renew(c) \/ WebSession!Expire(c) \/ WebSession!Reload(c)
           \/ WebSession!Login(c) \/ WebSession!Extend(c) \/ WebSession!Logout(c)
           \/ WebSession!DeleteAccount(c)
    PROVE  WebInv'
  <1>0. WebTypes /\ Standing(wire[c]) /\ ClockPage(page)
    BY DEF WebInv, WebTypes
  <1>1. wire[c].at = "idle" /\ UNCHANGED server
    BY DEF WebSession!Renew, WebSession!Expire, WebSession!Reload, WebSession!Login,
           WebSession!Extend, WebSession!Logout, WebSession!DeleteAccount, WebSession!Click,
           WebSession!Ticking, WebSession!AtRest, WebSession!Idle
  <1>2. /\ ClockPage(WebSession!Later) /\ WebSession!Later.jar = page.jar
        /\ page.now + 1 \in Nat
    BY <1>0 DEF ClockPage, ClockPages, WebSession!Later
  <1>3. CASE WebSession!Renew(c)
    <2> DEFINE p == WebSession!Later
               q == [p EXCEPT !.refreshed = page.now + 1]
    <2>1. page' = WebSession!Warned(q)
      BY <1>3 DEF WebSession!Renew
    <2> HIDE DEF p
    <2>2. Kept(p, q)
      BY <1>2, KeptPages DEF p
    <2> HIDE DEF q
    <2>3. Kept(q, page')
      BY <2>1, <2>2, KeptPages DEF Kept
    <2>4. ClockPage(page') /\ page'.jar = page.jar
      BY <1>2, <2>2, <2>3 DEF Kept, p
    <2> QED
      BY <1>0, <1>1, <1>3, <2>4, WebSends DEF WebSession!Renew
  <1>4. CASE WebSession!Expire(c)
    <2> DEFINE p == WebSession!Later
               q == WebSession!Warned(p)
    <2>1. page' = WebSession!Stopped(q)
      BY <1>4 DEF WebSession!Expire
    <2> HIDE DEF p
    <2>2. Kept(p, q)
      BY <1>2, KeptPages DEF p
    <2> HIDE DEF q
    <2>3. Kept(q, page')
      BY <2>1, <2>2, KeptPages DEF Kept
    <2>4. ClockPage(page') /\ page'.jar = page.jar
      BY <1>2, <2>2, <2>3 DEF Kept, p
    <2> QED
      BY <1>0, <1>1, <1>4, <2>4, WebSends DEF WebSession!Expire
  <1>5. CASE WebSession!Reload(c)
    <2>1. ClockPage(page') /\ page'.jar = page.jar
      BY <1>0, <1>5 DEF WebSession!Reload, WebSession!SignedOut, WebSession!NoToken, NoToken,
                        ClockPage, ClockPages
    <2> QED
      BY <1>0, <1>1, <1>5, <2>1, WebSends DEF WebSession!Reload
  <1>6. CASE WebSession!Login(c) \/ WebSession!DeleteAccount(c)
    <2>1. /\ page' = page
          /\ \/ page.token = NoToken /\ WebSession!Send(c, [op |-> "login"])
             \/ /\ page.token # NoToken
                /\ WebSession!Send(c, [op |-> "delete", token |-> page.token])
      BY <1>6 DEF WebSession!Login, WebSession!DeleteAccount, WebSession!SignedIn,
                  WebSession!NoToken, NoToken
    <2> QED
      BY <1>0, <1>1, <2>1, WebSends
  <1>7. CASE WebSession!Extend(c) \/ WebSession!Logout(c)
    <2>1. page' = page \/ page' = WebSession!Stamped(page) \/ page' = WebSession!Stopped(page)
      BY <1>7 DEF WebSession!Extend, WebSession!Logout
    <2>2. ClockPage(page') /\ page'.jar = page.jar
      BY <1>0, <2>1, KeptPages DEF Kept
    <2> QED
      BY <1>0, <1>1, <1>7, <2>2, WebSends DEF WebSession!Extend, WebSession!Logout
  <1> QED
    BY <1>3, <1>4, <1>5, <1>6, <1>7

LEMMA WebMoves ==
    ASSUME WebInv, NEW c, Connections = {c},
           WebSession!Activity \/ WebSession!Pass \/ WebSession!Enter \/ WebSession!Leave
    PROVE  WebInv'
  <1>0. WebTypes /\ Standing(wire[c]) /\ ClockPage(page)
    BY DEF WebInv, WebTypes
  <1>1. UNCHANGED <<server, wire>>
    BY DEF WebSession!Activity, WebSession!Pass, WebSession!Enter, WebSession!Leave
  <1>2. Calls'
    BY <1>0, <1>1 DEF WebTypes, Calls
  <1>3. CASE WebSession!Pass
    <2> DEFINE p == WebSession!Later
    <2>1. /\ page' = WebSession!Warned(p) /\ WebSession!AtRest
          /\ ClockPage(p) /\ p.jar = page.jar /\ p.token = page.token
      BY <1>0, <1>3 DEF WebSession!Pass, WebSession!Ticking, WebSession!Later, ClockPage, ClockPages
    <2> HIDE DEF p
    <2>2. Kept(p, page')
      BY <2>1, KeptPages
    <2>3. wire[c].at = "idle"
      BY <2>1 DEF WebSession!AtRest, WebSession!Idle
    <2>4. ClockPage(page') /\ Standing(wire[c])'
      BY <1>0, <1>1, <2>1, <2>2, <2>3 DEF Kept, Standing
    <2> QED
      BY <1>0, <1>1, <1>2, <2>1, <2>2, <2>4 DEF WebInv, WebTypes, Kept
  <1>4. CASE WebSession!Activity \/ WebSession!Enter \/ WebSession!Leave
    <2>1. Kept(page, page')
      <3>1. CASE WebSession!Activity
        <4>1. page' = [page EXCEPT !.activity = page.now] /\ page.now \in Nat
          BY <1>0, <3>1 DEF WebSession!Activity, ClockPage, ClockPages
        <4> QED
          BY <1>0, <4>1, KeptPages
      <3>2. CASE WebSession!Enter
        <4> DEFINE p == WebSession!Started(page)
        <4>1. page' = [p EXCEPT !.inside = TRUE]
          BY <3>2 DEF WebSession!Enter
        <4>2. Kept(page, p)
          BY <1>0, KeptPages
        <4> HIDE DEF p
        <4>3. Kept(p, page')
          BY <4>1, <4>2, KeptPages DEF Kept
        <4> QED
          BY <4>2, <4>3 DEF Kept
      <3>3. CASE WebSession!Leave
        <4> DEFINE p == WebSession!Stopped(page)
        <4>1. page' = [p EXCEPT !.inside = FALSE]
          BY <3>3 DEF WebSession!Leave
        <4>2. Kept(page, p)
          BY <1>0, KeptPages
        <4> HIDE DEF p
        <4>3. Kept(p, page')
          BY <4>1, <4>2, KeptPages DEF Kept
        <4> QED
          BY <4>2, <4>3 DEF Kept
      <3> QED
        BY <1>4, <3>1, <3>2, <3>3
    <2>2. Standing(wire[c])'
      BY <1>0, <1>1, <2>1 DEF Kept, Standing
    <2> QED
      BY <1>0, <1>1, <1>2, <2>1, <2>2 DEF WebInv, WebTypes, Kept
  <1> QED
    BY <1>3, <1>4

\* The API: the cookie shown is the live one, and the token of the profile is of now.
LEMMA WebServes ==
    ASSUME WebInv, NEW c, Connections = {c},
           \/ WebSession!Lost(c) \/ WebSession!ServeLogin(c) \/ WebSession!ServeRefresh(c)
           \/ WebSession!ServeLogout(c) \/ WebSession!ServeDelete(c) \/ WebSession!ServeMe(c)
    PROVE  WebInv'
  <1>0. WebTypes /\ Standing(wire[c]) /\ Calls /\ page.jar \in Cookies \cup {None}
    BY DEF WebInv, WebTypes
  <1>1. ~WebSession!Lost(c)
    BY <1>0 DEF WebSession!Lost, WebTypes
  <1>2. UNCHANGED page /\ wire[c].at = "sent"
    BY <1>1 DEF WebSession!ServeLogin, WebSession!ServeRefresh, WebSession!ServeLogout,
                WebSession!ServeDelete, WebSession!ServeMe, WebSession!Serve
  <1>3. ASSUME NEW others, NEW family \in Nat, WebSession!Issue(c, others, family), others = {},
               wire[c].op \in {"login", "refresh"}
        PROVE  WebInv'
    <2> DEFINE token == [id |-> server.last + 1, family |-> family]
               data == [cookie |-> token, token |-> page.now]
    <2>1. /\ server' = [server EXCEPT !.live = others \cup {token}, !.last = token.id]
          /\ WebSession!Answer(c, data)
      BY <1>3 DEF WebSession!Issue
    <2>2. token \in Cookies /\ token.id \in Nat
      BY <1>0 DEF WebTypes, Cookies
    <2>3. data.cookie = token /\ data.token = page.now
      OBVIOUS
    <2> HIDE DEF token, data
    <2>4. /\ server' \in [live : SUBSET Cookies, last : Nat, lost : Nat]
          /\ server'.live = {token}
      <3> DEFINE n == token.id  s == {token}
      <3>1. server' = [server EXCEPT !.live = s, !.last = n] /\ n \in Nat /\ s \in SUBSET Cookies
        BY <1>3, <2>1, <2>2
      <3> HIDE DEF n, s
      <3> QED
        BY <1>0, <3>1 DEF WebTypes, s
    <2>5. /\ Calls' /\ wire'[c].at = "back" /\ wire'[c].op = wire[c].op
          /\ wire'[c].data = data
      BY <1>0, <2>1, AnsweredAlone
    <2>6. Standing(wire[c])'
      BY <1>2, <1>3, <2>2, <2>3, <2>4, <2>5 DEF Standing
    <2> QED
      BY <1>0, <1>2, <2>4, <2>5, <2>6 DEF WebInv, WebTypes
  <1>4. CASE WebSession!ServeLogin(c)
    <2>1. /\ wire[c].op = "login" /\ WebSession!Issue(c, server.live, server.last + 1)
          /\ server.last + 1 \in Nat
      BY <1>0, <1>4 DEF WebSession!ServeLogin, WebSession!Serve, WebTypes
    <2>2. server.live = {}
      BY <1>0, <1>2, <2>1 DEF Standing
    <2> QED
      BY <1>3, <2>1, <2>2
  <1>5. CASE WebSession!ServeRefresh(c)
    <2>1. wire[c].op = "refresh" /\ wire[c].cookie = page.jar /\ server.live = Held(page.jar)
      BY <1>0, <1>2, <1>5 DEF WebSession!ServeRefresh, WebSession!Serve, Standing
    <2>2. CASE page.jar = None
      <3>1. wire' = [wire EXCEPT ![c].at = "refused"] /\ UNCHANGED server
        BY <1>5, <2>1, <2>2 DEF WebSession!ServeRefresh, WebSession!Refuse
      <3>2. Calls' /\ wire'[c].at = "refused" /\ wire'[c].op = "refresh"
        BY <1>0, <2>1, <3>1, RefusedAlone
      <3>3. Standing(wire[c])'
        BY <1>2, <2>1, <2>2, <3>1, <3>2 DEF Standing, Held
      <3> QED
        BY <1>0, <1>2, <3>1, <3>2, <3>3 DEF WebInv, WebTypes
    <2>3. CASE page.jar # None
      <3>1. page.jar \in Cookies /\ server.live = {page.jar}
        BY <1>0, <2>1, <2>3 DEF Held
      <3>2. /\ WebSession!Issue(c, server.live \ {page.jar}, page.jar.family)
            /\ page.jar.family \in Nat
        BY <1>5, <2>1, <2>3, <3>1 DEF WebSession!ServeRefresh, Cookies
      <3>3. server.live \ {page.jar} = {}
        BY <3>1
      <3> QED
        BY <1>3, <2>1, <3>2, <3>3
    <2> QED
      BY <2>2, <2>3
  <1>6. CASE WebSession!ServeLogout(c)
    <2>1. /\ wire[c].op = "logout" /\ WebSession!Answer(c, None)
          /\ server' = [server EXCEPT !.live = @ \ {wire[c].cookie}]
          /\ wire[c].cookie = page.jar /\ server.live = Held(page.jar)
      BY <1>0, <1>2, <1>6 DEF WebSession!ServeLogout, WebSession!Serve, Standing
    <2>2. /\ server' \in [live : SUBSET Cookies, last : Nat, lost : Nat]
          /\ server'.live = {}
      BY <1>0, <2>1 DEF WebTypes, Held
    <2>3. Calls' /\ wire'[c].at = "back" /\ wire'[c].op = "logout"
      BY <1>0, <2>1, AnsweredAlone
    <2>4. Standing(wire[c])'
      BY <2>2, <2>3 DEF Standing
    <2> QED
      BY <1>0, <1>2, <2>2, <2>3, <2>4 DEF WebInv, WebTypes
  <1>7. CASE WebSession!ServeDelete(c)
    <2>1. wire[c].op = "delete" /\ page.token # NoToken /\ server.live = Held(page.jar)
      BY <1>0, <1>2, <1>7 DEF WebSession!ServeDelete, WebSession!Serve, Standing
    <2>2. CASE /\ server' = [server EXCEPT !.live = {}]
               /\ WebSession!Answer(c, None)
      <3>1. /\ server' \in [live : SUBSET Cookies, last : Nat, lost : Nat]
            /\ server'.live = {}
        BY <1>0, <2>2 DEF WebTypes
      <3>2. Calls' /\ wire'[c].at = "back" /\ wire'[c].op = "delete"
        BY <1>0, <2>1, <2>2, AnsweredAlone
      <3>3. Standing(wire[c])'
        BY <3>1, <3>2 DEF Standing
      <3> QED
        BY <1>0, <1>2, <3>1, <3>2, <3>3 DEF WebInv, WebTypes
    <2>3. CASE wire' = [wire EXCEPT ![c].at = "refused"] /\ UNCHANGED server
      <3>1. Calls' /\ wire'[c].at = "refused" /\ wire'[c].op = "delete"
        BY <1>0, <2>1, <2>3, RefusedAlone
      <3>2. Standing(wire[c])'
        BY <1>2, <2>1, <2>3, <3>1 DEF Standing
      <3> QED
        BY <1>0, <1>2, <2>3, <3>1, <3>2 DEF WebInv, WebTypes
    <2> QED
      BY <1>7, <2>2, <2>3 DEF WebSession!ServeDelete, WebSession!Refuse
  <1>8. CASE WebSession!ServeMe(c)
    <2>1. /\ wire[c].op = "me" /\ wire[c].token = page.now /\ page.token = page.now
          /\ server.live = Held(page.jar)
      BY <1>0, <1>2, <1>8 DEF WebSession!ServeMe, WebSession!Serve, Standing
    <2>2. page.now \in Nat
      BY <1>0 DEF WebTypes, ClockPage, ClockPages
    <2>3. WebSession!Accepted(page.now) /\ page.now # WebSession!NoToken
      BY <2>2, Durations DEF WebSession!Accepted, WebSession!NoToken
    <2>4. WebSession!Answer(c, None) /\ UNCHANGED server
      BY <1>8, <2>1, <2>3 DEF WebSession!ServeMe, WebSession!SignedIn
    <2>5. Calls' /\ wire'[c].at = "back" /\ wire'[c].op = "me"
      BY <1>0, <2>1, <2>4, AnsweredAlone
    <2>6. Standing(wire[c])'
      BY <1>2, <2>1, <2>4, <2>5 DEF Standing
    <2> QED
      BY <1>0, <1>2, <2>4, <2>5, <2>6 DEF WebInv, WebTypes
  <1> QED
    BY <1>1, <1>4, <1>5, <1>6, <1>7, <1>8

\* What follows the answers: only a profile, or an account not deleted, goes unanswered.
LEMMA WebAnswers ==
    ASSUME WebInv, NEW c, Connections = {c},
           \/ WebSession!GotToken(c) \/ WebSession!GotMe(c) \/ WebSession!GotGone(c)
           \/ WebSession!GotNothing(c)
    PROVE  WebInv'
  <1>0. /\ WebTypes /\ Standing(wire[c]) /\ Calls /\ ClockPage(page)
        /\ page.jar \in Cookies \cup {None}
    BY DEF WebInv, WebTypes
  <1>1. UNCHANGED server
    BY DEF WebSession!GotToken, WebSession!GotMe, WebSession!GotGone, WebSession!GotNothing,
           WebSession!Back, WebSession!Refused
  <1>2. CASE WebSession!GotToken(c)
    <2> DEFINE data == wire[c].data
               call == [op |-> "me", for |-> wire[c].op, token |-> data.token]
    <2>1. /\ page' = [page EXCEPT !.token = data.token, !.jar = data.cookie]
          /\ WebSession!Send(c, call)
          /\ wire[c].at = "back" /\ wire[c].op \in {"login", "refresh"}
      BY <1>2 DEF WebSession!GotToken, WebSession!Back, WebSession!Follow
    <2>2. data.token = page.now /\ data.cookie \in Cookies /\ server.live = {data.cookie}
      BY <1>0, <2>1 DEF Standing
    <2>3. DOMAIN call = {"op", "for", "token"} /\ call.op = "me" /\ call["token"] = data.token
      OBVIOUS
    <2> HIDE DEF data, call
    <2>4. /\ ClockPage(page') /\ page'.jar = data.cookie /\ page'.token = page.now
          /\ page'.now = page.now
      BY <1>0, <2>1, <2>2 DEF ClockPage, ClockPages
    <2>5. /\ Calls' /\ wire'[c].at = "sent" /\ wire'[c].op = "me"
          /\ wire'[c]["token"] = call["token"]
      BY <1>0, <2>1, <2>3, SentAlone
    <2>6. server'.live = Held(page'.jar)
      BY <1>1, <2>2, <2>4, NoneIsNoCookie DEF Held
    <2>7. Standing(wire[c])'
      BY <2>2, <2>3, <2>4, <2>5, <2>6 DEF Standing
    <2> QED
      BY <1>0, <1>1, <2>2, <2>4, <2>5, <2>7 DEF WebInv, WebTypes
  <1>3. CASE WebSession!GotMe(c)
    <2>1. /\ page' = [page EXCEPT !.profile = TRUE] /\ WebSession!Hang(c) /\ wire[c].op = "me"
          /\ wire[c].at = "back"
      BY <1>3 DEF WebSession!GotMe, WebSession!Back
    <2>2. Kept(page, page')
      BY <1>0, <2>1, KeptPages
    <2>3. Calls' /\ wire'[c].at = "idle"
      BY <1>0, <2>1, HungAlone
    <2>4. page.token = page.now /\ page.now \in Nat /\ server.live = Held(page.jar)
      BY <1>0, <2>1 DEF Standing, ClockPage, ClockPages
    <2>5. Standing(wire[c])'
      BY <1>1, <2>2, <2>3, <2>4 DEF Standing, Kept, NoToken
    <2> QED
      BY <1>0, <1>1, <2>2, <2>3, <2>5 DEF WebInv, WebTypes, Kept
  <1>4. CASE WebSession!GotGone(c)
    <2> DEFINE p == WebSession!Stopped(page)
    <2>1. /\ page' = WebSession!SignedOut([p EXCEPT !.jar = None, !.inside = FALSE])
          /\ WebSession!Hang(c) /\ wire[c].op \in {"logout", "delete"} /\ wire[c].at = "back"
      BY <1>4 DEF WebSession!GotGone, WebSession!Back, WebSession!Follow
    <2>2. ClockPage(p)
      BY <1>0, KeptPages DEF Kept
    <2> HIDE DEF p
    <2>3. ClockPage(page') /\ page'.jar = None
      BY <2>1, <2>2 DEF ClockPage, ClockPages, WebSession!SignedOut, WebSession!NoToken, NoToken
    <2>4. Calls' /\ wire'[c].at = "idle"
      BY <1>0, <2>1, HungAlone
    <2>5. server.live = {}
      BY <1>0, <2>1 DEF Standing
    <2>6. Standing(wire[c])'
      BY <1>1, <2>3, <2>4, <2>5 DEF Standing, Held
    <2> QED
      BY <1>0, <1>1, <2>3, <2>4, <2>6 DEF WebInv, WebTypes
  <1>5. CASE WebSession!GotNothing(c)
    <2>1. wire[c].at = "refused" /\ WebSession!Hang(c)
      BY <1>5 DEF WebSession!GotNothing, WebSession!Refused
    <2>2. Calls' /\ wire'[c].at = "idle"
      BY <1>0, <2>1, HungAlone
    <2>3. CASE wire[c].op = "refresh"
      <3>1. page' = WebSession!SignedOut(page) /\ page.jar = None /\ server.live = {}
        BY <1>0, <1>5, <2>1, <2>3 DEF WebSession!GotNothing, WebSession!Follow, Standing
      <3>2. ClockPage(page') /\ page'.jar = None
        BY <1>0, <3>1 DEF ClockPage, ClockPages, WebSession!SignedOut, WebSession!NoToken, NoToken
      <3>3. Standing(wire[c])'
        BY <1>1, <2>2, <3>1, <3>2 DEF Standing, Held
      <3> QED
        BY <1>0, <1>1, <2>2, <3>2, <3>3 DEF WebInv, WebTypes
    <2>4. CASE wire[c].op # "refresh"
      <3>1. wire[c].op = "delete" /\ page.token # NoToken /\ server.live = Held(page.jar)
        BY <1>0, <2>1, <2>4 DEF Standing
      <3>2. page' = page
        BY <1>5, <3>1 DEF WebSession!GotNothing
      <3>3. Standing(wire[c])'
        BY <1>1, <2>2, <3>1, <3>2 DEF Standing
      <3> QED
        BY <1>0, <1>1, <2>2, <3>2, <3>3 DEF WebInv, WebTypes
    <2> QED
      BY <2>3, <2>4
  <1> QED
    BY <1>2, <1>3, <1>4, <1>5

LEMMA WebAdvances == ASSUME WebInv, NEW c, Connections = {c}, WebSession!Next PROVE WebInv'
  BY WebMoves, WebClicks, WebServes, WebAnswers DEF WebSession!Next

LEMMA WebStutters == ASSUME WebInv, UNCHANGED vars PROVE WebInv'
  BY DEF vars, WebInv, WebTypes, Calls, ClockPage, ClockPages, Standing

LEMMA WebRevokes == ASSUME WebInv, NEW c, Connections = {c} PROVE WebSession!SignedOutIsRevoked
  <1>1. WebSession!AtRest => wire[c].at = "idle"
    BY DEF WebSession!AtRest, WebSession!Idle
  <1> QED
    BY <1>1 DEF WebInv, WebTypes, Standing, Held, WebSession!SignedOutIsRevoked,
                WebSession!SignedIn,
                WebSession!NoToken, NoToken

(*****************************************************************************)
(* The alerts about favourites                                               *)
(*****************************************************************************)
SeveralCalls ==
    /\ wire = [c \in Several |-> wire[c]]
    /\ \A c \in Several : {"at", "op"} \subseteq DOMAIN wire[c]

AlertPages(p) ==
    [favorites : {p.favorites}, cached : BOOLEAN, tournament : {p.tournament},
     connected : BOOLEAN, tick : BOOLEAN, seen : {p.seen}, kept : {p.kept},
     news : {p.news}, alerts : {p.alerts}]

\* Matches are as they were entered.
States == [status : {"SCHEDULED", "LIVE", "COMPLETED", "FORFEITED"}, score : Scores \cup {None}]

\* What is told.
Tidings == {"started"} \cup Scores

AlertTypes ==
    /\ page \in AlertPages(page)
    /\ page.news = [m \in Games |-> page.news[m]]
    /\ page.alerts = [m \in Games |-> page.alerts[m]]
    /\ page.kept \subseteq Games
    /\ \A m \in Games : page.alerts[m] \in Seq(Tidings)
    /\ server \in [match : [Games -> States], up : BOOLEAN, published : BOOLEAN, failures : Nat]
    /\ SeveralCalls

\* A team is asked for while it is a favourite, and its matches stand still meanwhile.
TeamCall(w) ==
    w.op = "team" =>
       /\ "team" \in DOMAIN w /\ w.team \in page.favorites
       /\ w.at = "back" => w.data = [m \in Alerts!MatchesOf(w.team) |-> server.match[m]]

\* Everything told of the match; or one change to tell, and the tick or a call to tell it.
Told(m) ==
    \/ page.seen[m] = server.match[m] /\ page.alerts[m] = page.news[m]
    \/ /\ page.news[m] = page.alerts[m] \o Alerts!Tell(page.seen[m], server.match[m])
       /\ \/ page.tick
          \/ \E c \in Several : /\ wire[c].op = "team" /\ wire[c].at \in {"sent", "back"}
                                /\ m \in Alerts!MatchesOf(wire[c].team)

Watched(m) == m \in DOMAIN page.seen /\ m \in Alerts!Followed(page.favorites) /\ Alerts!Reached

AlertsInv ==
    /\ AlertTypes
    /\ \A c \in Several : TeamCall(wire[c])
    /\ \A m \in Games \ DOMAIN page.seen : page.news[m] = <<>> /\ page.alerts[m] = <<>>
    /\ \A m \in page.kept : Watched(m) /\ Told(m)

LEMMA AlertsStart == ASSUME Alerts!Init PROVE AlertsInv
  <1>1. /\ page = [favorites |-> {}, cached |-> FALSE, tournament |-> None, connected |-> FALSE,
                   tick |-> FALSE, seen |-> <<>>, kept |-> {}, news |-> Alerts!Untold,
                   alerts |-> Alerts!Untold]
        /\ server = [match |-> [m \in Games |-> Alerts!Unplayed], up |-> TRUE,
                     published |-> TRUE, failures |-> 0]
        /\ wire = [c \in Several |-> Alerts!Idle]
    BY DEF Alerts!Init, Alerts!NoCalls
  <1>2. page \in AlertPages(page)
    BY <1>1 DEF AlertPages
  <1>3. page.news = [m \in Games |-> <<>>] /\ page.alerts = [m \in Games |-> <<>>] /\ page.kept = {}
    BY <1>1 DEF Alerts!Untold
  <1>6. \A m \in Games : page.alerts[m] \in Seq(Tidings)
    BY <1>3
  <1>4. server \in [match : [Games -> States], up : BOOLEAN, published : BOOLEAN, failures : Nat]
    BY <1>1 DEF Alerts!Unplayed, States
  <1>5. SeveralCalls /\ \A c \in Several : TeamCall(wire[c])
    BY <1>1 DEF Alerts!Idle, SeveralCalls, TeamCall
  <1> QED
    BY <1>2, <1>3, <1>4, <1>5, <1>6 DEF AlertsInv, AlertTypes

LEMMA AlertCalls ==
    ASSUME AlertsInv, NEW c \in Several, NEW w, wire' = [wire EXCEPT ![c] = w],
           {"at", "op"} \subseteq DOMAIN w
    PROVE  wire'[c] = w /\ (\A b \in Several \ {c} : wire'[b] = wire[b]) /\ SeveralCalls'
  BY OneCallChanges DEF AlertsInv, AlertTypes, SeveralCalls

\* Changes wait for the page to be at rest.
LEMMA AlertsAtRest ==
    ASSUME Alerts!Quiet
    PROVE  ~page.tick /\ \A c \in Several : wire[c].op # "team" /\ wire[c].at = "idle"
  BY DEF Alerts!Quiet, Alerts!AtRest, Alerts!Idle

LEMMA AlertsToldAtRest ==
    ASSUME AlertsInv PROVE Alerts!EveryChangeIsToldOnce
  BY AlertsAtRest DEF AlertsInv, Told, Alerts!EveryChangeIsToldOnce

LEMMA MatchBecomes ==
    ASSUME AlertsInv, NEW m \in Games,
           Alerts!Score(m) \/ Alerts!Validate(m) \/ Alerts!Clear(m) \/ Alerts!Forfeit(m)
    PROVE  AlertsInv'
  <1>0. /\ AlertTypes /\ (\A c \in Several : TeamCall(wire[c]))
        /\ (\A n \in Games \ DOMAIN page.seen : page.news[n] = <<>> /\ page.alerts[n] = <<>>)
        /\ (\A n \in page.kept : Watched(n) /\ Told(n))
    BY DEF AlertsInv
  <1>1. PICK op, state :
           /\ state \in States /\ Alerts!Become(m, op, state)
           /\ \/ op = "score" /\ state.status = "LIVE" /\ state.score # None
              \/ /\ op # "score" /\ state.status # "LIVE"
                 /\ state.score \in {None, server.match[m].score}
    <2>1. CASE Alerts!Score(m)
      <3>1. PICK score \in Scores : Alerts!Become(m, "score", [status |-> "LIVE", score |-> score])
        BY <2>1 DEF Alerts!Score
      <3> QED
        BY <3>1, NoneIsNoScore DEF States
    <2>2. CASE Alerts!Validate(m)
      <3> DEFINE s == [server.match[m] EXCEPT !.status = "COMPLETED"]
      <3>1. Alerts!Become(m, "validate", s)
        BY <2>2 DEF Alerts!Validate
      <3>3. server.match[m] \in States
        BY <1>0 DEF AlertTypes
      <3>2. s \in States /\ s.status = "COMPLETED" /\ s.score = server.match[m].score
        BY <3>3 DEF States
      <3> HIDE DEF s
      <3> QED
        BY <3>1, <3>2
    <2>3. CASE Alerts!Clear(m)
      BY <2>3 DEF Alerts!Clear, Alerts!Unplayed, States
    <2>4. CASE Alerts!Forfeit(m)
      BY <2>4 DEF Alerts!Forfeit, States
    <2> QED
      BY <2>1, <2>2, <2>3, <2>4
  <1> DEFINE told == IF op # "score" THEN <<>>
                     ELSE IF server.match[m].status # "LIVE" THEN <<"started">>
                     ELSE IF server.match[m].score = state.score THEN <<>> ELSE <<state.score>>
             news == IF m \in page.kept THEN page.news[m] \o told ELSE page.news[m]
  <1>2. /\ Alerts!Quiet /\ UNCHANGED wire
        /\ server' = [server EXCEPT !.match[m] = state]
        /\ page' = [page EXCEPT !.tick = @ \/ (page.connected /\ server.up), !.news[m] = news]
    BY <1>1 DEF Alerts!Become
  <1>3. told = Alerts!Tell(server.match[m], state)
    BY <1>1 DEF Alerts!Tell
  <1> HIDE DEF told, news
  <1>4. /\ server' \in [match : [Games -> States], up : BOOLEAN, published : BOOLEAN,
                        failures : Nat]
        /\ server'.match[m] = state /\ server'.up = server.up
        /\ server'.published = server.published
        /\ \A n \in Games \ {m} : server'.match[n] = server.match[n]
    BY <1>0, <1>1, <1>2 DEF AlertTypes
  <1>5. /\ page' \in AlertPages(page')
        /\ page'.tick = (page.tick \/ (page.connected /\ server.up))
        /\ page'.news = [page.news EXCEPT ![m] = news]
        /\ page'.favorites = page.favorites /\ page'.seen = page.seen /\ page'.kept = page.kept
        /\ page'.alerts = page.alerts /\ page'.connected = page.connected
    <2> DEFINE tick == page.tick \/ (page.connected /\ server.up)
               all == [page.news EXCEPT ![m] = news]
    <2>1. page' = [page EXCEPT !.tick = tick, !.news = all] /\ tick \in BOOLEAN
      BY <1>0, <1>2 DEF AlertTypes, AlertPages
    <2> HIDE DEF tick, all
    <2>2. /\ page' \in AlertPages(page')
          /\ page'.tick = tick
          /\ page'.news = all
          /\ page'.favorites = page.favorites /\ page'.seen = page.seen /\ page'.kept = page.kept
          /\ page'.alerts = page.alerts /\ page'.connected = page.connected
      BY <1>0, <2>1 DEF AlertTypes, AlertPages
    <2> QED
      BY <2>2 DEF tick, all
  <1>6. /\ page'.news = [n \in Games |-> page'.news[n]] /\ page'.news[m] = news
        /\ \A n \in Games \ {m} : page'.news[n] = page.news[n]
    BY <1>0, <1>5 DEF AlertTypes
  <1>7. AlertTypes'
    BY <1>0, <1>2, <1>4, <1>5, <1>6 DEF AlertTypes, SeveralCalls
  <1>8. \A c \in Several : wire'[c].op # "team"
    BY <1>2, AlertsAtRest
  <1>9. \A n \in Games \ DOMAIN page'.seen : page'.news[n] = <<>> /\ page'.alerts[n] = <<>>
    <2>1. m \notin DOMAIN page.seen => news = page.news[m]
      BY <1>0 DEF news, Watched
    <2> QED
      BY <1>0, <1>5, <1>6, <2>1
  <1>10. ASSUME NEW n \in page'.kept PROVE Watched(n)' /\ Told(n)'
    <2>1. n \in page.kept /\ n \in Games
      BY <1>0, <1>5 DEF AlertTypes
    <2>2. Watched(n)'
      BY <1>0, <1>4, <1>5, <2>1 DEF Watched, Alerts!Reached, Alerts!Followed
    <2>3. page.seen[n] = server.match[n] /\ page.alerts[n] = page.news[n]
      BY <1>0, <1>2, <2>1, AlertsAtRest DEF Told
    <2>4. page'.tick
      BY <1>0, <1>5, <2>1 DEF Watched, Alerts!Reached
    <2>5. CASE n = m
      <3>1. page'.news[m] = page'.alerts[m] \o Alerts!Tell(page'.seen[m], server'.match[m])
        <4>1. news = page.news[m] \o told
          BY <2>1, <2>5 DEF news
        <4>2. page'.news[m] = news /\ page'.alerts[m] = page.news[m]
          BY <1>5, <1>6, <2>3, <2>5
        <4>3. page'.seen[m] = server.match[m] /\ server'.match[m] = state
          BY <1>4, <1>5, <2>3, <2>5
        <4> QED
          BY <1>3, <4>1, <4>2, <4>3
      <3> QED
        BY <2>2, <2>4, <2>5, <3>1 DEF Told
    <2>6. CASE n # m
      <3>1. page'.seen[n] = server'.match[n] /\ page'.alerts[n] = page'.news[n]
        BY <1>4, <1>5, <1>6, <2>1, <2>3, <2>6
      <3> QED
        BY <2>2, <3>1 DEF Told
    <2> QED
      BY <2>2, <2>5, <2>6
  <1> QED
    BY <1>7, <1>8, <1>9, <1>10 DEF AlertsInv, TeamCall

\* Steps that leave what was seen, told and followed alone, and the matches.
LEMMA AlertsLeftAlone ==
    ASSUME AlertsInv, SeveralCalls',
           NEW c \in Several, \A b \in Several \ {c} : wire'[b] = wire[b],
           wire[c].op = "team" =>
              \/ page.kept = {}
              \/ /\ wire'[c].op = "team" /\ wire'[c].team = wire[c].team
                 /\ wire'[c].at \in {"sent", "back"},
           wire'[c].op = "team" => wire[c].op = "team" /\ TeamCall(wire[c])',
           page' \in AlertPages(page'), page.tick => page'.tick,
           page'.favorites = page.favorites, page'.seen = page.seen, page'.kept = page.kept,
           page'.news = page.news, page'.alerts = page.alerts,
           page.connected => page'.connected, UNCHANGED server
    PROVE  AlertsInv'
  <1>0. /\ AlertTypes /\ (\A b \in Several : TeamCall(wire[b]))
        /\ (\A n \in Games \ DOMAIN page.seen : page.news[n] = <<>> /\ page.alerts[n] = <<>>)
        /\ (\A n \in page.kept : Watched(n) /\ Told(n))
    BY DEF AlertsInv
  <1>1. AlertTypes'
    BY <1>0 DEF AlertTypes
  <1>2. \A b \in Several : TeamCall(wire[b])'
    BY <1>0 DEF TeamCall
  <1>3. \A n \in page'.kept : Watched(n)'
    BY <1>0 DEF Watched, Alerts!Reached
  <1>4. ASSUME NEW n \in page'.kept PROVE Told(n)'
    <2>1. Told(n) /\ page.kept # {}
      BY <1>0
    <2>2. \A b \in Several :
             wire[b].op = "team" /\ wire[b].at \in {"sent", "back"}
                => wire'[b].op = "team" /\ wire'[b].at \in {"sent", "back"}
                   /\ wire'[b].team = wire[b].team
      BY <2>1
    <2> QED
      BY <2>1, <2>2 DEF Told
  <1> QED
    BY <1>0, <1>1, <1>2, <1>3, <1>4 DEF AlertsInv

\* The tournament loaded, whatever comes of it.
LEMMA AlertsLoad ==
    ASSUME AlertsInv, NEW c \in Several,
           Alerts!Load(c) \/ Alerts!ServeLoad(c) \/ Alerts!GotLoad(c) \/ Alerts!GotLoadFailure(c)
    PROVE  AlertsInv'
  <1>0. /\ AlertTypes /\ SeveralCalls /\ page \in AlertPages(page)
        /\ {"at", "op"} \subseteq DOMAIN wire[c]
    BY DEF AlertsInv, AlertTypes, SeveralCalls
  <1>1. UNCHANGED server
    BY DEF Alerts!Load, Alerts!ServeLoad, Alerts!GotLoad, Alerts!GotLoadFailure, Alerts!Back,
           Alerts!Refused
  <1>2. wire[c].op # "team"
    BY DEF Alerts!Load, Alerts!ServeLoad, Alerts!GotLoad, Alerts!GotLoadFailure, Alerts!Back,
           Alerts!Serve, Alerts!Click, Alerts!Idle
  <1>3. /\ SeveralCalls' /\ (\A b \in Several \ {c} : wire'[b] = wire[b])
        /\ wire'[c].op # "team"
    <2>1. PICK w : /\ wire' = [wire EXCEPT ![c] = w] /\ w.op # "team"
                   /\ {"at", "op"} \subseteq DOMAIN w
      <3>1. CASE Alerts!Load(c)
        <4> DEFINE call == [op |-> "load"]
                   w == Overlay([at |-> "sent"], call)
        <4>1. wire' = [wire EXCEPT ![c] = w]
          BY <3>1 DEF Alerts!Load, Alerts!Send, Alerts!Overlay, Overlay
        <4>2. DOMAIN call = {"op"} /\ call.op = "load"
          OBVIOUS
        <4> HIDE DEF call
        <4>3. w.op = "load" /\ {"at", "op"} \subseteq DOMAIN w
          BY <4>2, CallSent
        <4> HIDE DEF w
        <4> QED
          BY <4>1, <4>3
      <3>2. CASE Alerts!ServeLoad(c)
        <4>1. CASE Alerts!Answer(c, None)
          <5> DEFINE w == Overlay([at |-> "back", data |-> None], wire[c])
          <5>1. wire' = [wire EXCEPT ![c] = w]
            BY <4>1 DEF Alerts!Answer, Alerts!Overlay, Overlay
          <5>2. w.op = wire[c].op /\ {"at", "op"} \subseteq DOMAIN w
            BY <1>0, CallAnswered
          <5> HIDE DEF w
          <5> QED
            BY <1>2, <5>1, <5>2
        <4>2. ASSUME wire' = [wire EXCEPT ![c] =
                        Overlay([at |-> "refused", network |-> ~server.up], @)]
              PROVE \E w : /\ wire' = [wire EXCEPT ![c] = w] /\ w.op # "team"
                           /\ {"at", "op"} \subseteq DOMAIN w
          <5> DEFINE w == Overlay([at |-> "refused", network |-> ~server.up], wire[c])
          <5>1. wire' = [wire EXCEPT ![c] = w]
            BY <4>2
          <5>2. w["op"] = wire[c].op /\ DOMAIN w = {"at", "network"} \cup DOMAIN wire[c]
            BY <1>0, SMT DEF Overlay
          <5> HIDE DEF w
          <5>3. w.op = wire[c].op /\ {"at", "op"} \subseteq DOMAIN w
            BY <1>0, <5>2
          <5> QED
            BY <1>2, <5>1, <5>3
        <4> QED
          BY <3>2, <4>1, <4>2 DEF Alerts!ServeLoad, Alerts!Overlay, Overlay
      <3>3. CASE Alerts!GotLoad(c) \/ Alerts!GotLoadFailure(c)
        <4>1. wire' = [wire EXCEPT ![c] = Alerts!Idle]
          BY <3>3 DEF Alerts!GotLoad, Alerts!GotLoadFailure, Alerts!Hang
        <4>2. Alerts!Idle.op # "team" /\ {"at", "op"} \subseteq DOMAIN Alerts!Idle
          BY DEF Alerts!Idle
        <4> QED
          BY <4>1, <4>2
      <3> QED
        BY <3>1, <3>2, <3>3
    <2> QED
      BY <2>1, AlertCalls
  <1>4. /\ page' \in AlertPages(page') /\ (page.tick => page'.tick)
        /\ page'.favorites = page.favorites /\ page'.seen = page.seen /\ page'.kept = page.kept
        /\ page'.news = page.news /\ page'.alerts = page.alerts
        /\ page.connected => page'.connected
    <2>1. CASE Alerts!Load(c) \/ Alerts!ServeLoad(c)
      BY <1>0, <2>1 DEF Alerts!Load, Alerts!ServeLoad, Alerts!Serve, AlertPages
    <2>2. CASE Alerts!GotLoad(c)
      BY <1>0, <2>2 DEF Alerts!GotLoad, AlertPages
    <2>3. CASE Alerts!GotLoadFailure(c)
      <3> DEFINE copy == wire[c].network /\ page.cached
                 shown == IF copy THEN "copy" ELSE None
                 tick == page.tick \/ copy
      <3>1. page' = [page EXCEPT !.tournament = shown, !.tick = tick]
        BY <2>3 DEF Alerts!GotLoadFailure
      <3>2. tick \in BOOLEAN /\ (page.tick => tick)
        OBVIOUS
      <3> HIDE DEF shown, tick
      <3> QED
        BY <1>0, <3>1, <3>2 DEF AlertPages
    <2> QED
      BY <2>1, <2>2, <2>3
  <1> QED
    BY <1>1, <1>2, <1>3, <1>4, AlertsLeftAlone

\* A call about a team answered as its matches are; or refused, when nothing is followed.
LEMMA AlertsServe ==
    ASSUME AlertsInv, NEW c \in Several,
           Alerts!ServeTeam(c) \/ Alerts!GotTeamFailure(c)
    PROVE  AlertsInv'
  <1>0. /\ AlertTypes /\ SeveralCalls /\ page \in AlertPages(page)
        /\ {"at", "op"} \subseteq DOMAIN wire[c]
        /\ TeamCall(wire[c])
    BY DEF AlertsInv, AlertTypes, SeveralCalls
  <1>1. UNCHANGED <<page, server>> /\ wire[c].op = "team"
    BY DEF Alerts!ServeTeam, Alerts!GotTeamFailure, Alerts!Serve, Alerts!Refused, Alerts!Refuse
  <1>2. CASE Alerts!GotTeamFailure(c)
    <2>1. wire[c].at = "refused" /\ wire' = [wire EXCEPT ![c] = Alerts!Idle]
      BY <1>2 DEF Alerts!GotTeamFailure, Alerts!Refused, Alerts!Hang
    <2>2. Alerts!Idle.op # "team" /\ {"at", "op"} \subseteq DOMAIN Alerts!Idle
      BY DEF Alerts!Idle
    <2>3. /\ SeveralCalls' /\ (\A b \in Several \ {c} : wire'[b] = wire[b])
          /\ wire'[c].op # "team"
      BY <2>1, <2>2, AlertCalls
    <2>4. ASSUME NEW n \in page'.kept PROVE Told(n)'
      <3>1. Told(n)
        BY <1>1, <2>4 DEF AlertsInv
      <3>2. \A b \in Several : wire[b].at \in {"sent", "back"} => wire'[b] = wire[b]
        BY <2>1, <2>3
      <3> QED
        BY <1>1, <3>1, <3>2 DEF Told
    <2>5. AlertTypes'
      BY <1>0, <1>1, <2>3 DEF AlertTypes, AlertPages
    <2>6. \A b \in Several : TeamCall(wire[b])'
      BY <1>0, <1>1, <2>3 DEF AlertsInv, TeamCall
    <2>7. \A n \in page'.kept : Watched(n)'
      BY <1>1 DEF AlertsInv, Watched, Alerts!Reached
    <2> QED
      BY <1>1, <2>4, <2>5, <2>6, <2>7 DEF AlertsInv
  <1>3. CASE Alerts!ServeTeam(c)
    <2> DEFINE got == [m \in Alerts!MatchesOf(wire[c].team) |-> server.match[m]]
               w == Overlay([at |-> "back", data |-> got], wire[c])
    <2>1. wire[c].at = "sent"
      BY <1>3 DEF Alerts!ServeTeam, Alerts!Serve
    <2>2. "team" \in DOMAIN wire[c] /\ wire[c].team \in page.favorites
      BY <1>0, <1>1 DEF TeamCall
    <2>3. /\ w.at = "back" /\ w.data = got /\ w.op = "team" /\ {"at", "op"} \subseteq DOMAIN w
          /\ w.team = wire[c].team /\ "team" \in DOMAIN w
      <3> HIDE DEF got
      <3>1. /\ w.at = "back" /\ w.data = got /\ w.op = "team" /\ {"at", "op"} \subseteq DOMAIN w
            /\ w["team"] = wire[c]["team"]
        BY <1>0, <1>1, <2>2, CallAnswered
      <3>2. "team" \in DOMAIN w
        BY <2>2 DEF Overlay
      <3> QED
        BY <3>1, <3>2
    <2> HIDE DEF w
    <2>4. CASE wire' = [wire EXCEPT ![c] = w]
      <3>1. /\ wire'[c] = w /\ (\A b \in Several \ {c} : wire'[b] = wire[b])
            /\ SeveralCalls'
        BY <2>3, <2>4, AlertCalls
      <3>2. TeamCall(wire[c])'
        BY <1>1, <2>2, <2>3, <3>1 DEF TeamCall, Alerts!MatchesOf
      <3> QED
        BY <1>0, <1>1, <2>3, <3>1, <3>2, AlertsLeftAlone
    <2>5. CASE ~(server.up /\ server.published) /\ wire' = [wire EXCEPT ![c].at = "refused"]
      <3> DEFINE v == [wire[c] EXCEPT !.at = "refused"]
      <3>1. wire' = [wire EXCEPT ![c] = v]
        BY <2>5
      <3>2. /\ v.at = "refused" /\ v.op = "team" /\ DOMAIN v = DOMAIN wire[c]
            /\ v["team"] = wire[c]["team"]
        BY <1>0, <1>1, <2>2, CallRefused
      <3> HIDE DEF v
      <3>3. wire'[c] = v /\ (\A b \in Several \ {c} : wire'[b] = wire[b]) /\ SeveralCalls'
        BY <1>0, <3>1, <3>2, AlertCalls
      <3>4. TeamCall(wire[c])'
        BY <1>1, <2>2, <3>2, <3>3 DEF TeamCall
      <3>5. page.kept = {}
        BY <2>5 DEF AlertsInv, Watched, Alerts!Reached
      <3> QED
        BY <1>0, <1>1, <3>3, <3>4, <3>5, AlertsLeftAlone
    <2>6. \/ wire' = [wire EXCEPT ![c] = w]
          \/ ~(server.up /\ server.published) /\ wire' = [wire EXCEPT ![c].at = "refused"]
      BY <1>3 DEF Alerts!ServeTeam, Alerts!Answer, Alerts!Refuse, Alerts!Overlay, Overlay, w
    <2> QED
      BY <2>4, <2>5, <2>6
  <1> QED
    BY <1>2, <1>3

\* An answer compared with what was seen: the matches it holds are told of, and seen.
LEMMA AlertsTell ==
    ASSUME AlertsInv, NEW c \in Several, Alerts!GotTeam(c)
    PROVE  AlertsInv'
  <1> DEFINE got == wire[c].data
             seen == Overlay(got, page.seen)
             kept == page.kept \cup {m \in DOMAIN got \ DOMAIN page.seen : Alerts!Reached}
             alerts == [m \in Games |->
                           IF m \in DOMAIN got /\ m \in DOMAIN page.seen
                           THEN page.alerts[m] \o Alerts!Tell(page.seen[m], got[m])
                           ELSE page.alerts[m]]
  <1>0. /\ AlertTypes /\ SeveralCalls /\ page \in AlertPages(page)
        /\ (\A b \in Several : TeamCall(wire[b]))
        /\ (\A m \in Games \ DOMAIN page.seen : page.news[m] = <<>> /\ page.alerts[m] = <<>>)
        /\ (\A m \in page.kept : Watched(m) /\ Told(m))
    BY DEF AlertsInv, AlertTypes
  <1>1. /\ wire[c].op = "team" /\ wire[c].at = "back" /\ UNCHANGED server
        /\ wire' = [wire EXCEPT ![c] = Alerts!Idle]
        /\ page' = [page EXCEPT !.seen = seen, !.kept = kept, !.alerts = alerts]
    BY DEF Alerts!GotTeam, Alerts!Back, Alerts!Hang, Alerts!Overlay, Overlay
  <1>2. /\ wire[c].team \in page.favorites
        /\ got = [m \in Alerts!MatchesOf(wire[c].team) |-> server.match[m]]
    BY <1>0, <1>1 DEF TeamCall
  <1>3. /\ DOMAIN got = Alerts!MatchesOf(wire[c].team) /\ DOMAIN got \subseteq Games
        /\ \A m \in DOMAIN got : got[m] = server.match[m] /\ m \in Alerts!Followed(page.favorites)
    BY <1>2 DEF Alerts!MatchesOf, Alerts!Followed
  <1>4. /\ DOMAIN seen = DOMAIN got \cup DOMAIN page.seen
        /\ \A m \in DOMAIN got : seen[m] = got[m]
        /\ \A m \in DOMAIN page.seen \ DOMAIN got : seen[m] = page.seen[m]
    BY DEF Overlay
  <1>5. /\ DOMAIN alerts = Games /\ alerts = [m \in Games |-> alerts[m]]
        /\ \A m \in Games :
              alerts[m] = IF m \in DOMAIN got /\ m \in DOMAIN page.seen
                          THEN page.alerts[m] \o Alerts!Tell(page.seen[m], got[m])
                          ELSE page.alerts[m]
    OBVIOUS
  <1>6. \A m \in kept : m \in page.kept \/ (m \in DOMAIN got \ DOMAIN page.seen /\ Alerts!Reached)
    OBVIOUS
  <1> HIDE DEF got, seen, kept, alerts
  <1>7. /\ page' \in AlertPages(page')
        /\ page'.seen = seen /\ page'.kept = kept /\ page'.alerts = alerts
        /\ page'.favorites = page.favorites /\ page'.news = page.news
        /\ page'.connected = page.connected /\ page'.tick = page.tick
    BY <1>0, <1>1 DEF AlertPages
  <1>8. Alerts!Idle.op # "team" /\ {"at", "op"} \subseteq DOMAIN Alerts!Idle
    BY DEF Alerts!Idle
  <1>9. /\ SeveralCalls' /\ wire'[c].op # "team"
        /\ \A b \in Several \ {c} : wire'[b] = wire[b]
    BY <1>1, <1>8, AlertCalls
  <1>10. AlertTypes'
    <2>1. kept \subseteq Games
      BY <1>0, <1>3, <1>6 DEF AlertTypes
    <2>2. \A m \in Games : alerts[m] \in Seq(Tidings)
      <3>1. \A m \in Games : page.alerts[m] \in Seq(Tidings) /\ server.match[m] \in States
        BY <1>0 DEF AlertTypes
      <3>2. ASSUME NEW was, NEW is \in States PROVE Alerts!Tell(was, is) \in Seq(Tidings)
        BY DEF Alerts!Tell, States, Tidings
      <3>3. ASSUME NEW m \in Games, m \in DOMAIN got
            PROVE  page.alerts[m] \o Alerts!Tell(page.seen[m], got[m]) \in Seq(Tidings)
        <4> DEFINE told == Alerts!Tell(page.seen[m], got[m])
        <4>1. told \in Seq(Tidings) /\ page.alerts[m] \in Seq(Tidings)
          BY <1>3, <3>1, <3>2, <3>3
        <4> HIDE DEF told
        <4>2. page.alerts[m] \o told \in Seq(Tidings)
          BY <4>1
        <4> QED
          BY <4>2 DEF told
      <3> QED
        BY <1>5, <3>1, <3>3
    <2> QED
      BY <1>0, <1>1, <1>5, <1>7, <1>9, <2>1, <2>2 DEF AlertTypes
  <1>11. \A b \in Several : TeamCall(wire[b])'
    BY <1>0, <1>1, <1>7, <1>9 DEF TeamCall
  <1>12. \A m \in Games \ DOMAIN page'.seen : page'.news[m] = <<>> /\ page'.alerts[m] = <<>>
    BY <1>0, <1>4, <1>5, <1>7
  <1>13. ASSUME NEW m \in page'.kept PROVE Watched(m)'
    BY <1>0, <1>1, <1>3, <1>4, <1>6, <1>7 DEF Watched, Alerts!Reached
  <1>14. ASSUME NEW m \in page'.kept PROVE Told(m)'
    <2>0. m \in Games
      BY <1>0, <1>3, <1>6, <1>7 DEF AlertTypes
    <2>1. CASE m \in DOMAIN got /\ m \in DOMAIN page.seen
      <3>1. m \in page.kept
        BY <1>6, <1>7, <2>1
      <3>2. seen[m] = server.match[m] /\ got[m] = server.match[m]
        BY <1>3, <1>4, <2>1
      <3>3. alerts[m] = page.alerts[m] \o Alerts!Tell(page.seen[m], server.match[m])
        BY <1>5, <2>0, <2>1, <3>2
      <3>4. CASE page.news[m] = page.alerts[m] \o Alerts!Tell(page.seen[m], server.match[m])
        BY <1>1, <1>7, <3>2, <3>3, <3>4 DEF Told
      <3>5. CASE page.seen[m] = server.match[m] /\ page.alerts[m] = page.news[m]
        <4>1. Alerts!Tell(server.match[m], server.match[m]) = <<>>
          BY DEF Alerts!Tell
        <4>2. page.alerts[m] \o <<>> = page.alerts[m]
          <5>1. page.alerts[m] \in Seq(Tidings)
            BY <1>0, <2>0 DEF AlertTypes
          <5> QED
            BY <5>1
        <4> QED
          BY <1>1, <1>7, <3>2, <3>3, <3>5, <4>1, <4>2 DEF Told
      <3> QED
        BY <1>0, <3>1, <3>4, <3>5 DEF Told
    <2>2. CASE m \in DOMAIN got /\ m \notin DOMAIN page.seen
      <3>1. seen[m] = server.match[m]
        BY <1>3, <1>4, <2>2
      <3>2. alerts[m] = <<>> /\ page.news[m] = <<>>
        BY <1>0, <1>5, <2>0, <2>2
      <3> QED
        BY <1>1, <1>7, <3>1, <3>2 DEF Told
    <2>3. CASE m \notin DOMAIN got
      <3>1. m \in page.kept /\ Told(m) /\ m \in DOMAIN page.seen
        BY <1>0, <1>6, <1>7, <2>3 DEF Watched
      <3>2. seen[m] = page.seen[m] /\ alerts[m] = page.alerts[m]
        BY <1>4, <1>5, <2>0, <2>3, <3>1
      <3>3. \A b \in Several : m \in Alerts!MatchesOf(wire[b].team) => b # c
        BY <1>3, <2>3
      <3>4. \A b \in Several : m \in Alerts!MatchesOf(wire[b].team) => wire'[b] = wire[b]
        BY <1>9, <3>3
      <3>5. page.seen[m] = server.match[m] /\ page.alerts[m] = page.news[m] => Told(m)'
        BY <1>1, <1>7, <3>2 DEF Told
      <3> QED
        BY <1>1, <1>7, <3>1, <3>2, <3>4, <3>5 DEF Told
    <2> QED
      BY <2>1, <2>2, <2>3
  <1> QED
    BY <1>10, <1>11, <1>12, <1>13, <1>14 DEF AlertsInv

\* A favourite added or taken away, when everything is told.
LEMMA AlertsToggle ==
    ASSUME AlertsInv, Alerts!Toggle
    PROVE  AlertsInv'
  <1>0. /\ AlertTypes /\ page \in AlertPages(page)
        /\ (\A m \in Games \ DOMAIN page.seen : page.news[m] = <<>> /\ page.alerts[m] = <<>>)
        /\ (\A m \in page.kept : Watched(m) /\ Told(m))
    BY DEF AlertsInv, AlertTypes
  <1>1. PICK favorites :
           /\ Alerts!Quiet /\ UNCHANGED <<server, wire>>
           /\ page' = [page EXCEPT !.favorites = favorites, !.tick = TRUE,
                                   !.kept = @ \cap Alerts!Followed(favorites)]
    BY DEF Alerts!Toggle
  <1>2. /\ page' \in AlertPages(page')
        /\ page'.favorites = favorites
        /\ page'.kept = page.kept \cap Alerts!Followed(favorites)
        /\ page'.seen = page.seen /\ page'.news = page.news /\ page'.alerts = page.alerts
        /\ page'.connected = page.connected
    <2> DEFINE kept == page.kept \cap Alerts!Followed(favorites)
    <2>1. page' = [page EXCEPT !.favorites = favorites, !.tick = TRUE, !.kept = kept]
      BY <1>1
    <2> HIDE DEF kept
    <2>2. /\ page' \in AlertPages(page')
          /\ page'.favorites = favorites /\ page'.kept = kept
          /\ page'.seen = page.seen /\ page'.news = page.news /\ page'.alerts = page.alerts
          /\ page'.connected = page.connected
      BY <1>0, <2>1 DEF AlertPages
    <2> QED
      BY <2>2 DEF kept
  <1>3. \A c \in Several : wire'[c].op # "team"
    BY <1>1, AlertsAtRest
  <1>4. AlertTypes'
    BY <1>0, <1>1, <1>2 DEF AlertTypes, SeveralCalls
  <1>5. ASSUME NEW m \in page'.kept PROVE Watched(m)' /\ Told(m)'
    <2>1. m \in page.kept /\ m \in Alerts!Followed(favorites)
      BY <1>2
    <2>2. page.seen[m] = server.match[m] /\ page.alerts[m] = page.news[m]
      BY <1>0, <1>1, <2>1, AlertsAtRest DEF Told
    <2>3. Told(m)'
      BY <1>1, <1>2, <2>2 DEF Told
    <2>4. m \in Alerts!Followed(page'.favorites)
      BY <1>2, <2>1
    <2>5. m \in DOMAIN page'.seen /\ Alerts!Reached'
      BY <1>0, <1>1, <1>2, <2>1 DEF Watched, Alerts!Reached
    <2> QED
      BY <2>3, <2>4, <2>5 DEF Watched, Alerts!Followed
  <1> QED
    BY <1>0, <1>2, <1>3, <1>4, <1>5 DEF AlertsInv, TeamCall

\* A check asks for every favourite.
LEMMA AlertsCheck ==
    ASSUME AlertsInv, Alerts!Check
    PROVE  AlertsInv'
  <1>0. /\ AlertTypes /\ SeveralCalls /\ page \in AlertPages(page)
        /\ (\A c \in Several : TeamCall(wire[c]))
        /\ (\A m \in Games \ DOMAIN page.seen : page.news[m] = <<>> /\ page.alerts[m] = <<>>)
        /\ (\A m \in page.kept : Watched(m) /\ Told(m))
    BY DEF AlertsInv, AlertTypes
  <1>1. PICK free \in SUBSET {c \in Several : wire[c] = Alerts!Idle} :
           \E f \in Alerts!Bijection(free, page.favorites) :
              wire' = [c \in Several |->
                         IF c \in free THEN [op |-> "team", at |-> "sent", team |-> f[c]]
                         ELSE wire[c]]
    BY DEF Alerts!Check
  <1>9. PICK f \in Alerts!Bijection(free, page.favorites) :
           wire' = [c \in Several |->
                      IF c \in free THEN [op |-> "team", at |-> "sent", team |-> f[c]]
                      ELSE wire[c]]
    BY <1>1
  <1>10. page' = [page EXCEPT !.tick = FALSE] /\ UNCHANGED server
    BY DEF Alerts!Check
  <1>2. /\ free \subseteq Several
        /\ \A c \in free : f[c] \in page.favorites /\ wire[c].op = "idle"
        /\ \A t \in page.favorites : \E c \in free : f[c] = t
    BY <1>1, <1>9 DEF Alerts!Bijection, Alerts!Injection, Alerts!Surjection, Alerts!Idle
  <1>3. /\ page' \in AlertPages(page')
        /\ page'.favorites = page.favorites /\ page'.kept = page.kept
        /\ page'.seen = page.seen /\ page'.news = page.news /\ page'.alerts = page.alerts
        /\ page'.connected = page.connected
    BY <1>0, <1>10 DEF AlertPages
  <1>4. /\ wire' = [c \in Several |-> wire'[c]]
        /\ \A c \in free :
              /\ wire'[c].op = "team" /\ wire'[c].at = "sent" /\ wire'[c].team = f[c]
              /\ {"at", "op", "team"} \subseteq DOMAIN wire'[c]
        /\ \A c \in Several \ free : wire'[c] = wire[c]
    <2>1. /\ wire' = [c \in Several |-> wire'[c]]
          /\ \A c \in free : wire'[c] = [op |-> "team", at |-> "sent", team |-> f[c]]
          /\ \A c \in Several \ free : wire'[c] = wire[c]
      BY <1>2, <1>9
    <2>2. ASSUME NEW c \in free
          PROVE  /\ wire'[c].op = "team" /\ wire'[c].at = "sent" /\ wire'[c].team = f[c]
                 /\ {"at", "op", "team"} \subseteq DOMAIN wire'[c]
      <3> DEFINE w == wire'[c]  t == f[c]
      <3>1. w = [op |-> "team", at |-> "sent", team |-> t]
        BY <2>1
      <3> HIDE DEF w, t
      <3>2. /\ w.op = "team" /\ w.at = "sent" /\ w.team = t
            /\ {"at", "op", "team"} \subseteq DOMAIN w
        BY <3>1
      <3> QED
        BY <3>2 DEF w, t
    <2> QED
      BY <2>1, <2>2
  <1>5. SeveralCalls'
    <2>1. \A c \in free : {"at", "op"} \subseteq DOMAIN wire'[c]
      BY <1>4
    <2>2. \A c \in Several \ free : {"at", "op"} \subseteq DOMAIN wire'[c]
      BY <1>0, <1>4 DEF SeveralCalls
    <2> QED
      BY <1>4, <2>1, <2>2 DEF SeveralCalls
  <1>6. AlertTypes'
    BY <1>0, <1>3, <1>5, <1>10 DEF AlertTypes
  <1>7. ASSUME NEW c \in Several PROVE TeamCall(wire[c])'
    <2>1. CASE c \in free
      <3>1. /\ wire'[c].op = "team" /\ wire'[c].at = "sent" /\ wire'[c].team = f[c]
            /\ "team" \in DOMAIN wire'[c]
        BY <1>4, <2>1
      <3> QED
        BY <1>2, <1>3, <2>1, <3>1 DEF TeamCall
    <2>2. CASE c \notin free
      BY <1>0, <1>3, <1>4, <1>10, <2>2 DEF TeamCall
    <2> QED
      BY <2>1, <2>2
  <1>8. ASSUME NEW m \in page'.kept PROVE Watched(m)' /\ Told(m)'
    <2>1. Watched(m) /\ Told(m)
      BY <1>0, <1>3
    <2>2. Watched(m)'
      BY <1>3, <1>10, <2>1 DEF Watched, Alerts!Reached
    <2>3. PICK t \in page.favorites : m \in Alerts!MatchesOf(t)
      BY <2>1 DEF Watched, Alerts!Followed
    <2>4. PICK c \in free : f[c] = t
      BY <1>2
    <2>5. c \in Several /\ wire'[c].op = "team" /\ wire'[c].at = "sent" /\ wire'[c].team = t
      BY <1>2, <1>4, <2>4
    <2>6. m \in Alerts!MatchesOf(wire'[c].team)
      BY <2>3, <2>5
    <2>7. Told(m)'
      BY <1>3, <1>10, <2>1, <2>5, <2>6 DEF Told, Alerts!MatchesOf
    <2> QED
      BY <2>2, <2>7
  <1> QED
    BY <1>0, <1>3, <1>6, <1>7, <1>8 DEF AlertsInv

\* The application closed, the network gone or come, the tournament unpublished.
LEMMA AlertsBreak ==
    ASSUME AlertsInv, Alerts!Restart \/ Alerts!Network \/ Alerts!Unpublish
    PROVE  AlertsInv'
  <1>0. /\ AlertTypes /\ SeveralCalls /\ page \in AlertPages(page)
        /\ (\A c \in Several : TeamCall(wire[c]))
        /\ (\A m \in Games \ DOMAIN page.seen : page.news[m] = <<>> /\ page.alerts[m] = <<>>)
    BY DEF AlertsInv, AlertTypes
  <1>1. CASE Alerts!Restart
    <2>1. /\ page' = Alerts!Closed(page) /\ UNCHANGED server
          /\ wire' = [c \in Several |-> Alerts!Idle]
      BY <1>1 DEF Alerts!Restart
    <2>2. SeveralCalls' /\ \A c \in Several : wire'[c].op # "team"
      BY <2>1 DEF Alerts!Idle, SeveralCalls
    <2>3. /\ page' \in AlertPages(page') /\ page'.kept = {}
          /\ page'.news = Alerts!Untold /\ page'.alerts = Alerts!Untold
      BY <1>0, <2>1 DEF Alerts!Closed, AlertPages
    <2>4. /\ page'.news = [m \in Games |-> <<>>] /\ page'.alerts = [m \in Games |-> <<>>]
      BY <2>3 DEF Alerts!Untold
    <2>5. \A m \in Games : page'.alerts[m] \in Seq(Tidings)
      BY <2>4
    <2>6. AlertTypes'
      BY <1>0, <2>1, <2>2, <2>3, <2>4, <2>5 DEF AlertTypes
    <2> QED
      BY <2>2, <2>3, <2>4, <2>6 DEF AlertsInv, TeamCall
  <1>2. CASE Alerts!Network \/ Alerts!Unpublish
    <2>1. page' = [page EXCEPT !.kept = {}] /\ UNCHANGED wire
      BY <1>2 DEF Alerts!Network, Alerts!Unpublish
    <2>2. /\ server' \in [match : [Games -> States], up : BOOLEAN, published : BOOLEAN,
                          failures : Nat]
          /\ server'.match = server.match
      <3>1. CASE Alerts!Network
        <4> DEFINE n == IF server.up THEN server.failures + 1 ELSE server.failures
        <4>1. server' = [server EXCEPT !.up = ~@, !.failures = n] /\ n \in Nat
          BY <1>0, <3>1 DEF Alerts!Network, AlertTypes
        <4> HIDE DEF n
        <4> QED
          BY <1>0, <4>1 DEF AlertTypes
      <3>2. CASE Alerts!Unpublish
        <4> DEFINE n == server.failures + 1
        <4>1. server' = [server EXCEPT !.published = FALSE, !.failures = n] /\ n \in Nat
          BY <1>0, <3>2 DEF Alerts!Unpublish, AlertTypes
        <4> HIDE DEF n
        <4> QED
          BY <1>0, <4>1 DEF AlertTypes
      <3> QED
        BY <1>2, <3>1, <3>2
    <2>3. /\ page' \in AlertPages(page') /\ page'.kept = {}
          /\ page'.news = page.news /\ page'.alerts = page.alerts /\ page'.seen = page.seen
          /\ page'.favorites = page.favorites
      BY <1>0, <2>1 DEF AlertPages
    <2>4. AlertTypes'
      BY <1>0, <2>1, <2>2, <2>3 DEF AlertTypes, SeveralCalls
    <2>5. \A c \in Several : TeamCall(wire[c])'
      BY <1>0, <2>1, <2>2, <2>3 DEF TeamCall
    <2> QED
      BY <1>0, <2>3, <2>4, <2>5 DEF AlertsInv
  <1> QED
    BY <1>1, <1>2

LEMMA AlertsAdvance == ASSUME AlertsInv, Alerts!Next PROVE AlertsInv'
  BY MatchBecomes, AlertsLoad, AlertsServe, AlertsTell, AlertsToggle, AlertsCheck, AlertsBreak
  DEF Alerts!Next

LEMMA AlertsStutter == ASSUME AlertsInv, UNCHANGED vars PROVE AlertsInv'
  <1>1. UNCHANGED <<page, server, wire>>
    BY DEF vars
  <1>2. AlertTypes'
    BY <1>1 DEF AlertsInv, AlertTypes, AlertPages, SeveralCalls
  <1>3. \A c \in Several : TeamCall(wire[c])'
    BY <1>1 DEF AlertsInv, TeamCall
  <1>4. \A m \in page'.kept : Watched(m)' /\ Told(m)'
    BY <1>1 DEF AlertsInv, Watched, Told, Alerts!Reached
  <1> QED
    BY <1>1, <1>2, <1>3, <1>4 DEF AlertsInv

(*****************************************************************************)
(* The return from payment                                                   *)
(*****************************************************************************)
Confirmations == {"confirm", "poll"}
ReturnCall(w) ==
    /\ {"at", "op"} \subseteq DOMAIN w
    /\ w.at \in {"idle", "sent", "back", "refused"}
    /\ w.at # "idle" => w.op \in Confirmations
    /\ w.at = "back" => w.data \in BOOLEAN

\* Paid for before the page opened, with its session, and nothing in its way so far.
Prompt == page.session /\ page.paidAtFirst /\ Returning!Undisturbed(server)

ReturnWire == wire = [c \in Connections |-> wire[c]] /\ \A c \in Connections : ReturnCall(wire[c])

ReturnServer ==
    [flow : Flows, paid : BOOLEAN, recorded : BOOLEAN, due : BOOLEAN, lost : Nat,
     name : {"free", "taken", "freed"}, newer : {None, "pending", "settled"}]

ReturnTypes ==
    /\ page \in [session : BOOLEAN, attempt : Nat, loading : BOOLEAN, paidAtFirst : BOOLEAN,
                 shown : {None, "pending", "settled"},
                 step : {"start", "calling", "poll", "pause", "done", "thrown"}]
    /\ server \in ReturnServer
    /\ ReturnWire

\* What the page shows, and any answer on its way, is so for good; a prompt page has only
\* its confirmation to wait for.
ReturnInv ==
    /\ ReturnTypes
    /\ page.paidAtFirst => server.paid
    /\ page.shown = "settled" => Returning!Bought(server)
    /\ \A c \in Connections : wire[c].at = "back" /\ wire[c].data => Returning!Bought(server)
    /\ Prompt =>
          /\ page.step \in {"start", "calling", "done"}
          /\ page.step = "done" => page.shown = "settled" /\ server.recorded
          /\ \A c \in Connections :
                /\ wire[c].at # "refused"
                /\ wire[c].at # "idle" => wire[c].op = "confirm"
                /\ wire[c].at = "back" => wire[c].data /\ server.recorded

LEMMA ReturnStarts ==
    ASSUME Returning!Init
    PROVE  ReturnInv
  BY NoneIsNotShown DEF Returning!Init, Returning!NoCalls, Returning!Idle, ReturnInv,
                        ReturnTypes, ReturnServer, ReturnWire,
         ReturnCall, Prompt, Confirmations

\* What becomes of a call that is sent, answered, over, or lost.
LEMMA ReturnCalls ==
    ASSUME ReturnWire, NEW c \in Connections, NEW w, wire' = [wire EXCEPT ![c] = w]
    PROVE  /\ wire'[c] = w
           /\ \A b \in Connections \ {c} : wire'[b] = wire[b]
           /\ ReturnCall(w) => ReturnWire'
  <1>1. /\ wire' = [b \in Connections |-> wire'[b]]
        /\ wire'[c] = w
        /\ \A b \in Connections \ {c} : wire'[b] = wire[b]
    BY DEF ReturnWire
  <1> QED
    BY <1>1 DEF ReturnWire

LEMMA ReturnAdvances ==
    ASSUME ReturnInv, Returning!Next
    PROVE  ReturnInv'
  <1> USE DEF ReturnInv
  <1>0. ReturnTypes /\ ReturnWire
    BY DEF ReturnTypes
  <1>7. Prompt => \A c \in Connections :
           /\ wire[c].at # "refused"
           /\ wire[c].at # "idle" => wire[c].op = "confirm"
           /\ wire[c].at = "back" => wire[c].data /\ server.recorded
    OBVIOUS
  <1>1. CASE Returning!Pause
    <2>2. page' = [page EXCEPT !.step = "poll", !.attempt = @ + 1] /\ UNCHANGED <<server, wire>>
      BY <1>1 DEF Returning!Pause
    <2>7. page.attempt + 1 \in Nat
      BY <1>0 DEF ReturnTypes
    <2>5. page' \in [session : BOOLEAN, attempt : Nat, loading : BOOLEAN, paidAtFirst : BOOLEAN,
                 shown : {None, "pending", "settled"},
                 step : {"start", "calling", "poll", "pause", "done", "thrown"}]
      <3> DEFINE n == page.attempt + 1
      <3>1. n \in Nat /\ page' = [page EXCEPT !.step = "poll", !.attempt = n]
        BY <2>2, <2>7
      <3> HIDE DEF n
      <3> QED
        BY <1>0, <3>1 DEF ReturnTypes
    <2>6. ReturnWire'
      BY <1>0, <2>2 DEF ReturnTypes, ReturnWire
    <2>1. ReturnTypes'
      BY <1>0, <2>2, <2>5, <2>6 DEF ReturnTypes
    <2>3. /\ page'.shown = page.shown /\ page'.session = page.session /\ page'.step = "poll"
          /\ page'.paidAtFirst = page.paidAtFirst
      BY <1>0, <2>2 DEF ReturnTypes
    <2>4. ~Prompt
      BY <1>0, <1>1 DEF Returning!Pause
    <2>8. ~Prompt'
      BY <2>2, <2>3, <2>4 DEF Prompt
    <2> QED
      BY <2>1, <2>2, <2>3, <2>8 DEF Returning!Settled
  <1>2. CASE \/ Returning!Pay \/ Returning!Deliver \/ Returning!TakeName
             \/ Returning!FreeName \/ Returning!RegisterAgain \/ Returning!PayAgain
    <2>2. UNCHANGED <<page, wire>>
      BY <1>2 DEF Returning!Pay, Returning!Deliver, Returning!TakeName, Returning!FreeName,
                  Returning!RegisterAgain, Returning!PayAgain
    <2>3. /\ server' \in ReturnServer
          /\ server.paid => server'.paid
          /\ server.recorded => server'.recorded
          /\ Returning!Bought(server) => Returning!Bought(server')
          /\ Returning!Undisturbed(server') => Returning!Undisturbed(server)
      <3> USE DEF ReturnServer, Returning!Bought, Returning!Undisturbed
      <3>1. CASE Returning!Pay
        BY <1>0, <3>1 DEF Returning!Pay, ReturnTypes
      <3>2. CASE Returning!Deliver
        BY <1>0, <3>2 DEF Returning!Deliver, ReturnTypes
      <3>3. CASE Returning!TakeName
        BY <1>0, <3>3 DEF Returning!TakeName, ReturnTypes
      <3>4. CASE Returning!FreeName
        BY <1>0, <3>4 DEF Returning!FreeName, ReturnTypes
      <3>5. CASE Returning!RegisterAgain
        BY <1>0, <3>5, NoneIsNotShown DEF Returning!RegisterAgain, ReturnTypes
      <3>6. CASE Returning!PayAgain
        BY <1>0, <3>6, NoneIsNotShown DEF Returning!PayAgain, ReturnTypes
      <3> QED
        BY <1>2, <3>1, <3>2, <3>3, <3>4, <3>5, <3>6
    <2>1. ReturnTypes'
      BY <1>0, <2>2, <2>3 DEF ReturnTypes, ReturnWire, ReturnServer
    <2> QED
      BY <2>1, <2>2, <2>3 DEF Prompt
  <1>3. ASSUME NEW c \in Connections, NEW o \in Confirmations,
               \/ o = "confirm" /\ Returning!Confirm(c)
               \/ o = "poll" /\ Returning!Poll(c)
        PROVE  ReturnInv'
    <2> DEFINE w == Overlay([at |-> "sent"], [op |-> o])
    <2>1. /\ wire' = [wire EXCEPT ![c] = w] /\ UNCHANGED server
          /\ page' = [page EXCEPT !.step = "calling"]
      BY <1>3 DEF Returning!Confirm, Returning!Poll, Returning!Send, Returning!Overlay, Overlay
    <2>2. w.at = "sent" /\ w.op = o /\ {"at", "op"} \subseteq DOMAIN w
      <3> DEFINE call == [op |-> o]
      <3>1. DOMAIN call = {"op"} /\ call.op = o
        OBVIOUS
      <3>2. w = Overlay([at |-> "sent"], call)
        OBVIOUS
      <3> HIDE DEF w, call
      <3> QED
        <4>1. /\ w.at = "sent" /\ DOMAIN w = {"at"} \cup DOMAIN call
              /\ \A x \in DOMAIN call \ {"at"} : w[x] = call[x]
          BY <3>2, SMT DEF Overlay
        <4>2. w["op"] = call["op"]
          BY <3>1, <4>1
        <4> QED
          BY <3>1, <4>1, <4>2
    <2> HIDE DEF w
    <2>3. /\ page'.shown = page.shown /\ page'.session = page.session /\ page'.step = "calling"
          /\ page'.paidAtFirst = page.paidAtFirst
      BY <1>0, <2>1 DEF ReturnTypes
    <2>4. ReturnCall(w)
      BY <2>2 DEF ReturnCall
    <2>5. ReturnTypes'
      BY <1>0, <2>1, <2>4, ReturnCalls DEF ReturnTypes
    <2>6. wire'[c] = w /\ \A d \in Connections \ {c} : wire'[d] = wire[d]
      BY <1>0, <2>1, ReturnCalls
    <2>7. Prompt => o = "confirm"
      BY <1>3 DEF Prompt, Returning!Poll
    <2> QED
      BY <2>1, <2>2, <2>3, <2>5, <2>6, <2>7 DEF Prompt
  <1>4. ASSUME NEW c \in Connections,
               \/ Returning!ServePoll(c)
               \/ Returning!ServeConfirm(c) /\ (server.paid => Returning!Recordable(server))
        PROVE  ReturnInv'
    <2> DEFINE d == Returning!Settled(server')
               w == Overlay([at |-> "back", data |-> d], wire[c])
    <2>1. wire' = [wire EXCEPT ![c] = w] /\ wire[c].at = "sent" /\ UNCHANGED page
      BY <1>4 DEF Returning!ServeConfirm, Returning!ServePoll, Returning!Serve,
                  Returning!Answer, Returning!Settled, Returning!Overlay, Overlay
    <2>2. /\ \/ server' = server
             \/ server' = [server EXCEPT !.recorded = @ \/ server.paid]
          /\ wire[c].op = "confirm" => server' = [server EXCEPT !.recorded = @ \/ server.paid]
      BY <1>4 DEF Returning!ServeConfirm, Returning!ServePoll, Returning!Serve
    <2>3. /\ server' \in ReturnServer
          /\ server'.newer = server.newer /\ server'.name = server.name
          /\ server'.lost = server.lost /\ server'.flow = server.flow
          /\ server'.paid = server.paid
          /\ server.recorded => server'.recorded
          /\ wire[c].op = "confirm" /\ server.paid => server'.recorded
      BY <1>0, <2>2 DEF ReturnTypes, ReturnServer
    <2>4. /\ d \in BOOLEAN
          /\ server'.recorded /\ server'.newer = None => d
      BY DEF Returning!Settled
    <2>5. /\ Returning!Bought(server) => Returning!Bought(server')
          /\ Returning!Undisturbed(server') <=> Returning!Undisturbed(server)
      BY <2>3 DEF Returning!Bought, Returning!Undisturbed
    <2>15. d => Returning!Bought(server')
      BY DEF Returning!Settled, Returning!Bought
    <2>6. ReturnCall(wire[c])
      BY <1>0 DEF ReturnWire
    <2>12. w = Overlay([at |-> "back", data |-> d], wire[c])
      OBVIOUS
    <2> HIDE DEF w, d
    <2>13. "op" \in DOMAIN wire[c] /\ wire[c].op \in Confirmations
      BY <2>1, <2>6 DEF ReturnCall
    <2>14. w.at = "back" /\ w.data = d /\ w.op = wire[c].op /\ {"at", "op"} \subseteq DOMAIN w
      <3>1. /\ w.at = "back" /\ w.data = d /\ DOMAIN w = {"at", "data"} \cup DOMAIN wire[c]
            /\ \A x \in DOMAIN wire[c] \ {"at", "data"} : w[x] = wire[c][x]
        BY <2>12, SMT DEF Overlay
      <3>2. w["op"] = wire[c]["op"]
        BY <2>13, <3>1
      <3> QED
        BY <2>13, <3>1, <3>2
    <2>7. w.at = "back" /\ w.data = d /\ w.op = wire[c].op /\ ReturnCall(w)
      BY <2>4, <2>13, <2>14 DEF ReturnCall
    <2>8. wire'[c] = w /\ \A b \in Connections \ {c} : wire'[b] = wire[b]
      BY <1>0, <2>1, ReturnCalls
    <2>9. ReturnTypes'
      BY <1>0, <2>1, <2>3, <2>7, ReturnCalls DEF ReturnTypes, ReturnServer
    <2>10. Prompt' <=> Prompt
      BY <2>1, <2>5 DEF Prompt
    <2>11. Prompt => w.op = "confirm" /\ w.data /\ server'.recorded
      <3>1. wire[c].at # "idle"
        BY <2>1
      <3>2. Prompt => wire[c].op = "confirm"
        BY <1>7, <3>1
      <3> QED
        BY <2>3, <2>4, <2>7, <3>2 DEF Prompt, Returning!Undisturbed
    <2> QED
      BY <2>1, <2>3, <2>5, <2>7, <2>8, <2>9, <2>10, <2>11, <2>15
  <1>8. ASSUME NEW c \in Connections, Returning!ServeConfirm(c),
               server.paid, ~Returning!Recordable(server)
        PROVE  ReturnInv'
    <2> DEFINE w == [wire[c] EXCEPT !.at = "refused"]
    <2>1. UNCHANGED <<page, server>> /\ wire' = [wire EXCEPT ![c] = w] /\ wire[c].at = "sent"
      BY <1>8 DEF Returning!ServeConfirm, Returning!Serve, Returning!Refuse
    <2>2. ReturnCall(wire[c])
      BY <1>0 DEF ReturnWire
    <2>3. w.at = "refused" /\ ReturnCall(w)
      BY <2>1, <2>2, CallRefused DEF ReturnCall
    <2> HIDE DEF w
    <2>4. wire'[c] = w /\ \A b \in Connections \ {c} : wire'[b] = wire[b]
      BY <1>0, <2>1, ReturnCalls
    <2>7. ReturnWire'
      BY <1>0, <2>1, <2>3, ReturnCalls
    <2>5. ReturnTypes'
      BY <1>0, <2>1, <2>7 DEF ReturnTypes, ReturnServer
    <2>6. ~Prompt
      BY <1>8 DEF Prompt, Returning!Undisturbed, Returning!Recordable
    <2> QED
      BY <2>1, <2>3, <2>4, <2>5, <2>6 DEF Prompt
  <1>5. ASSUME NEW c \in Connections,
               \/ Returning!GotConfirm(c) \/ Returning!ConfirmFailed(c)
               \/ Returning!GotPoll(c) \/ Returning!PollFailed(c)
        PROVE  ReturnInv'
    <2> USE DEF Returning!GotConfirm, Returning!ConfirmFailed, Returning!GotPoll,
                Returning!PollFailed, Returning!Back, Returning!Refused, Returning!Shows
    <2>1. /\ wire' = [wire EXCEPT ![c] = Returning!Idle]
          /\ UNCHANGED server
          /\ wire[c].at \in {"back", "refused"}
      BY <1>0, <1>5 DEF Returning!Hang
    <2>2. /\ ReturnCall(Returning!Idle)
          /\ wire'[c] = Returning!Idle /\ \A d \in Connections \ {c} : wire'[d] = wire[d]
      BY <1>0, <2>1, ReturnCalls DEF Returning!Idle, ReturnCall
    <2>3. wire[c].at = "back" => wire[c].data \in BOOLEAN
      BY <1>0 DEF ReturnWire, ReturnCall
    <2>4. page' \in [session : BOOLEAN, attempt : Nat, loading : BOOLEAN, paidAtFirst : BOOLEAN,
                 shown : {None, "pending", "settled"},
                 step : {"start", "calling", "poll", "pause", "done", "thrown"}]
      BY <1>0, <1>5, <2>3 DEF ReturnTypes
    <2>5. ReturnTypes'
      BY <1>0, <2>1, <2>2, <2>4, ReturnCalls DEF ReturnTypes
    <2>6. page'.session = page.session /\ page'.paidAtFirst = page.paidAtFirst
      BY <1>0, <1>5 DEF ReturnTypes
    <2>7. page'.shown = "settled" => page.shown = "settled" \/ (wire[c].at = "back" /\ wire[c].data)
      BY <1>0, <1>5 DEF ReturnTypes
    <2>8. Prompt => page'.step = "done" /\ page'.shown = "settled" /\ server.recorded
      <3> SUFFICES ASSUME Prompt
                   PROVE  page'.step = "done" /\ page'.shown = "settled" /\ server.recorded
        OBVIOUS
      <3>1. wire[c].at = "back" /\ wire[c].op = "confirm" /\ wire[c].data /\ server.recorded
        <4>1. wire[c].at # "refused" /\ wire[c].at # "idle"
          BY <1>7, <2>1
        <4> QED
          BY <1>7, <2>1, <4>1
      <3>2. Returning!GotConfirm(c)
        BY <1>5, <3>1
      <3> QED
        BY <1>0, <3>1, <3>2 DEF ReturnTypes
    <2>9. Prompt' <=> Prompt
      BY <2>1, <2>6 DEF Prompt
    <2> QED
      BY <2>1, <2>2, <2>5, <2>6, <2>7, <2>8, <2>9 DEF Returning!Idle
  <1>6. ASSUME NEW c \in Connections, Returning!Lose(c) PROVE ReturnInv'
    <2> DEFINE w == [wire[c] EXCEPT !.at = "refused"]
    <2>1. /\ server' = [server EXCEPT !.lost = @ + 1]
          /\ wire' = [wire EXCEPT ![c] = w]
          /\ wire[c].at \in {"sent", "back"}
          /\ UNCHANGED page
      BY <1>6 DEF Returning!Lose
    <2>2. ReturnCall(wire[c])
      BY <1>0 DEF ReturnWire
    <2>3. w.at = "refused" /\ ReturnCall(w)
      BY <2>1, <2>2, CallRefused DEF ReturnCall
    <2> HIDE DEF w
    <2>4. wire'[c] = w /\ \A b \in Connections \ {c} : wire'[b] = wire[b]
      BY <1>0, <2>1, ReturnCalls
    <2>5. /\ server'.lost = server.lost + 1 /\ server'.paid = server.paid
          /\ server' \in ReturnServer
          /\ Returning!Bought(server) => Returning!Bought(server')
      BY <1>0, <2>1 DEF ReturnTypes, ReturnServer, Returning!Bought
    <2>9. ReturnWire'
      BY <1>0, <2>1, <2>3, ReturnCalls DEF ReturnTypes
    <2>6. ReturnTypes'
      BY <1>0, <2>1, <2>5, <2>9 DEF ReturnTypes, ReturnServer
    <2>7. ~Prompt'
      BY <1>0, <2>5 DEF Prompt, ReturnTypes, ReturnServer, Returning!Undisturbed
    <2> QED
      BY <2>1, <2>3, <2>4, <2>5, <2>6, <2>7
  <1> QED
    BY <1>1, <1>2, <1>3, <1>4, <1>5, <1>6, <1>8 DEF Returning!Next, Returning!ServeConfirm,
                                                    Confirmations

LEMMA ReturnStutters == ASSUME ReturnInv, UNCHANGED vars PROVE ReturnInv'
  BY DEF vars, ReturnInv, ReturnTypes, ReturnServer, ReturnWire, Prompt

(*****************************************************************************)
(* The teams' files                                                          *)
(*****************************************************************************)
\* No row of an imported file names the path of an earlier export.
NoPathImported == \A rows \in Files : \A i \in 1 .. Len(rows) : rows[i].logo # "path"

\* The logo of each team there is.
Shown == [t \in Logos!Live |-> server.teams[t].logo]

Uploads == {"upload", "removeLogo"}
Removals == {"remove", "removeOne", "deleteTournament"}

\* The teams a removal takes: some, one, or all there are by then.
Takes(w, t) ==
    \/ w.op = "deleteTournament"
    \/ w.op = "remove" /\ t \in w.teams
    \/ w.op = "removeOne" /\ t = w.team

\* The calls of the API, with what they have read and the steps they are at.
FileCall(w) ==
    /\ {"op", "at"} \subseteq DOMAIN w
    /\ w.op \in {"idle", "group", "import"} \cup Uploads \cup Removals
    /\ w.op = "idle" => w = Logos!Idle
    /\ w.op = "group" => w.at = "row"
    /\ w.op \in Uploads =>
          /\ {"team", "old", "new"} \subseteq DOMAIN w /\ w.old \in Nat /\ w.new \in Nat
          /\ w.at \in {"write", "unlink", "row"}
          /\ w.at = "write" => w.op = "upload" /\ w.new = 0
    /\ w.op \in Removals =>
          /\ "logos" \in DOMAIN w /\ w.logos \subseteq Nat /\ w.at \in {"rows", "files"}
    /\ w.op = "import" =>
          /\ {"rows", "i", "team", "new", "premium"} \subseteq DOMAIN w /\ w.new \in Nat
          /\ w.rows \in Files /\ w.i \in 1 .. Len(w.rows)
          /\ w.at \in {"check", "insert", "fetch", "logo"}

\* The rows there are, and the calls.
FileTypes ==
    /\ server \in [there : BOOLEAN, teams : {server.teams}, disk : SUBSET (Nat \ {0}),
                   next : Nat \ {0}]
    /\ \E S : server.teams \in Seq(S)
    /\ \A t \in Logos!Live : "logo" \in DOMAIN server.teams[t] /\ server.teams[t].logo \in Nat
    /\ wire = [r \in Requests |-> wire[r]] /\ \A r \in Requests : FileCall(wire[r])
    /\ left \in [requests : (SUBSET Requests) \ {{}}, operations : {left.operations},
                 calls : Nat, failures : Nat]

\* A new file's name, until its row is saved.
Pending(w) ==
    \/ w.op \in Uploads /\ w.at \in {"unlink", "row"} /\ w.new # 0
    \/ w.op = "import" /\ w.at = "logo"

\* Rows that are gone stay so: those a removal has deleted, and all with their tournament.
RowsGone ==
    /\ ~server.there => DOMAIN Shown = {}
    /\ \A r \in Requests :
          /\ wire[r].op = "remove" => wire[r].teams \subseteq 1 .. Len(server.teams)
          /\ wire[r].op = "removeOne" => wire[r].team \in 1 .. Len(server.teams)
          /\ wire[r].op \in Removals /\ wire[r].at = "files" =>
                /\ \A t \in DOMAIN Shown : ~Takes(wire[r], t)
                /\ wire[r].op = "deleteTournament" => ~server.there

\* A file is one team's: shown by it alone, and read by calls that change it alone.
Owned(w) ==
    /\ w.op \in Uploads =>
          /\ w.old < server.next /\ w.new < server.next
          /\ \A t \in DOMAIN Shown : Shown[t] = w.old /\ w.old # 0 => t = w.team
    /\ w.op \in Removals => \A f \in w.logos :
          /\ f < server.next
          /\ \A t \in DOMAIN Shown : Shown[t] = f /\ f # 0 => Takes(w, t)

FilesOwned ==
    /\ \A t \in DOMAIN Shown : Shown[t] < server.next
    /\ \A t, u \in DOMAIN Shown : Shown[t] = Shown[u] /\ Shown[t] # 0 => t = u
    /\ \A r \in Requests : Owned(wire[r])

\* A file written and not yet shown is there, and nobody else knows of it.
Unknown(f) ==
    /\ \A t \in DOMAIN Shown : Shown[t] # f
    /\ \A s \in Requests :
          /\ wire[s].op \in Uploads => wire[s].old # f
          /\ wire[s].op \in Removals => f \notin wire[s].logos

PendingUnknown ==
    \A r \in Requests : Pending(wire[r]) =>
       /\ wire[r].new \in server.disk /\ wire[r].new < server.next
       /\ Unknown(wire[r].new)
       /\ \A s \in Requests \ {r} : Pending(wire[s]) => wire[s].new # wire[r].new

\* A file that is missing is about to be replaced in the row that shows it.
MissingReplaced ==
    \A t \in DOMAIN Shown :
       \/ Shown[t] \in server.disk \cup {0}
       \/ \E r \in Requests : wire[r].op \in Uploads /\ wire[r].at = "row" /\ wire[r].team = t

LossesSpareLogos ==
    left.failures > 0 =>
       left.operations \cap Uploads = {} /\ \A r \in Requests : wire[r].op \notin Uploads

\* What one request has on disk that no team shows.
Spare(w) ==
    IF Pending(w) THEN {w.new}
    ELSE IF w.op \in Removals /\ w.at = "files" THEN w.logos ELSE {}

\* And, alone, what it relies on: the rows are as it read them.
UpToDate(w, shown, disk) ==
    /\ w.op \in Uploads => /\ w.team \in DOMAIN shown /\ shown[w.team] = w.old
                           /\ w.at = "row" => w.old \notin disk
    /\ w.op = "import" /\ w.at \in {"fetch", "logo"} =>
          w.team \in DOMAIN shown /\ shown[w.team] = 0
    /\ w.op \in Removals /\ w.at = "rows" =>
          \A t \in DOMAIN shown : Takes(w, t) => shown[t] \in w.logos

Exact(w, shown, disk) ==
    disk \subseteq {shown[t] : t \in DOMAIN shown} \cup Spare(w) /\ UpToDate(w, shown, disk)

NothingSpared ==
    /\ \A r \in Requests \ left.requests : wire[r] = Logos!Idle
    /\ Logos!Alone =>
          /\ left.failures = 0
          /\ \A r \in left.requests : Exact(wire[r], Shown, server.disk)

FilesExact == LossesSpareLogos /\ NothingSpared
FilesTold == RowsGone /\ FilesOwned /\ PendingUnknown /\ MissingReplaced
FilesInv == FileTypes /\ FilesTold /\ FilesExact

LEMMA RowIsThere == ASSUME NEW row, "logo" \in DOMAIN row PROVE row # Logos!Gone
  BY DEF Logos!Gone

LEMMA RowsSame ==
    ASSUME FileTypes, server'.teams = server.teams
    PROVE  /\ Shown' = Shown
           /\ \E S : server'.teams \in Seq(S)
           /\ \A t \in Logos!Live' :
                 "logo" \in DOMAIN server'.teams[t] /\ server'.teams[t].logo \in Nat
  BY DEF FileTypes, Shown, Logos!Live

LEMMA RowAdded ==
    ASSUME FileTypes, NEW row, "logo" \in DOMAIN row, row.logo = 0,
           server'.teams = Append(server.teams, row)
    PROVE  /\ Shown' = [t \in DOMAIN Shown \cup {Len(server.teams) + 1} |->
                           IF t = Len(server.teams) + 1 THEN 0 ELSE Shown[t]]
           /\ \A t \in DOMAIN Shown : t \in 1 .. Len(server.teams)
           /\ Len(server.teams) \in Nat /\ Len(server'.teams) = Len(server.teams) + 1
           /\ \E S : server'.teams \in Seq(S)
           /\ \A t \in Logos!Live' :
                 "logo" \in DOMAIN server'.teams[t] /\ server'.teams[t].logo \in Nat
  <1> DEFINE s == server.teams
             z == server'.teams
             n == Len(s) + 1
  <1>1. PICK S : s \in Seq(S)
    BY DEF FileTypes
  <1>2. s \in Seq(S \cup {row}) /\ row \in S \cup {row} /\ Len(s) \in Nat /\ DOMAIN s = 1 .. Len(s)
    BY <1>1
  <1>3. /\ z \in Seq(S \cup {row}) /\ Len(z) = n
        /\ \A t \in 1 .. Len(s) : z[t] = s[t]
        /\ z[n] = row
    BY <1>2
  <1>4. DOMAIN z = 1 .. n
    BY <1>3
  <1>5. row # Logos!Gone
    BY RowIsThere
  <1>6. Logos!Live' = Logos!Live \cup {n} /\ \A t \in Logos!Live : t \in 1 .. Len(s)
    BY <1>2, <1>3, <1>4, <1>5 DEF Logos!Live, Logos!Gone
  <1>7. \A t \in Logos!Live' : "logo" \in DOMAIN z[t] /\ z[t].logo \in Nat
    BY <1>2, <1>3, <1>6 DEF FileTypes
  <1>8. Shown' = [t \in Logos!Live \cup {n} |-> IF t = n THEN 0 ELSE Shown[t]]
    BY <1>2, <1>3, <1>6 DEF Shown
  <1> QED
    BY <1>2, <1>3, <1>6, <1>7, <1>8 DEF Shown

LEMMA RowChanged ==
    ASSUME FileTypes, NEW t \in Logos!Live, NEW row, "logo" \in DOMAIN row, row.logo \in Nat,
           server'.teams = [server.teams EXCEPT ![t] = row]
    PROVE  /\ Shown' = [Shown EXCEPT ![t] = row.logo]
           /\ Len(server'.teams) = Len(server.teams)
           /\ \E S : server'.teams \in Seq(S)
           /\ \A u \in Logos!Live' :
                 "logo" \in DOMAIN server'.teams[u] /\ server'.teams[u].logo \in Nat
  <1> DEFINE s == server.teams
             z == server'.teams
  <1>1. PICK S : s \in Seq(S)
    BY DEF FileTypes
  <1>2. s \in Seq(S \cup {row}) /\ DOMAIN s = 1 .. Len(s) /\ t \in DOMAIN s /\ Len(s) \in Nat
    BY <1>1 DEF Logos!Live
  <1>3. /\ z \in Seq(S \cup {row}) /\ Len(z) = Len(s) /\ DOMAIN z = DOMAIN s /\ z[t] = row
        /\ \A u \in DOMAIN s \ {t} : z[u] = s[u]
    BY <1>2
  <1>4. row # Logos!Gone
    BY RowIsThere
  <1>5. Logos!Live' = Logos!Live
    BY <1>3, <1>4 DEF Logos!Live, Logos!Gone
  <1>6. \A u \in Logos!Live' : "logo" \in DOMAIN z[u] /\ z[u].logo \in Nat
    <2>1. \A u \in Logos!Live : u \in DOMAIN s
      BY DEF Logos!Live
    <2> QED
      BY <1>3, <1>5, <2>1 DEF FileTypes
  <1>7. Shown' = [Shown EXCEPT ![t] = row.logo]
    <2>1. \A u \in Logos!Live : u \in DOMAIN s
      BY DEF Logos!Live
    <2> QED
      BY <1>3, <1>5, <2>1 DEF Shown
  <1> QED
    BY <1>3, <1>6, <1>7

LEMMA RowsTaken ==
    ASSUME FileTypes, NEW taken,
           server'.teams = [t \in DOMAIN server.teams |-> IF t \in taken THEN Logos!Gone
                                                          ELSE server.teams[t]]
    PROVE  /\ Shown' = [t \in DOMAIN Shown \ taken |-> Shown[t]]
           /\ Len(server'.teams) = Len(server.teams)
           /\ \E S : server'.teams \in Seq(S)
           /\ \A u \in Logos!Live' :
                 "logo" \in DOMAIN server'.teams[u] /\ server'.teams[u].logo \in Nat
  <1> DEFINE s == server.teams
             z == server'.teams
  <1>1. PICK S : s \in Seq(S)
    BY DEF FileTypes
  <1>2. DOMAIN s = 1 .. Len(s) /\ Len(s) \in Nat /\ \A t \in 1 .. Len(s) : s[t] \in S
    BY <1>1
  <1>3. /\ z \in Seq(S \cup {Logos!Gone}) /\ DOMAIN z = DOMAIN s
        /\ \A u \in DOMAIN s : z[u] = IF u \in taken THEN Logos!Gone ELSE s[u]
    <2>1. z = [i \in 1 .. Len(s) |-> IF i \in taken THEN Logos!Gone ELSE s[i]]
      BY <1>2
    <2>2. \A i \in 1 .. Len(s) : (IF i \in taken THEN Logos!Gone ELSE s[i]) \in S \cup {Logos!Gone}
      BY <1>2
    <2>3. z \in [1 .. Len(s) -> S \cup {Logos!Gone}]
      BY <2>1, <2>2
    <2> QED
      BY <1>2, <2>1, <2>3
  <1>4. Len(z) = Len(s)
    BY <1>2, <1>3
  <1>5. Logos!Live' = Logos!Live \ taken
    BY <1>3 DEF Logos!Live, Logos!Gone
  <1>6. \A t \in Logos!Live : t \in DOMAIN s
    BY DEF Logos!Live
  <1>7. \A u \in Logos!Live' : "logo" \in DOMAIN z[u] /\ z[u].logo \in Nat
    BY <1>3, <1>5, <1>6 DEF FileTypes
  <1>8. Shown' = [t \in DOMAIN Shown \ taken |-> Shown[t]]
    BY <1>3, <1>5, <1>6 DEF Shown
  <1> QED
    BY <1>3, <1>4, <1>7, <1>8

\* A request at r goes on as w.
LEMMA FilesCalls ==
    ASSUME FileTypes, NEW r \in Requests, NEW w, wire' = [wire EXCEPT ![r] = w]
    PROVE  /\ wire'[r] = w /\ (\A s \in Requests \ {r} : wire'[s] = wire[s])
           /\ wire' = [s \in Requests |-> wire'[s]]
  BY OneCallChanges DEF FileTypes

\* Rows added with no logo, a call that holds no file.
LEMMA FilesStay ==
    ASSUME FileTypes, FilesTold, FileTypes', NEW r \in Requests, NEW w,
           wire' = [wire EXCEPT ![r] = w],
           w.op \notin Uploads \cup Removals, ~Pending(w),
           wire[r].op \in Uploads /\ wire[r].at = "row" => wire[r].team \notin DOMAIN Shown,
           DOMAIN Shown \subseteq DOMAIN Shown', \A t \in DOMAIN Shown : Shown'[t] = Shown[t],
           \A t \in DOMAIN Shown' \ DOMAIN Shown :
              Shown'[t] = 0 /\ server.there /\ t \notin 1 .. Len(server.teams),
           1 .. Len(server.teams) \subseteq 1 .. Len(server'.teams),
           server'.there = server.there, server'.disk = server.disk, server'.next = server.next
    PROVE  FilesTold'
  <1>1. wire'[r] = w /\ \A s \in Requests \ {r} : wire'[s] = wire[s]
    BY FilesCalls
  <1>2. server.next \in Nat \ {0}
    BY DEF FileTypes
  <1>3. RowsGone'
    <2>1. (~server.there => DOMAIN Shown = {})'
      BY DEF FilesTold, RowsGone
    <2>2. ASSUME NEW s \in Requests, wire'[s].op \in Removals
          PROVE  /\ wire'[s] = wire[s]
                 /\ wire[s].op = "remove" => wire[s].teams \subseteq 1 .. Len(server'.teams)
                 /\ wire[s].op = "removeOne" => wire[s].team \in 1 .. Len(server'.teams)
                 /\ wire[s].at = "files" => /\ \A t \in DOMAIN Shown' : ~Takes(wire[s], t)
                                            /\ wire[s].op = "deleteTournament" => ~server'.there
      <3>1. wire'[s] = wire[s]
        BY <1>1, <2>2
      <3>2. wire[s].op = "remove" => wire[s].teams \subseteq 1 .. Len(server.teams)
        BY DEF FilesTold, RowsGone
      <3>3. wire[s].op = "removeOne" => wire[s].team \in 1 .. Len(server.teams)
        BY DEF FilesTold, RowsGone
      <3>4. wire[s].at = "files" => /\ \A t \in DOMAIN Shown : ~Takes(wire[s], t)
                                    /\ wire[s].op = "deleteTournament" => ~server.there
        BY <2>2, <3>1 DEF FilesTold, RowsGone
      <3> QED
        BY <3>1, <3>2, <3>3, <3>4 DEF Takes
    <2> QED
      BY <2>1, <2>2 DEF RowsGone, Takes, Removals
  <1>4. FilesOwned'
    <2>1. (\A t \in DOMAIN Shown : Shown[t] < server.next)'
      BY <1>2 DEF FilesTold, FilesOwned
    <2>2. (\A t, u \in DOMAIN Shown : Shown[t] = Shown[u] /\ Shown[t] # 0 => t = u)'
      BY DEF FilesTold, FilesOwned
    <2>3. ASSUME NEW s \in Requests PROVE Owned(wire[s])'
      BY <1>1 DEF FilesTold, FilesOwned, Owned, Takes
    <2> QED
      BY <2>1, <2>2, <2>3 DEF FilesOwned
  <1>5. PendingUnknown'
    <2> SUFFICES ASSUME NEW s \in Requests, Pending(wire[s])'
                 PROVE  (/\ wire[s].new \in server.disk /\ wire[s].new < server.next
                         /\ Unknown(wire[s].new)
                         /\ \A q \in Requests \ {s} :
                               Pending(wire[q]) => wire[q].new # wire[s].new)'
      BY DEF PendingUnknown
    <2>1. s # r /\ wire'[s] = wire[s] /\ Pending(wire[s])
      BY <1>1 DEF Pending
    <2>2. /\ wire[s].new \in server.disk /\ wire[s].new < server.next
          /\ Unknown(wire[s].new)
          /\ \A q \in Requests \ {s} : Pending(wire[q]) => wire[q].new # wire[s].new
      BY <2>1 DEF FilesTold, PendingUnknown
    <2>3. wire[s].new # 0
      BY <2>2 DEF FileTypes
    <2>4. Unknown(wire[s].new)'
      BY <1>1, <2>1, <2>2, <2>3 DEF Unknown
    <2> QED
      BY <1>1, <2>1, <2>2, <2>4 DEF Pending
  <1>6. MissingReplaced'
    BY <1>1 DEF FilesTold, MissingReplaced
  <1> QED
    BY <1>3, <1>4, <1>5, <1>6 DEF FilesTold

\* A call reads what the rows show.
LEMMA FilesRead ==
    ASSUME FileTypes, FilesTold, NEW r \in Requests, NEW w, wire' = [wire EXCEPT ![r] = w],
           UNCHANGED server, wire[r].op = "idle", ~Pending(w), Owned(w),
           w.op \in Uploads => w.old = 0 \/ \E t \in DOMAIN Shown : Shown[t] = w.old,
           w.op \in Removals =>
              w.at = "rows" /\ \A f \in w.logos : f = 0 \/ \E t \in DOMAIN Shown : Shown[t] = f,
           w.op = "remove" => w.teams \subseteq 1 .. Len(server.teams),
           w.op = "removeOne" => w.team \in 1 .. Len(server.teams)
    PROVE  FilesTold'
  <1>1. wire'[r] = w /\ \A s \in Requests \ {r} : wire'[s] = wire[s]
    BY FilesCalls
  <1>2. Shown' = Shown
    BY DEF Shown, Logos!Live
  <1>3. RowsGone'
    BY <1>1, <1>2 DEF FilesTold, RowsGone, Takes, Removals
  <1>4. FilesOwned'
    <2>1. ASSUME NEW s \in Requests PROVE Owned(wire[s])'
      BY <1>1, <1>2 DEF FilesTold, FilesOwned, Owned, Takes
    <2> QED
      BY <1>2, <2>1 DEF FilesTold, FilesOwned
  <1>5. PendingUnknown'
    <2> SUFFICES ASSUME NEW s \in Requests, Pending(wire[s])'
                 PROVE  (/\ wire[s].new \in server.disk /\ wire[s].new < server.next
                         /\ Unknown(wire[s].new)
                         /\ \A q \in Requests \ {s} :
                               Pending(wire[q]) => wire[q].new # wire[s].new)'
      BY DEF PendingUnknown
    <2>1. s # r /\ wire'[s] = wire[s] /\ Pending(wire[s])
      BY <1>1 DEF Pending
    <2>2. /\ wire[s].new \in server.disk /\ wire[s].new < server.next
          /\ Unknown(wire[s].new)
          /\ \A q \in Requests \ {s} : Pending(wire[q]) => wire[q].new # wire[s].new
      BY <2>1 DEF FilesTold, PendingUnknown
    <2>3. wire[s].new # 0
      BY <2>2 DEF FileTypes
    <2>4. Unknown(wire[s].new)'
      BY <1>1, <1>2, <2>1, <2>2, <2>3 DEF Unknown
    <2> QED
      BY <1>1, <1>2, <2>1, <2>2, <2>4 DEF Pending
  <1>6. MissingReplaced'
    BY <1>1, <1>2 DEF FilesTold, MissingReplaced, Uploads
  <1> QED
    BY <1>3, <1>4, <1>5, <1>6 DEF FilesTold

\* A new file, under a name nobody has heard of.
LEMMA FilesWritten ==
    ASSUME FileTypes, FilesTold, NEW r \in Requests, NEW w, wire' = [wire EXCEPT ![r] = w],
           Shown' = Shown, server'.teams = server.teams, server'.there = server.there,
           server'.disk = server.disk \cup {server.next}, server'.next = server.next + 1,
           w.op = wire[r].op, w.op \notin Removals, Pending(w), w.new = server.next,
           w.op \in Uploads =>
              w.old = wire[r].old /\ w.team = wire[r].team /\ wire[r].at = "write"
    PROVE  FilesTold'
  <1>1. wire'[r] = w /\ \A s \in Requests \ {r} : wire'[s] = wire[s]
    BY FilesCalls
  <1>2. server.next \in Nat \ {0} /\ \A s \in Requests : FileCall(wire[s])
    BY DEF FileTypes
  <1>3. RowsGone'
    BY <1>1 DEF FilesTold, RowsGone, Takes, Removals
  <1>4. \A t \in DOMAIN Shown : Shown[t] \in Nat /\ Shown[t] < server.next
    BY DEF FileTypes, FilesTold, FilesOwned, Shown
  <1>5. \A s \in Requests : /\ wire[s].op \in Uploads =>
                                 /\ wire[s].old \in Nat /\ wire[s].old < server.next
                                 /\ wire[s].new \in Nat /\ wire[s].new < server.next
                            /\ wire[s].op \in Removals =>
                                 \A f \in wire[s].logos : f \in Nat /\ f < server.next
    BY <1>2 DEF FilesTold, FilesOwned, Owned, FileCall
  <1>6. FilesOwned'
    <2>1. ASSUME NEW s \in Requests, s # r PROVE Owned(wire[s])'
      <3>1. Owned(wire[s]) /\ wire'[s] = wire[s]
        BY <1>1, <2>1 DEF FilesTold, FilesOwned
      <3> QED
        BY <1>2, <1>5, <3>1 DEF Owned, Takes
    <2>2. Owned(wire[r])'
      <3>1. Owned(wire[r])
        BY DEF FilesTold, FilesOwned
      <3> QED
        BY <1>1, <1>2, <1>5, <3>1 DEF Owned, Takes
    <2>3. \A t \in DOMAIN Shown : Shown[t] < server.next + 1
      BY <1>2, <1>4
    <2> QED
      BY <2>1, <2>2, <2>3 DEF FilesTold, FilesOwned
  <1>7. PendingUnknown'
    <2> SUFFICES ASSUME NEW s \in Requests, Pending(wire[s])'
                 PROVE  (/\ wire[s].new \in server.disk /\ wire[s].new < server.next
                         /\ Unknown(wire[s].new)
                         /\ \A q \in Requests \ {s} :
                               Pending(wire[q]) => wire[q].new # wire[s].new)'
      BY DEF PendingUnknown
    <2>1. ASSUME NEW q \in Requests \ {r}, Pending(wire[q])
          PROVE  /\ wire[q].new \in server.disk /\ wire[q].new < server.next
                 /\ Unknown(wire[q].new) /\ wire[q].new # server.next
                 /\ \A p \in Requests \ {q} : Pending(wire[p]) => wire[p].new # wire[q].new
      <3>1. /\ wire[q].new \in server.disk /\ wire[q].new < server.next
            /\ Unknown(wire[q].new)
            /\ \A p \in Requests \ {q} : Pending(wire[p]) => wire[p].new # wire[q].new
        BY <2>1 DEF FilesTold, PendingUnknown
      <3>2. wire[q].new \in Nat
        BY <3>1 DEF FileTypes
      <3> QED
        BY <1>2, <3>1, <3>2
    <2>2. CASE s = r
      <3>1. \A t \in DOMAIN Shown : Shown[t] # server.next
        BY <1>2, <1>4
      <3>2. \A q \in Requests : /\ wire[q].op \in Uploads => wire[q].old # server.next
                                /\ wire[q].op \in Removals => server.next \notin wire[q].logos
        BY <1>2, <1>5
      <3>3. Unknown(wire[s].new)'
        BY <1>1, <2>2, <3>1, <3>2 DEF Unknown
      <3>4. \A q \in Requests \ {s} : Pending(wire'[q]) => wire'[q].new # server.next
        BY <1>1, <2>1, <2>2
      <3> QED
        BY <1>1, <1>2, <2>2, <3>3, <3>4 DEF Pending
    <2>3. CASE s # r
      <3>1. wire'[s] = wire[s] /\ Pending(wire[s])
        BY <1>1, <2>3 DEF Pending
      <3>2. /\ wire[s].new \in server.disk /\ wire[s].new < server.next
            /\ Unknown(wire[s].new) /\ wire[s].new # server.next
            /\ \A q \in Requests \ {s} : Pending(wire[q]) => wire[q].new # wire[s].new
        BY <2>1, <2>3, <3>1
      <3>3. Unknown(wire[s].new)'
        BY <1>1, <3>1, <3>2 DEF Unknown
      <3>4. wire[s].new \in Nat
        BY <3>2 DEF FileTypes
      <3> QED
        BY <1>1, <1>2, <3>1, <3>2, <3>3, <3>4 DEF Pending
    <2> QED
      BY <2>2, <2>3
  <1>8. MissingReplaced'
    BY <1>1 DEF FilesTold, MissingReplaced
  <1> QED
    BY <1>3, <1>6, <1>7, <1>8 DEF FilesTold

\* The file a row named goes, and the row is about to name another.
LEMMA FilesUnlinked ==
    ASSUME FileTypes, FilesTold, NEW r \in Requests, NEW w, wire' = [wire EXCEPT ![r] = w],
           Shown' = Shown, server'.teams = server.teams, server'.there = server.there,
           server'.disk = server.disk \ {wire[r].old}, server'.next = server.next,
           wire[r].op \in Uploads, wire[r].at = "unlink", w.op = wire[r].op, w.at = "row",
           w.old = wire[r].old, w.team = wire[r].team, w.new = wire[r].new
    PROVE  FilesTold'
  <1>1. wire'[r] = w /\ \A s \in Requests \ {r} : wire'[s] = wire[s]
    BY FilesCalls
  <1>2. wire[r].op \notin Removals /\ wire[r].op # "import" /\ wire[r].at # "files"
    BY DEF Uploads, Removals
  <1>3. RowsGone'
    BY <1>1, <1>2 DEF FilesTold, RowsGone, Takes, Removals
  <1>4. FilesOwned'
    <2>1. ASSUME NEW s \in Requests PROVE Owned(wire[s])'
      BY <1>1, <1>2 DEF FilesTold, FilesOwned, Owned, Takes
    <2> QED
      BY <2>1 DEF FilesTold, FilesOwned
  <1>5. PendingUnknown'
    <2>1. \A s \in Requests : Pending(wire'[s]) =>
             Pending(wire[s]) /\ wire'[s].new = wire[s].new
      BY <1>1, <1>2 DEF Pending
    <2>2. \A s \in Requests : /\ wire'[s].op = wire[s].op
                              /\ wire[s].op \in Uploads => wire'[s].old = wire[s].old
                              /\ wire[s].op \in Removals => wire'[s].logos = wire[s].logos
      BY <1>1, <1>2
    <2> SUFFICES ASSUME NEW s \in Requests, Pending(wire[s])'
                 PROVE  (/\ wire[s].new \in server.disk /\ wire[s].new < server.next
                         /\ Unknown(wire[s].new)
                         /\ \A q \in Requests \ {s} :
                               Pending(wire[q]) => wire[q].new # wire[s].new)'
      BY DEF PendingUnknown
    <2>3. Pending(wire[s]) /\ wire'[s].new = wire[s].new
      BY <2>1 DEF Pending
    <2>4. /\ wire[s].new \in server.disk /\ wire[s].new < server.next
          /\ Unknown(wire[s].new)
          /\ \A q \in Requests \ {s} : Pending(wire[q]) => wire[q].new # wire[s].new
      BY <2>3 DEF FilesTold, PendingUnknown
    <2>5. wire[s].new # wire[r].old
      BY <2>4 DEF Unknown
    <2>6. Unknown(wire[s].new)'
      BY <2>2, <2>3, <2>4 DEF Unknown
    <2>7. \A q \in Requests \ {s} : Pending(wire'[q]) => wire'[q].new # wire'[s].new
      BY <2>1, <2>3, <2>4
    <2> QED
      BY <2>3, <2>4, <2>5, <2>6, <2>7 DEF Pending
  <1>6. MissingReplaced'
    <2> SUFFICES ASSUME NEW t \in DOMAIN Shown
                 PROVE  \/ Shown[t] \in server'.disk \cup {0}
                        \/ \E q \in Requests : /\ wire'[q].op \in Uploads /\ wire'[q].at = "row"
                                               /\ wire'[q].team = t
      BY DEF MissingReplaced
    <2>1. CASE Shown[t] = wire[r].old /\ Shown[t] # 0
      <3>1. t = wire[r].team
        BY <2>1 DEF FilesTold, FilesOwned, Owned
      <3> QED
        BY <1>1, <3>1
    <2>2. CASE ~(Shown[t] = wire[r].old /\ Shown[t] # 0)
      <3>1. \/ Shown[t] \in server.disk \cup {0}
            \/ \E q \in Requests : wire[q].op \in Uploads /\ wire[q].at = "row" /\ wire[q].team = t
        BY DEF FilesTold, MissingReplaced
      <3> QED
        BY <1>1, <2>2, <3>1
    <2> QED
      BY <2>1, <2>2
  <1> QED
    BY <1>3, <1>4, <1>5, <1>6 DEF FilesTold

\* The row names the new file, which nobody knew of, or none.
LEMMA FilesSaved ==
    ASSUME FileTypes, FilesTold, NEW r \in Requests, NEW w, wire' = [wire EXCEPT ![r] = w],
           NEW t \in DOMAIN Shown, NEW f \in Nat, Shown' = [Shown EXCEPT ![t] = f],
           Len(server'.teams) = Len(server.teams), server'.there = server.there,
           server'.disk = server.disk, server'.next = server.next,
           f < server.next, f = 0 \/ (Pending(wire[r]) /\ f = wire[r].new),
           wire[r].op \in Uploads /\ wire[r].at = "row" => wire[r].team = t,
           w.op \notin Uploads \cup Removals, ~Pending(w)
    PROVE  FilesTold'
  <1>1. wire'[r] = w /\ \A s \in Requests \ {r} : wire'[s] = wire[s]
    BY FilesCalls
  <1>2. /\ DOMAIN Shown' = DOMAIN Shown /\ Shown'[t] = f
        /\ \A u \in DOMAIN Shown : u # t => Shown'[u] = Shown[u]
    BY DEF Shown
  <1>3. f # 0 => /\ f \in server.disk /\ Unknown(f)
                 /\ \A s \in Requests \ {r} : Pending(wire[s]) => wire[s].new # f
    BY DEF FilesTold, PendingUnknown
  <1>4. RowsGone'
    BY <1>1, <1>2 DEF FilesTold, RowsGone, Takes, Removals
  <1>5. FilesOwned'
    <2>1. ASSUME NEW s \in Requests PROVE Owned(wire[s])'
      <3>1. CASE s = r
        BY <1>1, <3>1 DEF Owned
      <3>2. CASE s # r
        <4>1. Owned(wire[s]) /\ wire'[s] = wire[s]
          BY <1>1, <3>2 DEF FilesTold, FilesOwned
        <4>2. /\ wire[s].op \in Uploads => wire[s].old # f \/ f = 0
              /\ wire[s].op \in Removals => \A g \in wire[s].logos : g # f \/ f = 0
          BY <1>3 DEF Unknown
        <4> QED
          BY <1>2, <4>1, <4>2 DEF Owned, Takes
      <3> QED
        BY <3>1, <3>2
    <2>2. \A u \in DOMAIN Shown' : Shown'[u] < server'.next
      BY <1>2 DEF FilesTold, FilesOwned
    <2>3. \A u, v \in DOMAIN Shown' : Shown'[u] = Shown'[v] /\ Shown'[u] # 0 => u = v
      BY <1>2, <1>3 DEF FilesTold, FilesOwned, Unknown
    <2> QED
      BY <2>1, <2>2, <2>3 DEF FilesOwned
  <1>6. PendingUnknown'
    <2> SUFFICES ASSUME NEW s \in Requests, Pending(wire[s])'
                 PROVE  (/\ wire[s].new \in server.disk /\ wire[s].new < server.next
                         /\ Unknown(wire[s].new)
                         /\ \A q \in Requests \ {s} :
                               Pending(wire[q]) => wire[q].new # wire[s].new)'
      BY DEF PendingUnknown
    <2>1. s # r /\ wire'[s] = wire[s] /\ Pending(wire[s])
      BY <1>1 DEF Pending
    <2>2. /\ wire[s].new \in server.disk /\ wire[s].new < server.next
          /\ Unknown(wire[s].new)
          /\ \A q \in Requests \ {s} : Pending(wire[q]) => wire[q].new # wire[s].new
      BY <2>1 DEF FilesTold, PendingUnknown
    <2>3. wire[s].new # 0 /\ wire[s].new # f
      BY <1>3, <2>1, <2>2 DEF FileTypes
    <2>4. Unknown(wire[s].new)'
      BY <1>1, <1>2, <2>1, <2>2, <2>3 DEF Unknown
    <2> QED
      BY <1>1, <2>1, <2>2, <2>4 DEF Pending
  <1>7. MissingReplaced'
    <2> SUFFICES ASSUME NEW u \in DOMAIN Shown
                 PROVE  \/ Shown'[u] \in server.disk \cup {0}
                        \/ \E q \in Requests : /\ wire'[q].op \in Uploads /\ wire'[q].at = "row"
                                               /\ wire'[q].team = u
      BY <1>2 DEF MissingReplaced
    <2>1. CASE u = t
      BY <1>2, <1>3, <2>1
    <2>2. CASE u # t
      <3>1. \/ Shown[u] \in server.disk \cup {0}
            \/ \E q \in Requests : wire[q].op \in Uploads /\ wire[q].at = "row" /\ wire[q].team = u
        BY DEF FilesTold, MissingReplaced
      <3> QED
        BY <1>1, <1>2, <2>2, <3>1
    <2> QED
      BY <2>1, <2>2
  <1> QED
    BY <1>4, <1>5, <1>6, <1>7 DEF FilesTold

\* Rows go, and the call that deleted them goes on to their files.
LEMMA FilesDeleted ==
    ASSUME FileTypes, FilesTold, NEW r \in Requests, NEW w, wire' = [wire EXCEPT ![r] = w],
           NEW taken, Shown' = [t \in DOMAIN Shown \ taken |-> Shown[t]],
           Len(server'.teams) = Len(server.teams), ~server.there => ~server'.there,
           ~server'.there => DOMAIN Shown' = {},
           server'.disk = server.disk, server'.next = server.next,
           wire[r].op \in Removals, wire[r].at = "rows", w.op = wire[r].op, w.at = "files",
           w.logos = wire[r].logos, w.op = "remove" => w.teams = wire[r].teams,
           w.op = "removeOne" => w.team = wire[r].team,
           \A t \in DOMAIN Shown : Takes(w, t) => t \in taken,
           w.op = "deleteTournament" => ~server'.there
    PROVE  FilesTold'
  <1>1. wire'[r] = w /\ \A s \in Requests \ {r} : wire'[s] = wire[s]
    BY FilesCalls
  <1>2. /\ DOMAIN Shown' = DOMAIN Shown \ taken
        /\ \A t \in DOMAIN Shown' : t \in DOMAIN Shown /\ Shown'[t] = Shown[t]
    OBVIOUS
  <1>3. wire[r].op \notin Uploads /\ wire[r].op # "import" /\ ~Pending(w)
    BY DEF Uploads, Removals, Pending
  <1>4. RowsGone'
    <2>1. ASSUME NEW s \in Requests
          PROVE  /\ wire'[s].op = "remove" => wire'[s].teams \subseteq 1 .. Len(server'.teams)
                 /\ wire'[s].op = "removeOne" => wire'[s].team \in 1 .. Len(server'.teams)
      BY <1>1 DEF FilesTold, RowsGone
    <2>2. ASSUME NEW s \in Requests, wire'[s].op \in Removals, wire'[s].at = "files"
          PROVE  /\ \A t \in DOMAIN Shown' : ~Takes(wire'[s], t)
                 /\ wire'[s].op = "deleteTournament" => ~server'.there
      <3>1. CASE s = r
        BY <1>1, <1>2, <3>1
      <3>2. CASE s # r
        <4>1. wire'[s] = wire[s]
          BY <1>1, <3>2
        <4>2. /\ \A t \in DOMAIN Shown : ~Takes(wire[s], t)
              /\ wire[s].op = "deleteTournament" => ~server.there
          BY <2>2, <4>1 DEF FilesTold, RowsGone
        <4> QED
          BY <1>2, <4>1, <4>2
      <3> QED
        BY <3>1, <3>2
    <2> QED
      BY <2>1, <2>2 DEF RowsGone, Takes
  <1>5. FilesOwned'
    <2>1. ASSUME NEW s \in Requests PROVE Owned(wire[s])'
      <3>1. Owned(wire[s])
        BY DEF FilesTold, FilesOwned
      <3> QED
        BY <1>1, <1>2, <1>3, <3>1 DEF Owned, Takes
    <2> QED
      BY <1>2, <2>1 DEF FilesTold, FilesOwned
  <1>6. PendingUnknown'
    <2> SUFFICES ASSUME NEW s \in Requests, Pending(wire[s])'
                 PROVE  (/\ wire[s].new \in server.disk /\ wire[s].new < server.next
                         /\ Unknown(wire[s].new)
                         /\ \A q \in Requests \ {s} :
                               Pending(wire[q]) => wire[q].new # wire[s].new)'
      BY DEF PendingUnknown
    <2>1. s # r /\ wire'[s] = wire[s] /\ Pending(wire[s])
      BY <1>1, <1>3 DEF Pending
    <2>2. /\ wire[s].new \in server.disk /\ wire[s].new < server.next
          /\ Unknown(wire[s].new)
          /\ \A q \in Requests \ {s} : Pending(wire[q]) => wire[q].new # wire[s].new
      BY <2>1 DEF FilesTold, PendingUnknown
    <2>3. Unknown(wire[s].new)'
      BY <1>1, <1>2, <1>3, <2>1, <2>2 DEF Unknown
    <2> QED
      BY <1>1, <1>3, <2>1, <2>2, <2>3 DEF Pending
  <1>7. MissingReplaced'
    BY <1>1, <1>2, <1>3 DEF FilesTold, MissingReplaced
  <1> QED
    BY <1>4, <1>5, <1>6, <1>7 DEF FilesTold

\* The files of rows that are gone go.
LEMMA FilesErased ==
    ASSUME FileTypes, FilesTold, NEW r \in Requests, NEW w, wire' = [wire EXCEPT ![r] = w],
           Shown' = Shown, server'.teams = server.teams, server'.there = server.there,
           server'.disk = server.disk \ wire[r].logos, server'.next = server.next,
           wire[r].op \in Removals, wire[r].at = "files", w.op \notin Uploads \cup Removals,
           ~Pending(w)
    PROVE  FilesTold'
  <1>1. wire'[r] = w /\ \A s \in Requests \ {r} : wire'[s] = wire[s]
    BY FilesCalls
  <1>2. wire[r].op \notin Uploads
    BY DEF Uploads, Removals
  <1>3. RowsGone'
    BY <1>1 DEF FilesTold, RowsGone, Takes, Removals
  <1>4. FilesOwned'
    <2>1. ASSUME NEW s \in Requests PROVE Owned(wire[s])'
      BY <1>1 DEF FilesTold, FilesOwned, Owned, Takes
    <2> QED
      BY <2>1 DEF FilesTold, FilesOwned
  <1>5. PendingUnknown'
    <2> SUFFICES ASSUME NEW s \in Requests, Pending(wire[s])'
                 PROVE  (/\ wire[s].new \in server.disk /\ wire[s].new < server.next
                         /\ Unknown(wire[s].new)
                         /\ \A q \in Requests \ {s} :
                               Pending(wire[q]) => wire[q].new # wire[s].new)'
      BY DEF PendingUnknown
    <2>1. s # r /\ wire'[s] = wire[s] /\ Pending(wire[s])
      BY <1>1 DEF Pending
    <2>2. /\ wire[s].new \in server.disk /\ wire[s].new < server.next
          /\ Unknown(wire[s].new)
          /\ \A q \in Requests \ {s} : Pending(wire[q]) => wire[q].new # wire[s].new
      BY <2>1 DEF FilesTold, PendingUnknown
    <2>3. wire[s].new \notin wire[r].logos
      BY <2>2 DEF Unknown
    <2>4. Unknown(wire[s].new)'
      BY <1>1, <2>1, <2>2 DEF Unknown
    <2> QED
      BY <1>1, <2>1, <2>2, <2>3, <2>4 DEF Pending
  <1>6. MissingReplaced'
    <2> SUFFICES ASSUME NEW t \in DOMAIN Shown
                 PROVE  \/ Shown[t] \in server'.disk \cup {0}
                        \/ \E q \in Requests : /\ wire'[q].op \in Uploads /\ wire'[q].at = "row"
                                               /\ wire'[q].team = t
      BY DEF MissingReplaced
    <2>1. ~Takes(wire[r], t)
      BY DEF FilesTold, RowsGone
    <2>2. Shown[t] \notin wire[r].logos \/ Shown[t] = 0
      BY <2>1 DEF FilesTold, FilesOwned, Owned
    <2>3. \/ Shown[t] \in server.disk \cup {0}
          \/ \E q \in Requests : wire[q].op \in Uploads /\ wire[q].at = "row" /\ wire[q].team = t
      BY DEF FilesTold, MissingReplaced
    <2> QED
      BY <1>1, <1>2, <2>2, <2>3
  <1> QED
    BY <1>3, <1>4, <1>5, <1>6 DEF FilesTold

(* The calls that write no file *)

LEMMA FileTypesKept ==
    ASSUME FileTypes, NEW r \in Requests, NEW w, wire' = [wire EXCEPT ![r] = w], FileCall(w),
           server' \in [there : BOOLEAN, teams : {server'.teams}, disk : SUBSET (Nat \ {0}),
                        next : Nat \ {0}],
           \E S : server'.teams \in Seq(S),
           \A t \in Logos!Live' :
              "logo" \in DOMAIN server'.teams[t] /\ server'.teams[t].logo \in Nat,
           left' \in [requests : {left.requests}, operations : {left.operations},
                      calls : Nat, failures : Nat]
    PROVE  FileTypes'
  <1>1. wire'[r] = w /\ (\A s \in Requests \ {r} : wire'[s] = wire[s])
        /\ wire' = [s \in Requests |-> wire'[s]]
    BY FilesCalls
  <1>2. \A s \in Requests : FileCall(wire'[s])
    BY <1>1 DEF FileTypes
  <1>3. left' \in [requests : (SUBSET Requests) \ {{}}, operations : {left'.operations},
                   calls : Nat, failures : Nat]
    BY DEF FileTypes
  <1>4. (\A t \in Logos!Live : "logo" \in DOMAIN server.teams[t] /\ server.teams[t].logo \in Nat)'
    OBVIOUS
  <1>5. (\A s \in Requests : FileCall(wire[s]))'
    BY <1>2 DEF FileCall
  <1> QED
    BY <1>1, <1>3, <1>4, <1>5 DEF FileTypes

LEMMA CallAccepted ==
    ASSUME FileTypes, NEW r \in Requests, NEW op, Logos!Accept(r, op)
    PROVE  /\ wire[r] = Logos!Idle /\ op \in left.operations /\ server.there
           /\ left' \in [requests : {left.requests}, operations : {left.operations},
                         calls : Nat, failures : Nat]
           /\ left' \in [requests : {left.requests}, operations : {left.operations},
                         calls : Nat, failures : {left.failures}]
           /\ r \in left.requests
  <1>1. left \in [requests : (SUBSET Requests) \ {{}}, operations : {left.operations},
                  calls : Nat, failures : Nat]
    BY DEF FileTypes
  <1>2. left.calls > 0 /\ left' = [left EXCEPT !.calls = @ - 1]
    BY DEF Logos!Accept
  <1>3. left.calls - 1 \in Nat
    BY <1>1, <1>2
  <1>4. left' \in [requests : {left.requests}, operations : {left.operations},
                   calls : Nat, failures : Nat]
    BY <1>1, <1>2, <1>3
  <1>5. left' \in [requests : {left.requests}, operations : {left.operations},
                   calls : Nat, failures : {left.failures}]
    BY <1>1, <1>2, <1>3
  <1> QED
    BY <1>4, <1>5 DEF Logos!Accept

LEMMA IdleCall == FileCall(Logos!Idle) /\ ~Pending(Logos!Idle) /\ Logos!Idle.op = "idle"
  BY DEF FileCall, Pending, Logos!Idle, Uploads, Removals

\* What the steps of a request leave of the workload.
LEMMA WorkloadStays ==
    ASSUME FileTypes, UNCHANGED left
    PROVE  /\ left' \in [requests : {left.requests}, operations : {left.operations},
                         calls : Nat, failures : Nat]
           /\ left' \in [requests : {left.requests}, operations : {left.operations},
                         calls : Nat, failures : {left.failures}]
  BY DEF FileTypes

LEMMA ServerStays ==
    ASSUME FileTypes, UNCHANGED server
    PROVE  /\ server' \in [there : BOOLEAN, teams : {server'.teams}, disk : SUBSET (Nat \ {0}),
                           next : Nat \ {0}]
           /\ \E S : server'.teams \in Seq(S)
           /\ \A t \in Logos!Live' :
                 "logo" \in DOMAIN server'.teams[t] /\ server'.teams[t].logo \in Nat
           /\ Shown' = Shown
  BY RowsSame DEF FileTypes

LEMMA CallStays ==
    ASSUME FileTypes, NEW r \in Requests, UNCHANGED wire
    PROVE  wire' = [wire EXCEPT ![r] = wire[r]]
  BY DEF FileTypes

LEMMA OnlyTeams ==
    ASSUME FileTypes, NEW rows, server' = [server EXCEPT !.teams = rows]
    PROVE  /\ server'.teams = rows /\ server'.there = server.there
           /\ server'.disk = server.disk /\ server'.next = server.next
           /\ server' \in [there : BOOLEAN, teams : {server'.teams}, disk : SUBSET (Nat \ {0}),
                           next : Nat \ {0}]
  BY DEF FileTypes

LEMMA ExactKept ==
    ASSUME FileTypes, FilesExact, NEW r \in Requests, NEW w, wire' = [wire EXCEPT ![r] = w],
           r \in left.requests \/ wire[r].op # "idle",
           left' \in [requests : {left.requests}, operations : {left.operations},
                      calls : Nat, failures : {left.failures}],
           w.op \in Uploads =>
              wire[r].op \in Uploads \/ \E op \in left.operations : op \in Uploads,
           Exact(wire[r], Shown, server.disk) => Exact(w, Shown', server'.disk)
    PROVE  FilesExact'
  <1>1. wire'[r] = w /\ \A s \in Requests \ {r} : wire'[s] = wire[s]
    BY FilesCalls
  <1>2. /\ left'.requests = left.requests /\ left'.operations = left.operations
        /\ left'.failures = left.failures
    OBVIOUS
  <1>3. LossesSpareLogos'
    BY <1>1, <1>2 DEF FilesExact, LossesSpareLogos
  <1>4. r \in left.requests
    BY IdleCall DEF FilesExact, NothingSpared
  <1>5. \A s \in Requests \ left'.requests : wire'[s] = Logos!Idle
    BY <1>1, <1>2, <1>4 DEF FilesExact, NothingSpared
  <1>6. ASSUME Logos!Alone'
        PROVE  left'.failures = 0 /\ \A s \in left'.requests : Exact(wire'[s], Shown', server'.disk)
    <2>1. Logos!Alone
      BY <1>2, <1>6 DEF Logos!Alone
    <2>2. left.failures = 0 /\ Exact(wire[r], Shown, server.disk)
      BY <1>4, <2>1 DEF FilesExact, NothingSpared
    <2>3. \A s \in left'.requests : s = r
      BY <1>2, <1>4, <2>1 DEF Logos!Alone
    <2>4. \A s \in left'.requests : wire'[s] = w
      BY <1>1, <2>3
    <2> QED
      BY <1>2, <2>2, <2>4
  <1>7. NothingSpared'
    BY <1>5, <1>6 DEF NothingSpared, Exact
  <1> QED
    BY <1>3, <1>7 DEF FilesExact

\* A call that holds no file, and after it a call that relies on none.
LEMMA ExactStays ==
    ASSUME NEW v, NEW w, NEW old, NEW new, NEW disk, Spare(v) = {}, ~Pending(w),
           w.op \notin Uploads \cup Removals, w.op = "import" => w.at \notin {"fetch", "logo"},
           DOMAIN old \subseteq DOMAIN new, \A t \in DOMAIN old : new[t] = old[t]
    PROVE  Exact(v, old, disk) => Exact(w, new, disk)
  <1>1. Spare(w) = {} /\ UpToDate(w, new, disk)
    BY DEF Spare, UpToDate
  <1> QED
    BY <1>1 DEF Exact

LEMMA IdleSparesNothing == Spare(Logos!Idle) = {}
  BY IdleCall DEF Spare, Removals

LEMMA CreateKeeps ==
    ASSUME FileTypes, FilesTold, FilesExact, NEW r \in Requests,
           Logos!Create(r)
    PROVE  FileTypes' /\ FilesTold' /\ FilesExact'
  <1>1. Logos!Accept(r, "create") /\ UNCHANGED wire
    BY DEF Logos!Create
  <1>2. PICK name, category, division :
           server' = [server EXCEPT !.teams = Append(@, Logos!Row(name, category, division))]
    BY DEF Logos!Create
  <1> DEFINE row == Logos!Row(name, category, division)
  <1>3. "logo" \in DOMAIN row /\ row.logo = 0
    BY DEF Logos!Row, Logos!NoLogo
  <1>4. server' = [server EXCEPT !.teams = Append(server.teams, row)]
    BY <1>2 DEF FileTypes
  <1> HIDE DEF row
  <1>5. /\ server'.teams = Append(server.teams, row) /\ server'.there = server.there
        /\ server'.disk = server.disk /\ server'.next = server.next
        /\ server' \in [there : BOOLEAN, teams : {server'.teams}, disk : SUBSET (Nat \ {0}),
                        next : Nat \ {0}]
    BY <1>4, OnlyTeams
  <1>6. wire' = [wire EXCEPT ![r] = Logos!Idle] /\ wire[r] = Logos!Idle
    BY <1>1, CallStays, CallAccepted
  <1>7. FileTypes'
    BY <1>1, <1>3, <1>5, <1>6, CallAccepted, IdleCall, RowAdded, FileTypesKept
  <1>8. /\ DOMAIN Shown \subseteq DOMAIN Shown' /\ \A t \in DOMAIN Shown : Shown'[t] = Shown[t]
        /\ \A t \in DOMAIN Shown' \ DOMAIN Shown : Shown'[t] = 0 /\ t \notin 1 .. Len(server.teams)
        /\ 1 .. Len(server.teams) \subseteq 1 .. Len(server'.teams)
    BY <1>3, <1>5, RowAdded
  <1>9. server.there
    BY <1>1, CallAccepted
  <1>10. Logos!Idle.op \notin Uploads \cup Removals /\ wire[r].op \notin Uploads
    BY <1>6, IdleCall DEF Uploads, Removals
  <1>11. FilesExact'
    <2>1. Exact(Logos!Idle, Shown, server.disk) => Exact(Logos!Idle, Shown', server'.disk)
      BY <1>5, <1>8, <1>10, IdleCall, IdleSparesNothing, ExactStays
    <2> QED
      BY <1>1, <1>6, <1>10, <2>1, CallAccepted, ExactKept
  <1> QED
    BY <1>5, <1>6, <1>7, <1>8, <1>9, <1>10, <1>11, IdleCall, FilesStay

\* A row written, its logo left as it is.
LEMMA RowWritten ==
    ASSUME FileTypes, NEW t \in Logos!Live, NEW row, "logo" \in DOMAIN row,
           row.logo = server.teams[t].logo,
           server' = [server EXCEPT !.teams = [server.teams EXCEPT ![t] = row]]
    PROVE  /\ Shown' = Shown /\ Len(server'.teams) = Len(server.teams)
           /\ server'.there = server.there
           /\ server'.disk = server.disk /\ server'.next = server.next
           /\ server' \in [there : BOOLEAN, teams : {server'.teams}, disk : SUBSET (Nat \ {0}),
                           next : Nat \ {0}]
           /\ \E S : server'.teams \in Seq(S)
           /\ \A u \in Logos!Live' :
                 "logo" \in DOMAIN server'.teams[u] /\ server'.teams[u].logo \in Nat
  <1>1. row.logo \in Nat
    BY DEF FileTypes
  <1>2. /\ server'.teams = [server.teams EXCEPT ![t] = row] /\ server'.there = server.there
        /\ server'.disk = server.disk /\ server'.next = server.next
        /\ server' \in [there : BOOLEAN, teams : {server'.teams}, disk : SUBSET (Nat \ {0}),
                        next : Nat \ {0}]
    BY OnlyTeams
  <1>3. Shown' = [Shown EXCEPT ![t] = row.logo]
    BY <1>1, <1>2, RowChanged
  <1>4. Shown' = Shown
    BY <1>3 DEF Shown
  <1> QED
    BY <1>1, <1>2, <1>4, RowChanged

LEMMA UpdateKeeps ==
    ASSUME FileTypes, FilesTold, FilesExact, NEW r \in Requests,
           Logos!Update(r)
    PROVE  FileTypes' /\ FilesTold' /\ FilesExact'
  <1>1. Logos!Accept(r, "update") /\ UNCHANGED wire
    BY DEF Logos!Update
  <1>a. PICK t \in Logos!Live, name \in Names, category \in Logos!Categories :
           \E d \in Divisions[category] \cup {Logos!Unset} :
              /\ \A u \in Logos!Live \ {t} : server.teams[u].name # name
              /\ server' = [server EXCEPT !.teams[t] = [server.teams[t] EXCEPT
                               !.name = name, !.category = category, !.division = d]]
    BY Zenon DEF Logos!Update
  <1>2. PICK division :
           server' = [server EXCEPT !.teams[t] = [server.teams[t] EXCEPT
                         !.name = name, !.category = category, !.division = division]]
    BY <1>a, Zenon
  <1> DEFINE row == [server.teams[t] EXCEPT !.name = name, !.category = category,
                                            !.division = division]
  <1>3. "logo" \in DOMAIN row /\ row.logo = server.teams[t].logo
    BY DEF FileTypes
  <1>4. server' = [server EXCEPT !.teams = [server.teams EXCEPT ![t] = row]]
    BY <1>2 DEF FileTypes, Logos!Live
  <1> HIDE DEF row
  <1>5. wire' = [wire EXCEPT ![r] = Logos!Idle] /\ wire[r] = Logos!Idle
    BY <1>1, CallStays, CallAccepted
  <1>6. FileTypes'
    BY <1>1, <1>3, <1>4, <1>5, CallAccepted, IdleCall, RowWritten, FileTypesKept
  <1>7. Logos!Idle.op \notin Uploads \cup Removals /\ wire[r].op \notin Uploads
    BY <1>5, IdleCall DEF Uploads, Removals
  <1>8. FilesExact'
    <2>1. Exact(Logos!Idle, Shown, server.disk) => Exact(Logos!Idle, Shown', server'.disk)
      BY <1>3, <1>4, RowWritten
    <2> QED
      BY <1>1, <1>5, <1>7, <2>1, CallAccepted, ExactKept
  <1> QED
    BY <1>3, <1>4, <1>5, <1>6, <1>7, <1>8, RowWritten, IdleCall, FilesStay

\* A call that only reads: the rows, the files and the workload's bounds apart, it is the calls'.
LEMMA ReadForGroupKeeps ==
    ASSUME FileTypes, FilesTold, FilesExact, NEW r \in Requests,
           Logos!ReadForGroup(r)
    PROVE  FileTypes' /\ FilesTold' /\ FilesExact'
  <1>1. Logos!Accept(r, "group") /\ UNCHANGED server
    BY DEF Logos!ReadForGroup
  <1>2. PICK t, g :
           wire' = [wire EXCEPT ![r] = [op |-> "group", at |-> "row", team |-> t, group |-> g]]
    BY DEF Logos!ReadForGroup, Logos!Goto
  <1> DEFINE w == [op |-> "group", at |-> "row", team |-> t, group |-> g]
  <1>3. FileCall(w) /\ w.op \notin Uploads \cup Removals /\ ~Pending(w) /\ w.op # "import"
    BY DEF FileCall, Pending, Uploads, Removals
  <1> HIDE DEF w
  <1>4. wire' = [wire EXCEPT ![r] = w]
    BY <1>2 DEF w
  <1>5. FileTypes'
    BY <1>1, <1>3, <1>4, CallAccepted, ServerStays, FileTypesKept
  <1>6. wire[r].op \notin Uploads
    BY <1>1, CallAccepted, IdleCall DEF Uploads
  <1>7. FilesExact'
    <2>1. Exact(Logos!Idle, Shown, server.disk) => Exact(w, Shown', server'.disk)
      BY <1>1, <1>3, IdleSparesNothing, ServerStays, ExactStays
    <2> QED
      BY <1>1, <1>3, <1>4, <2>1, CallAccepted, ExactKept
  <1> QED
    BY <1>1, <1>3, <1>4, <1>5, <1>6, <1>7, ServerStays, FilesStay

LEMMA AssignGroupKeeps ==
    ASSUME FileTypes, FilesTold, FilesExact, NEW r \in Requests,
           Logos!AssignGroup(r)
    PROVE  FileTypes' /\ FilesTold' /\ FilesExact'
  <1>1. wire[r].op = "group" /\ UNCHANGED left /\ wire' = [wire EXCEPT ![r] = Logos!Idle]
    BY DEF Logos!AssignGroup, Logos!At, Logos!Finish
  <1>2. /\ Logos!Idle.op \notin Uploads \cup Removals /\ wire[r].op \notin Uploads
        /\ Spare(wire[r]) = {} /\ wire[r].op # "idle"
    BY <1>1, IdleCall DEF Uploads, Removals, Spare, Pending
  <1>a. ASSUME Shown' = Shown, server'.disk = server.disk PROVE FilesExact'
    <2>1. Exact(wire[r], Shown, server.disk) => Exact(Logos!Idle, Shown', server'.disk)
      BY <1>2, <1>a, IdleCall, ExactStays
    <2> QED
      BY <1>1, <1>2, <2>1, WorkloadStays, ExactKept
  <1>3. CASE UNCHANGED server
    <2>1. FileTypes'
      BY <1>1, <1>3, WorkloadStays, ServerStays, IdleCall, FileTypesKept
    <2> QED
      BY <1>1, <1>2, <1>3, <1>a, <2>1, IdleCall, ServerStays, FilesStay
  <1>4. CASE wire[r].team \in Logos!Live
             /\ server' = [server EXCEPT !.teams[wire[r].team].group = wire[r].group]
    <2> DEFINE t == wire[r].team
               row == [server.teams[t] EXCEPT !.group = wire[r].group]
    <2>1. t \in Logos!Live
      BY <1>4
    <2>2. "logo" \in DOMAIN row /\ row.logo = server.teams[t].logo
      BY <2>1 DEF FileTypes
    <2>3. server' = [server EXCEPT !.teams = [server.teams EXCEPT ![t] = row]]
      BY <1>4 DEF FileTypes, Logos!Live
    <2> HIDE DEF t, row
    <2>4. FileTypes'
      BY <1>1, <2>1, <2>2, <2>3, WorkloadStays, IdleCall, RowWritten, FileTypesKept
    <2> QED
      BY <1>1, <1>2, <1>a, <2>1, <2>2, <2>3, <2>4, RowWritten, IdleCall, FilesStay
  <1> QED
    BY <1>3, <1>4 DEF Logos!AssignGroup

(* The logos *)

LEMMA ReadForLogoKeeps ==
    ASSUME FileTypes, FilesTold, FilesExact, NEW r \in Requests,
           Logos!StartUpload(r) \/ Logos!StartRemoveLogo(r)
    PROVE  FileTypes' /\ FilesTold' /\ FilesExact'
  <1>0. PICK op, at : /\ Logos!ReadForLogo(r, op, at)
                      /\ \/ op = "upload" /\ at = "write"
                         \/ op = "removeLogo" /\ at = "unlink"
    BY DEF Logos!StartUpload, Logos!StartRemoveLogo
  <1>1. Logos!Accept(r, op) /\ UNCHANGED server
    BY <1>0 DEF Logos!ReadForLogo
  <1>2. PICK t \in Logos!Live :
           wire' = [wire EXCEPT ![r] = [op |-> op, at |-> at, team |-> t,
                                        old |-> server.teams[t].logo, new |-> Logos!NoLogo]]
    BY <1>0 DEF Logos!ReadForLogo, Logos!Goto
  <1> DEFINE w == [op |-> op, at |-> at, team |-> t,
                   old |-> server.teams[t].logo, new |-> Logos!NoLogo]
  <1>3. t \in DOMAIN Shown /\ Shown[t] = server.teams[t].logo /\ Shown[t] \in Nat
    BY DEF FileTypes, Shown
  <1>4. FileCall(w) /\ w.op \in Uploads /\ w.op \notin Removals /\ ~Pending(w)
    BY <1>0, <1>3 DEF FileCall, Pending, Uploads, Removals, Logos!NoLogo
  <1>5. w.old = Shown[t] /\ w.team = t /\ w.new = 0
    BY <1>3 DEF Logos!NoLogo
  <1> HIDE DEF w
  <1>6. Owned(w)
    <2>1. 0 < server.next
      BY DEF FileTypes
    <2> QED
      BY <1>3, <1>4, <1>5, <2>1 DEF FilesTold, FilesOwned, Owned
  <1>7. wire' = [wire EXCEPT ![r] = w]
    BY <1>2 DEF w
  <1>8. FileTypes'
    BY <1>1, <1>4, <1>7, CallAccepted, ServerStays, FileTypesKept
  <1>9. wire[r].op = "idle" /\ w.op \notin Removals /\ w.op # "remove" /\ w.op # "removeOne"
    BY <1>1, <1>4, CallAccepted, IdleCall DEF Removals
  <1>10. FilesExact'
    <2>1. Spare(w) = {} /\ w.at # "row" /\ w.op # "import"
      BY <1>0, <1>4 DEF w, Spare, Uploads
    <2>2. Exact(Logos!Idle, Shown, server.disk) => Exact(w, Shown', server'.disk)
      BY <1>1, <1>3, <1>4, <1>5, <2>1, IdleSparesNothing, ServerStays DEF Exact, UpToDate
    <2>3. op \in Uploads
      BY <1>0 DEF Uploads
    <2> QED
      BY <1>1, <1>7, <2>2, <2>3, CallAccepted, ExactKept
  <1> QED
    BY <1>1, <1>3, <1>4, <1>5, <1>6, <1>7, <1>8, <1>9, <1>10, FilesRead

LEMMA WriteLogoKeeps ==
    ASSUME FileTypes, FilesTold, FilesExact, NEW r \in Requests,
           Logos!WriteLogo(r)
    PROVE  FileTypes' /\ FilesTold' /\ FilesExact'
  <1> DEFINE w == [wire[r] EXCEPT !.at = "unlink", !.new = server.next]
  <1>1. /\ wire[r].op = "upload" /\ wire[r].at = "write" /\ UNCHANGED left
        /\ server' = [server EXCEPT !.disk = @ \cup {server.next}, !.next = @ + 1]
        /\ wire' = [wire EXCEPT ![r] = w]
    BY DEF Logos!WriteLogo, Logos!At, Logos!Goto
  <1>2. FileCall(wire[r]) /\ server.next \in Nat \ {0}
    BY DEF FileTypes
  <1>3. /\ w.op = "upload" /\ w.at = "unlink" /\ w.new = server.next
        /\ w.old = wire[r].old /\ w.team = wire[r].team /\ DOMAIN w = DOMAIN wire[r]
    BY <1>1, <1>2 DEF FileCall, Uploads
  <1> HIDE DEF w
  <1>4. FileCall(w) /\ w.op \notin Removals /\ Pending(w)
    BY <1>1, <1>2, <1>3 DEF FileCall, Uploads, Removals, Pending
  <1>5. /\ server'.teams = server.teams /\ server'.there = server.there
        /\ server'.disk = server.disk \cup {server.next} /\ server'.next = server.next + 1
        /\ server' \in [there : BOOLEAN, teams : {server'.teams}, disk : SUBSET (Nat \ {0}),
                        next : Nat \ {0}]
    <2>1. /\ server \in [there : BOOLEAN, teams : {server.teams}, disk : SUBSET (Nat \ {0}),
                         next : Nat \ {0}]
          /\ server' = [server EXCEPT !.disk = server.disk \cup {server.next},
                                      !.next = server.next + 1]
      BY <1>1 DEF FileTypes
    <2>2. /\ server.disk \cup {server.next} \in SUBSET (Nat \ {0})
          /\ server.next + 1 \in Nat \ {0}
      BY <2>1
    <2> QED
      BY <2>1, <2>2
  <1>6. FileTypes'
    BY <1>1, <1>4, <1>5, WorkloadStays, RowsSame, FileTypesKept
  <1>7. FilesExact'
    <2>1. wire[r].op \in Uploads /\ Spare(wire[r]) = {} /\ Spare(w) = {server.next}
      BY <1>1, <1>3, <1>4 DEF Spare, Pending, Uploads, Removals
    <2>2. Exact(wire[r], Shown, server.disk) => Exact(w, Shown', server'.disk)
      BY <1>1, <1>3, <1>4, <1>5, <2>1, RowsSame DEF Exact, UpToDate
    <2> QED
      BY <1>1, <2>1, <2>2, WorkloadStays, ExactKept
  <1> QED
    BY <1>1, <1>3, <1>4, <1>5, <1>6, <1>7, RowsSame, FilesWritten

LEMMA UnlinkLogoKeeps ==
    ASSUME FileTypes, FilesTold, FilesExact, NEW r \in Requests,
           Logos!UnlinkLogo(r)
    PROVE  FileTypes' /\ FilesTold' /\ FilesExact'
  <1> DEFINE w == [wire[r] EXCEPT !.at = "row"]
  <1>1. /\ wire[r].at = "unlink" /\ UNCHANGED left
        /\ server' = [server EXCEPT !.disk = @ \ {wire[r].old}]
        /\ wire' = [wire EXCEPT ![r] = w]
    BY DEF Logos!UnlinkLogo, Logos!Step, FileTypes
  <1>2. FileCall(wire[r])
    BY DEF FileTypes
  <1>3. wire[r].op \in Uploads
    BY <1>1, <1>2 DEF FileCall, Logos!Idle
  <1>4. /\ w.op = wire[r].op /\ w.at = "row" /\ w.new = wire[r].new
        /\ w.old = wire[r].old /\ w.team = wire[r].team /\ DOMAIN w = DOMAIN wire[r]
    BY <1>2, <1>3 DEF FileCall
  <1> HIDE DEF w
  <1>5. FileCall(w)
    BY <1>2, <1>3, <1>4 DEF FileCall, Uploads, Removals
  <1>6. /\ server'.teams = server.teams /\ server'.there = server.there
        /\ server'.disk = server.disk \ {wire[r].old} /\ server'.next = server.next
        /\ server' \in [there : BOOLEAN, teams : {server'.teams}, disk : SUBSET (Nat \ {0}),
                        next : Nat \ {0}]
    BY <1>1 DEF FileTypes
  <1>7. FileTypes'
    BY <1>1, <1>5, <1>6, WorkloadStays, RowsSame, FileTypesKept
  <1>8. FilesExact'
    <2>1. /\ Spare(w) = Spare(wire[r]) /\ wire[r].op # "idle"
          /\ w.op # "import" /\ w.op \notin Removals
      BY <1>1, <1>3, <1>4 DEF Spare, Pending, Uploads, Removals
    <2>2. Exact(wire[r], Shown, server.disk) => Exact(w, Shown', server'.disk)
      BY <1>3, <1>4, <1>6, <2>1, RowsSame DEF Exact, UpToDate
    <2> QED
      BY <1>1, <1>3, <2>1, <2>2, WorkloadStays, ExactKept
  <1> QED
    BY <1>1, <1>3, <1>4, <1>6, <1>7, <1>8, RowsSame, FilesUnlinked

\* A row named by a call, given a logo.
LEMMA LogoWritten ==
    ASSUME FileTypes, NEW t \in Logos!Live, NEW f \in Nat,
           server' = [server EXCEPT !.teams[t].logo = f]
    PROVE  /\ t \in DOMAIN Shown
           /\ Shown' = [Shown EXCEPT ![t] = f] /\ Len(server'.teams) = Len(server.teams)
           /\ server'.there = server.there
           /\ server'.disk = server.disk /\ server'.next = server.next
           /\ server' \in [there : BOOLEAN, teams : {server'.teams}, disk : SUBSET (Nat \ {0}),
                           next : Nat \ {0}]
           /\ \E S : server'.teams \in Seq(S)
           /\ \A u \in Logos!Live' :
                 "logo" \in DOMAIN server'.teams[u] /\ server'.teams[u].logo \in Nat
  <1> DEFINE row == [server.teams[t] EXCEPT !.logo = f]
  <1>1. "logo" \in DOMAIN row /\ row.logo = f
    BY DEF FileTypes
  <1>2. server' = [server EXCEPT !.teams = [server.teams EXCEPT ![t] = row]]
    BY DEF FileTypes, Logos!Live
  <1> HIDE DEF row
  <1>3. /\ server'.teams = [server.teams EXCEPT ![t] = row] /\ server'.there = server.there
        /\ server'.disk = server.disk /\ server'.next = server.next
        /\ server' \in [there : BOOLEAN, teams : {server'.teams}, disk : SUBSET (Nat \ {0}),
                        next : Nat \ {0}]
    BY <1>2, OnlyTeams
  <1>4. t \in DOMAIN Shown
    BY DEF Shown
  <1> QED
    BY <1>1, <1>3, <1>4, RowChanged

LEMMA SaveLogoKeeps ==
    ASSUME FileTypes, FilesTold, FilesExact, NEW r \in Requests,
           Logos!SaveLogo(r)
    PROVE  FileTypes' /\ FilesTold' /\ FilesExact'
  <1>1. /\ wire[r].op \in Uploads /\ wire[r].at = "row" /\ UNCHANGED left
        /\ wire' = [wire EXCEPT ![r] = Logos!Idle]
    BY DEF Logos!SaveLogo, Logos!Finish, Uploads
  <1>2. /\ Logos!Idle.op \notin Uploads \cup Removals /\ Logos!Idle.op # "import"
        /\ wire[r].op \notin Removals /\ wire[r].op # "idle"
    BY <1>1, IdleCall DEF Uploads, Removals
  <1>3. CASE wire[r].team \notin Logos!Live /\ UNCHANGED server
    <2>1. FileTypes'
      BY <1>1, <1>3, WorkloadStays, ServerStays, IdleCall, FileTypesKept
    <2>2. wire[r].team \notin DOMAIN Shown
      BY <1>3 DEF Shown
    <2>3. Exact(wire[r], Shown, server.disk) => Exact(Logos!Idle, Shown', server'.disk)
      BY <1>1, <2>2 DEF Exact, UpToDate
    <2>4. FilesExact'
      BY <1>1, <1>2, <2>3, WorkloadStays, ExactKept
    <2> QED
      BY <1>1, <1>2, <1>3, <2>1, <2>2, <2>4, IdleCall, ServerStays, FilesStay
  <1>4. CASE /\ wire[r].team \in Logos!Live
             /\ server' = [server EXCEPT !.teams[wire[r].team].logo = wire[r].new]
    <2> DEFINE t == wire[r].team
               f == wire[r].new
    <2>1. f \in Nat /\ f < server.next
      BY <1>1 DEF FileTypes, FileCall, FilesTold, FilesOwned, Owned
    <2>2. f = 0 \/ Pending(wire[r])
      BY <1>1 DEF Pending
    <2>3. t \in Logos!Live /\ server' = [server EXCEPT !.teams[t].logo = f]
      BY <1>4
    <2>4. t = wire[r].team /\ f = wire[r].new
      OBVIOUS
    <2> HIDE DEF t, f
    <2>5. FileTypes'
      BY <1>1, <2>1, <2>3, WorkloadStays, IdleCall, LogoWritten, FileTypesKept
    <2>6. /\ t \in DOMAIN Shown
          /\ Shown' = [Shown EXCEPT ![t] = f] /\ Len(server'.teams) = Len(server.teams)
          /\ server'.there = server.there
          /\ server'.disk = server.disk /\ server'.next = server.next
      BY <2>1, <2>3, LogoWritten
    <2>7. f = 0 \/ (Pending(wire[r]) /\ f = wire[r].new)
      BY <2>2, <2>4
    <2>8. FilesExact'
      <3>1. ASSUME Exact(wire[r], Shown, server.disk), NEW x \in server.disk
            PROVE  \E u \in DOMAIN Shown' : x = Shown'[u]
        <4>1. x \in {Shown[u] : u \in DOMAIN Shown} \cup Spare(wire[r]) /\ x # Shown[t]
          BY <1>1, <2>4, <3>1 DEF Exact, UpToDate
        <4>2. DOMAIN Shown' = DOMAIN Shown /\ Shown'[t] = f
              /\ \A u \in DOMAIN Shown : u # t => Shown'[u] = Shown[u]
          BY <2>6
        <4>3. Spare(wire[r]) \subseteq {f}
          BY <1>2, <2>4 DEF Spare
        <4> QED
          BY <2>6, <4>1, <4>2, <4>3
      <3>2. Exact(wire[r], Shown, server.disk) => Exact(Logos!Idle, Shown', server'.disk)
        BY <1>2, <2>6, <3>1, IdleSparesNothing DEF Exact, UpToDate
      <3> QED
        BY <1>1, <1>2, <3>2, WorkloadStays, ExactKept
    <2> QED
      BY <1>1, <1>2, <2>1, <2>4, <2>5, <2>6, <2>7, <2>8, IdleCall, FilesSaved
  <1> QED
    BY <1>3, <1>4 DEF Logos!SaveLogo

(* Teams removed *)

\* A removal reads the rows it takes and the files they name.
LEMMA RemovalReads ==
    ASSUME FileTypes, FilesTold, FilesExact, NEW r \in Requests, NEW op, Logos!Accept(r, op),
           UNCHANGED server,
           NEW w, wire' = [wire EXCEPT ![r] = w], NEW taken \in SUBSET Logos!Live,
           {"op", "at", "logos"} \subseteq DOMAIN w, w.op \in Removals, w.at = "rows",
           w.logos = {server.teams[t].logo : t \in taken}, \A t \in taken : Takes(w, t),
           w.op = "remove" => w.teams \subseteq Logos!Live,
           w.op = "removeOne" => w.team \in Logos!Live,
           \A t \in Logos!Live : Takes(w, t) => t \in taken
    PROVE  FileTypes' /\ FilesTold' /\ FilesExact'
  <1>1. w.op \notin Uploads \cup {"idle", "group", "import"} /\ ~Pending(w)
    BY DEF Uploads, Removals, Pending
  <1>2. \A t \in Logos!Live : /\ t \in DOMAIN Shown /\ t \in 1 .. Len(server.teams)
                              /\ Shown[t] = server.teams[t].logo /\ Shown[t] \in Nat
    BY DEF FileTypes, Shown, Logos!Live
  <1>3. \A f \in w.logos : f \in Nat /\ \E t \in taken : Shown[t] = f
    BY <1>2
  <1>4. FileCall(w)
    BY <1>1, <1>3 DEF FileCall
  <1>5. Owned(w)
    BY <1>1, <1>2, <1>3 DEF FilesTold, FilesOwned, Owned
  <1>6. FileTypes'
    BY <1>4, CallAccepted, ServerStays, FileTypesKept
  <1>7. /\ w.op = "remove" => w.teams \subseteq 1 .. Len(server.teams)
        /\ w.op = "removeOne" => w.team \in 1 .. Len(server.teams)
        /\ \A f \in w.logos : f = 0 \/ \E t \in DOMAIN Shown : Shown[t] = f
    BY <1>2, <1>3
  <1>8. wire[r].op = "idle"
    BY CallAccepted, IdleCall
  <1>9. FilesExact'
    <2>1. Spare(w) = {}
      BY <1>1 DEF Spare
    <2>2. \A t \in DOMAIN Shown : Takes(w, t) => Shown[t] \in w.logos
      <3> SUFFICES ASSUME NEW t \in DOMAIN Shown, Takes(w, t) PROVE Shown[t] \in w.logos
        OBVIOUS
      <3>1. t \in Logos!Live
        BY DEF Shown
      <3> QED
        BY <1>2, <3>1
    <2>3. Exact(Logos!Idle, Shown, server.disk) => Exact(w, Shown', server'.disk)
      BY <1>1, <2>1, <2>2, IdleSparesNothing, ServerStays DEF Exact, UpToDate
    <2> QED
      BY <1>1, <2>3, CallAccepted, ExactKept
  <1> QED
    BY <1>1, <1>5, <1>6, <1>7, <1>8, <1>9, FilesRead

LEMMA StartRemoveKeeps ==
    ASSUME FileTypes, FilesTold, FilesExact, NEW r \in Requests,
           Logos!StartRemove(r)
    PROVE  FileTypes' /\ FilesTold' /\ FilesExact'
  <1>1. Logos!Accept(r, "remove") /\ UNCHANGED server
    BY DEF Logos!StartRemove
  <1>2. PICK teams \in (SUBSET Logos!Live) \ {{}} :
           wire' = [wire EXCEPT ![r] = [op |-> "remove", at |-> "rows", teams |-> teams,
                                        logos |-> {server.teams[t].logo : t \in teams}]]
    BY DEF Logos!StartRemove, Logos!Goto
  <1> DEFINE w == [op |-> "remove", at |-> "rows", teams |-> teams,
                   logos |-> {server.teams[t].logo : t \in teams}]
  <1>3. /\ {"op", "at", "logos"} \subseteq DOMAIN w /\ w.op = "remove" /\ w.op \in Removals
        /\ w.at = "rows" /\ w.teams = teams /\ w.logos = {server.teams[t].logo : t \in teams}
        /\ \A t \in teams : Takes(w, t)
        /\ \A t \in Logos!Live : Takes(w, t) => t \in teams
    BY DEF Removals, Takes
  <1>4. wire' = [wire EXCEPT ![r] = w]
    BY <1>2
  <1> HIDE DEF w
  <1>5. teams \in SUBSET Logos!Live /\ (w.op = "remove" => w.teams \subseteq Logos!Live)
        /\ w.op # "removeOne"
    BY <1>3
  <1> QED
    BY <1>1, <1>3, <1>4, <1>5, RemovalReads

LEMMA StartDeleteTeamKeeps ==
    ASSUME FileTypes, FilesTold, FilesExact, NEW r \in Requests,
           Logos!StartDeleteTeam(r)
    PROVE  FileTypes' /\ FilesTold' /\ FilesExact'
  <1>1. Logos!Accept(r, "remove") /\ UNCHANGED server
    BY DEF Logos!StartDeleteTeam
  <1>2. PICK u \in Logos!Live :
           wire' = [wire EXCEPT ![r] = [op |-> "removeOne", at |-> "rows", team |-> u,
                                        logos |-> {server.teams[u].logo}]]
    BY DEF Logos!StartDeleteTeam, Logos!Goto
  <1> DEFINE w == [op |-> "removeOne", at |-> "rows", team |-> u, logos |-> {server.teams[u].logo}]
  <1>3. /\ {"op", "at", "logos"} \subseteq DOMAIN w /\ w.op = "removeOne" /\ w.op \in Removals
        /\ w.at = "rows" /\ w.team = u /\ w.logos = {server.teams[t].logo : t \in {u}}
        /\ \A t \in {u} : Takes(w, t)
        /\ \A t \in Logos!Live : Takes(w, t) => t \in {u}
    BY DEF Removals, Takes
  <1>4. wire' = [wire EXCEPT ![r] = w]
    BY <1>2
  <1> HIDE DEF w
  <1>5. {u} \in SUBSET Logos!Live /\ w.op # "remove" /\ w.team \in Logos!Live
    BY <1>3
  <1> QED
    BY <1>1, <1>3, <1>4, <1>5, RemovalReads

LEMMA StartDeleteTournamentKeeps ==
    ASSUME FileTypes, FilesTold, FilesExact, NEW r \in Requests,
           Logos!StartDeleteTournament(r)
    PROVE  FileTypes' /\ FilesTold' /\ FilesExact'
  <1>1. Logos!Accept(r, "deleteTournament") /\ UNCHANGED server
    BY DEF Logos!StartDeleteTournament
  <1> DEFINE w == [op |-> "deleteTournament", at |-> "rows",
                   logos |-> {server.teams[t].logo : t \in Logos!Live}]
  <1>2. wire' = [wire EXCEPT ![r] = w]
    BY DEF Logos!StartDeleteTournament, Logos!Goto
  <1>3. /\ {"op", "at", "logos"} \subseteq DOMAIN w /\ w.op = "deleteTournament"
        /\ w.op \in Removals /\ w.at = "rows"
        /\ w.logos = {server.teams[t].logo : t \in Logos!Live} /\ \A t \in Logos!Live : Takes(w, t)
    BY DEF Removals, Takes
  <1> HIDE DEF w
  <1>4. Logos!Live \in SUBSET Logos!Live /\ w.op # "remove" /\ w.op # "removeOne"
    BY <1>3
  <1> QED
    BY <1>1, <1>2, <1>3, <1>4, RemovalReads

\* A removal at its rows, and the same once they are gone.
LEMMA RowsToFiles ==
    ASSUME FileTypes, NEW r \in Requests, wire[r].op \in Removals, Logos!Step(r, "files"), NEW w,
           w = [wire[r] EXCEPT !.at = "files"]
    PROVE  /\ wire' = [wire EXCEPT ![r] = w] /\ FileCall(w)
           /\ w.op = wire[r].op /\ w.at = "files" /\ w.logos = wire[r].logos
           /\ w.op = "remove" => w.teams = wire[r].teams
           /\ w.op = "removeOne" => w.team = wire[r].team
           /\ \A t : Takes(w, t) <=> Takes(wire[r], t)
  <1>1. FileCall(wire[r])
    BY DEF FileTypes
  <1>2. wire' = [wire EXCEPT ![r] = w]
    BY DEF Logos!Step, FileTypes
  <1>3. /\ DOMAIN w = DOMAIN wire[r] /\ w.at = "files" /\ w.op = wire[r].op
        /\ w.logos = wire[r].logos /\ w.teams = wire[r].teams /\ w.team = wire[r].team
    <2>1. /\ w.at = "files" /\ DOMAIN w = DOMAIN wire[r] /\ w.op = wire[r].op
          /\ w.logos = wire[r].logos
      BY <1>1 DEF FileCall
    <2>2. w.teams = wire[r].teams /\ w.team = wire[r].team
      OBVIOUS
    <2> QED
      BY <2>1, <2>2
  <1>4. FileCall(w)
    BY <1>1, <1>3 DEF FileCall, Removals, Uploads, Logos!Idle
  <1> QED
    BY <1>2, <1>3, <1>4 DEF Takes

LEMMA ExactDeleted ==
    ASSUME FileTypes, FilesExact, NEW r \in Requests, wire[r].op \in Removals, wire[r].at = "rows",
           UNCHANGED left, NEW w, wire' = [wire EXCEPT ![r] = w],
           w.op = wire[r].op, w.at = "files", w.logos = wire[r].logos,
           NEW taken, \A t \in DOMAIN Shown : t \in taken => Takes(wire[r], t),
           Shown' = [t \in DOMAIN Shown \ taken |-> Shown[t]], server'.disk = server.disk
    PROVE  FilesExact'
  <1>1. wire[r].op \notin Uploads /\ wire[r].op # "import" /\ wire[r].op # "idle"
    BY DEF Uploads, Removals
  <1>2. Spare(w) = wire[r].logos /\ Spare(wire[r]) = {}
    BY <1>1 DEF Spare, Pending
  <1>3. ASSUME Exact(wire[r], Shown, server.disk), NEW f \in server.disk
        PROVE  f \in {Shown'[t] : t \in DOMAIN Shown'} \cup Spare(w)
    <2>1. PICK t \in DOMAIN Shown : f = Shown[t]
      BY <1>2, <1>3 DEF Exact
    <2>2. CASE t \in taken
      BY <1>2, <1>3, <2>1, <2>2 DEF Exact, UpToDate
    <2>3. CASE t \notin taken
      BY <2>1, <2>3
    <2> QED
      BY <2>2, <2>3
  <1>4. Exact(wire[r], Shown, server.disk) => Exact(w, Shown', server'.disk)
    BY <1>1, <1>3 DEF Exact, UpToDate
  <1> QED
    BY <1>1, <1>4, WorkloadStays, ExactKept

LEMMA ExactRefused ==
    ASSUME FileTypes, FilesExact, NEW r \in Requests, wire[r].op \in Removals, wire[r].at = "rows",
           UNCHANGED left, wire' = [wire EXCEPT ![r] = Logos!Idle], UNCHANGED server
    PROVE  FilesExact'
  <1>1. wire[r].op \notin Uploads /\ wire[r].op # "import" /\ wire[r].op # "idle"
    BY DEF Uploads, Removals
  <1>2. Spare(wire[r]) = {} /\ Logos!Idle.op \notin Uploads \cup Removals
    BY <1>1, IdleCall DEF Spare, Pending, Uploads, Removals
  <1>3. Exact(wire[r], Shown, server.disk) => Exact(Logos!Idle, Shown', server'.disk)
    BY <1>2, IdleCall, ServerStays, ExactStays
  <1> QED
    BY <1>1, <1>2, <1>3, WorkloadStays, ExactKept

LEMMA DeleteRowsKeeps ==
    ASSUME FileTypes, FilesTold, FilesExact, NEW r \in Requests,
           Logos!DeleteRows(r)
    PROVE  FileTypes' /\ FilesTold' /\ FilesExact'
  <1> DEFINE w == [wire[r] EXCEPT !.at = "files"]
             taken == wire[r].teams
  <1>1. /\ wire[r].op = "remove" /\ wire[r].at = "rows" /\ UNCHANGED left /\ Logos!Step(r, "files")
        /\ server' = [server EXCEPT !.teams =
                         [t \in DOMAIN server.teams |-> IF t \in taken THEN Logos!Gone
                                                        ELSE server.teams[t]]]
    BY DEF Logos!DeleteRows, Logos!At
  <1>2. wire[r].op \in Removals
    BY <1>1 DEF Removals
  <1>3. /\ wire' = [wire EXCEPT ![r] = w] /\ FileCall(w)
        /\ w.op = wire[r].op /\ w.at = "files" /\ w.logos = wire[r].logos
        /\ w.op = "remove" => w.teams = wire[r].teams
        /\ \A t : Takes(w, t) <=> Takes(wire[r], t)
    BY <1>1, <1>2, RowsToFiles
  <1>4. \A t : Takes(wire[r], t) <=> t \in taken
    BY <1>1 DEF Takes
  <1> HIDE DEF w, taken
  <1>5. /\ server'.teams = [t \in DOMAIN server.teams |-> IF t \in taken THEN Logos!Gone
                                                          ELSE server.teams[t]]
        /\ server'.there = server.there
        /\ server'.disk = server.disk /\ server'.next = server.next
        /\ server' \in [there : BOOLEAN, teams : {server'.teams}, disk : SUBSET (Nat \ {0}),
                        next : Nat \ {0}]
    BY <1>1, OnlyTeams
  <1>6. FileTypes'
    BY <1>1, <1>3, <1>5, WorkloadStays, RowsTaken, FileTypesKept
  <1>7. Shown' = [t \in DOMAIN Shown \ taken |-> Shown[t]] /\ Len(server'.teams) = Len(server.teams)
    BY <1>5, RowsTaken
  <1>8. ~server'.there => DOMAIN Shown' = {}
    BY <1>5, <1>7 DEF FilesTold, RowsGone
  <1>9. w.op # "removeOne" /\ w.op # "deleteTournament"
    BY <1>1, <1>3
  <1>10. FilesExact'
    BY <1>1, <1>2, <1>3, <1>4, <1>5, <1>7, ExactDeleted
  <1> QED
    BY <1>1, <1>2, <1>3, <1>4, <1>5, <1>6, <1>7, <1>8, <1>9, <1>10, FilesDeleted

LEMMA DeleteTeamKeeps ==
    ASSUME FileTypes, FilesTold, FilesExact, NEW r \in Requests,
           Logos!DeleteTeam(r)
    PROVE  FileTypes' /\ FilesTold' /\ FilesExact'
  <1>1. wire[r].op = "removeOne" /\ wire[r].at = "rows" /\ UNCHANGED left
    BY DEF Logos!DeleteTeam, Logos!At
  <1>2. wire[r].op \in Removals /\ wire[r].op \notin Uploads
    BY <1>1 DEF Removals, Uploads
  <1>3. CASE wire' = [wire EXCEPT ![r] = Logos!Idle] /\ UNCHANGED server
    <2>1. Logos!Idle.op \notin Uploads \cup Removals
      BY IdleCall DEF Uploads, Removals
    <2>2. FileTypes'
      BY <1>1, <1>3, WorkloadStays, ServerStays, IdleCall, FileTypesKept
    <2> QED
      BY <1>1, <1>2, <1>3, <2>1, <2>2, IdleCall, ServerStays, FilesStay, ExactRefused
  <1>4. CASE /\ wire[r].team \in Logos!Live /\ Logos!Step(r, "files")
             /\ server' = [server EXCEPT !.teams[wire[r].team] = Logos!Gone]
    <2> DEFINE w == [wire[r] EXCEPT !.at = "files"]
               taken == {wire[r].team}
    <2>1. server' = [server EXCEPT !.teams =
                        [t \in DOMAIN server.teams |-> IF t \in taken THEN Logos!Gone
                                                       ELSE server.teams[t]]]
      <3>1. PICK S : server.teams \in Seq(S)
        BY DEF FileTypes
      <3>2. [server.teams EXCEPT ![wire[r].team] = Logos!Gone]
               = [t \in DOMAIN server.teams |-> IF t \in taken THEN Logos!Gone
                                                ELSE server.teams[t]]
        BY <3>1
      <3>3. server' = [server EXCEPT !.teams = [server.teams EXCEPT ![wire[r].team] = Logos!Gone]]
        BY <1>4 DEF FileTypes
      <3> QED
        BY <3>2, <3>3
    <2>2. /\ wire' = [wire EXCEPT ![r] = w] /\ FileCall(w)
          /\ w.op = wire[r].op /\ w.at = "files" /\ w.logos = wire[r].logos
          /\ w.op = "removeOne" => w.team = wire[r].team
          /\ \A t : Takes(w, t) <=> Takes(wire[r], t)
      BY <1>2, <1>4, RowsToFiles
    <2>3. \A t : Takes(wire[r], t) <=> t \in taken
      BY <1>1 DEF Takes
    <2> HIDE DEF w, taken
    <2>4. /\ server'.teams = [t \in DOMAIN server.teams |-> IF t \in taken THEN Logos!Gone
                                                            ELSE server.teams[t]]
          /\ server'.there = server.there
          /\ server'.disk = server.disk /\ server'.next = server.next
          /\ server' \in [there : BOOLEAN, teams : {server'.teams}, disk : SUBSET (Nat \ {0}),
                          next : Nat \ {0}]
      BY <2>1, OnlyTeams
    <2>5. FileTypes'
      BY <1>1, <2>2, <2>4, WorkloadStays, RowsTaken, FileTypesKept
    <2>6. /\ Shown' = [t \in DOMAIN Shown \ taken |-> Shown[t]]
          /\ Len(server'.teams) = Len(server.teams)
      BY <2>4, RowsTaken
    <2>7. ~server'.there => DOMAIN Shown' = {}
      BY <2>4, <2>6 DEF FilesTold, RowsGone
    <2>8. w.op # "remove" /\ w.op # "deleteTournament"
      BY <1>1, <2>2
    <2>9. FilesExact'
      BY <1>1, <1>2, <2>2, <2>3, <2>4, <2>6, ExactDeleted
    <2> QED
      BY <1>1, <1>2, <2>2, <2>3, <2>4, <2>5, <2>6, <2>7, <2>8, <2>9, FilesDeleted
  <1> QED
    BY <1>3, <1>4 DEF Logos!DeleteTeam, Logos!Finish

LEMMA DeleteTournamentKeeps ==
    ASSUME FileTypes, FilesTold, FilesExact, NEW r \in Requests,
           Logos!DeleteTournament(r)
    PROVE  FileTypes' /\ FilesTold' /\ FilesExact'
  <1>1. wire[r].op = "deleteTournament" /\ wire[r].at = "rows" /\ UNCHANGED left
    BY DEF Logos!DeleteTournament, Logos!At
  <1>2. wire[r].op \in Removals /\ wire[r].op \notin Uploads
    BY <1>1 DEF Removals, Uploads
  <1>3. CASE wire' = [wire EXCEPT ![r] = Logos!Idle] /\ UNCHANGED server
    <2>1. Logos!Idle.op \notin Uploads \cup Removals
      BY IdleCall DEF Uploads, Removals
    <2>2. FileTypes'
      BY <1>1, <1>3, WorkloadStays, ServerStays, IdleCall, FileTypesKept
    <2> QED
      BY <1>1, <1>2, <1>3, <2>1, <2>2, IdleCall, ServerStays, FilesStay, ExactRefused
  <1>4. CASE /\ Logos!Step(r, "files")
             /\ server' = [server EXCEPT !.there = FALSE,
                                         !.teams = [t \in DOMAIN server.teams |-> Logos!Gone]]
    <2> DEFINE w == [wire[r] EXCEPT !.at = "files"]
               taken == DOMAIN server.teams
    <2>1. /\ server'.teams = [t \in DOMAIN server.teams |-> IF t \in taken THEN Logos!Gone
                                                            ELSE server.teams[t]]
          /\ server'.there = FALSE
          /\ server'.disk = server.disk /\ server'.next = server.next
          /\ server' \in [there : BOOLEAN, teams : {server'.teams}, disk : SUBSET (Nat \ {0}),
                          next : Nat \ {0}]
      <3>1. server' = [server EXCEPT !.there = FALSE,
                          !.teams = [t \in DOMAIN server.teams |-> IF t \in taken THEN Logos!Gone
                                                                   ELSE server.teams[t]]]
        BY <1>4
      <3> QED
        BY <3>1 DEF FileTypes
    <2>2. /\ wire' = [wire EXCEPT ![r] = w] /\ FileCall(w)
          /\ w.op = wire[r].op /\ w.at = "files" /\ w.logos = wire[r].logos
      BY <1>2, <1>4, RowsToFiles
    <2>3. \A t \in DOMAIN Shown : t \in taken
      BY DEF Shown, Logos!Live
    <2> HIDE DEF w, taken
    <2>4. FileTypes'
      BY <1>1, <2>1, <2>2, WorkloadStays, RowsTaken, FileTypesKept
    <2>5. /\ Shown' = [t \in DOMAIN Shown \ taken |-> Shown[t]]
          /\ Len(server'.teams) = Len(server.teams)
      BY <2>1, RowsTaken
    <2>6. DOMAIN Shown' = {}
      BY <2>3, <2>5
    <2>7. w.op # "remove" /\ w.op # "removeOne" /\ ~server'.there
      BY <1>1, <2>1, <2>2
    <2>8. FilesExact'
      <3>1. \A t : Takes(wire[r], t)
        BY <1>1 DEF Takes
      <3> QED
        BY <1>1, <1>2, <2>1, <2>2, <2>5, <3>1, ExactDeleted
    <2> QED
      BY <1>1, <1>2, <2>1, <2>2, <2>3, <2>4, <2>5, <2>6, <2>7, <2>8, FilesDeleted
  <1> QED
    BY <1>3, <1>4 DEF Logos!DeleteTournament, Logos!Finish

LEMMA DeleteFilesKeeps ==
    ASSUME FileTypes, FilesTold, FilesExact, NEW r \in Requests,
           Logos!DeleteFiles(r)
    PROVE  FileTypes' /\ FilesTold' /\ FilesExact'
  <1>1. /\ wire[r].at = "files" /\ UNCHANGED left /\ wire' = [wire EXCEPT ![r] = Logos!Idle]
        /\ server' = [server EXCEPT !.disk = @ \ wire[r].logos]
    BY DEF Logos!DeleteFiles, Logos!Finish
  <1>2. wire[r].op \in Removals
    BY <1>1 DEF FileTypes, FileCall, Logos!Idle
  <1>3. /\ server'.teams = server.teams /\ server'.there = server.there
        /\ server'.disk = server.disk \ wire[r].logos /\ server'.next = server.next
        /\ server' \in [there : BOOLEAN, teams : {server'.teams}, disk : SUBSET (Nat \ {0}),
                        next : Nat \ {0}]
    BY <1>1 DEF FileTypes
  <1>4. FileTypes'
    BY <1>1, <1>3, WorkloadStays, RowsSame, IdleCall, FileTypesKept
  <1>5. Logos!Idle.op \notin Uploads \cup Removals
    BY IdleCall DEF Uploads, Removals
  <1>6. FilesExact'
    <2>1. Spare(wire[r]) = wire[r].logos /\ wire[r].op # "idle" /\ Logos!Idle.op # "import"
      BY <1>1, <1>2, IdleCall DEF Spare, Pending, Uploads, Removals
    <2>2. Exact(wire[r], Shown, server.disk) => Exact(Logos!Idle, Shown', server'.disk)
      BY <1>3, <1>5, <2>1, RowsSame DEF Exact, UpToDate
    <2> QED
      BY <1>1, <1>5, <2>1, <2>2, WorkloadStays, ExactKept
  <1> QED
    BY <1>1, <1>2, <1>3, <1>4, <1>5, <1>6, RowsSame, IdleCall, FilesErased

(* Teams imported *)

\* A step of an import that leaves the files, and what it has fetched, alone.
LEMMA ImportGoesOn ==
    ASSUME FileTypes, FilesTold, FilesExact, NEW r \in Requests, wire[r].op = "import",
           wire[r].at # "logo", UNCHANGED <<server, left>>,
           NEW w, wire' = [wire EXCEPT ![r] = w], FileCall(w),
           w.op \in {"idle", "import"}, w.op = "import" => w.at \in {"check", "insert"}
    PROVE  FileTypes' /\ FilesTold' /\ FilesExact'
  <1>1. FileTypes'
    BY WorkloadStays, ServerStays, FileTypesKept
  <1>2. /\ w.op \notin Uploads \cup Removals /\ ~Pending(w) /\ wire[r].op \notin Uploads
        /\ Spare(wire[r]) = {}
    BY DEF Uploads, Removals, Pending, Spare
  <1>3. FilesExact'
    <2>1. Exact(wire[r], Shown, server.disk) => Exact(w, Shown', server'.disk)
      BY <1>2, ServerStays, ExactStays
    <2> QED
      BY <1>2, <2>1, WorkloadStays, ExactKept
  <1> QED
    BY <1>1, <1>2, <1>3, ServerStays, FilesStay

\* The next row of the file, if there is one.
LEMMA ImportNext ==
    ASSUME FileTypes, NEW r \in Requests, wire[r].op = "import", Logos!NextRow(r)
    PROVE  \E w : /\ wire' = [wire EXCEPT ![r] = w] /\ FileCall(w)
                  /\ w.op \in {"idle", "import"} /\ (w.op = "import" => w.at = "check")
  <1>1. FileCall(wire[r])
    BY DEF FileTypes
  <1>2. CASE wire[r].i = Len(wire[r].rows)
    <2>1. wire' = [wire EXCEPT ![r] = Logos!Idle]
      BY <1>2 DEF Logos!NextRow, Logos!Finish
    <2> QED
      BY <2>1, IdleCall
  <1>3. CASE wire[r].i # Len(wire[r].rows)
    <2> DEFINE w == [wire[r] EXCEPT !.i = wire[r].i + 1, !.at = "check"]
    <2>1. wire' = [wire EXCEPT ![r] = w]
      BY <1>3 DEF Logos!NextRow, Logos!Goto
    <2>2. /\ DOMAIN w = DOMAIN wire[r] /\ w.op = "import" /\ w.at = "check"
          /\ w.i = wire[r].i + 1 /\ w.rows = wire[r].rows /\ w.new = wire[r].new
      BY <1>1 DEF FileCall
    <2> HIDE DEF w
    <2>3. Len(w.rows) \in Nat \ {0} /\ wire[r].i \in 1 .. Len(w.rows)
      BY <1>1, <2>2, ImportsAreLists DEF FileCall
    <2>4. w.i \in 1 .. Len(w.rows)
      BY <1>3, <2>2, <2>3
    <2>5. FileCall(w)
      BY <1>1, <2>2, <2>4 DEF FileCall, Uploads, Removals
    <2> QED
      BY <2>1, <2>2, <2>5
  <1> QED
    BY <1>2, <1>3

LEMMA StartImportKeeps ==
    ASSUME FileTypes, FilesTold, FilesExact, NEW r \in Requests, Logos!StartImport(r)
    PROVE  FileTypes' /\ FilesTold' /\ FilesExact'
  <1>1. Logos!Accept(r, "import") /\ UNCHANGED server
    BY DEF Logos!StartImport
  <1>2. PICK rows \in Files, premium \in BOOLEAN :
           wire' = [wire EXCEPT ![r] = [op |-> "import", at |-> "check", rows |-> rows, i |-> 1,
                                        premium |-> premium, team |-> 0, new |-> Logos!NoLogo]]
    BY DEF Logos!StartImport, Logos!Goto
  <1> DEFINE w == [op |-> "import", at |-> "check", rows |-> rows, i |-> 1,
                   premium |-> premium, team |-> 0, new |-> Logos!NoLogo]
  <1>3. /\ FileCall(w) /\ w.op \notin Uploads \cup Removals /\ ~Pending(w)
        /\ w.at = "check"
    BY ImportsAreLists DEF FileCall, Pending, Uploads, Removals, Logos!NoLogo
  <1>4. wire' = [wire EXCEPT ![r] = w]
    BY <1>2
  <1> HIDE DEF w
  <1>5. FileTypes'
    BY <1>1, <1>3, <1>4, CallAccepted, ServerStays, FileTypesKept
  <1>6. wire[r].op \notin Uploads
    BY <1>1, CallAccepted, IdleCall DEF Uploads
  <1>7. FilesExact'
    <2>1. Exact(Logos!Idle, Shown, server.disk) => Exact(w, Shown', server'.disk)
      BY <1>1, <1>3, IdleSparesNothing, ServerStays, ExactStays
    <2> QED
      BY <1>1, <1>3, <1>4, <2>1, CallAccepted, ExactKept
  <1> QED
    BY <1>1, <1>3, <1>4, <1>5, <1>6, <1>7, ServerStays, FilesStay

LEMMA CheckRowKeeps ==
    ASSUME FileTypes, FilesTold, FilesExact, NEW r \in Requests, Logos!CheckRow(r)
    PROVE  FileTypes' /\ FilesTold' /\ FilesExact'
  <1>1. wire[r].op = "import" /\ wire[r].at = "check" /\ UNCHANGED <<server, left>>
    BY DEF Logos!CheckRow, Logos!At
  <1>2. CASE Logos!Step(r, "insert")
    <2> DEFINE w == [wire[r] EXCEPT !.at = "insert"]
    <2>1. wire' = [wire EXCEPT ![r] = w] /\ FileCall(wire[r])
      BY <1>2 DEF Logos!Step, FileTypes
    <2>2. /\ DOMAIN w = DOMAIN wire[r] /\ w.op = "import" /\ w.at = "insert"
          /\ w.i = wire[r].i /\ w.rows = wire[r].rows /\ w.new = wire[r].new
      BY <1>1, <2>1 DEF FileCall
    <2> HIDE DEF w
    <2>3. FileCall(w)
      BY <1>1, <2>1, <2>2 DEF FileCall, Uploads, Removals
    <2> QED
      BY <1>1, <2>1, <2>2, <2>3, ImportGoesOn
  <1>3. CASE Logos!NextRow(r)
    <2>1. PICK w : /\ wire' = [wire EXCEPT ![r] = w] /\ FileCall(w)
                   /\ w.op \in {"idle", "import"} /\ (w.op = "import" => w.at = "check")
      BY <1>1, <1>3, ImportNext
    <2> QED
      BY <1>1, <2>1, ImportGoesOn
  <1> QED
    BY <1>2, <1>3 DEF Logos!CheckRow

LEMMA InsertRowKeeps ==
    ASSUME FileTypes, FilesTold, FilesExact, NEW r \in Requests, Logos!InsertRow(r)
    PROVE  FileTypes' /\ FilesTold' /\ FilesExact'
  <1>1. wire[r].op = "import" /\ wire[r].at = "insert" /\ UNCHANGED left
    BY DEF Logos!InsertRow, Logos!At
  <1>2. CASE Logos!Finish(r) /\ UNCHANGED server
    <2>1. wire' = [wire EXCEPT ![r] = Logos!Idle]
      BY <1>2 DEF Logos!Finish
    <2> QED
      BY <1>1, <1>2, <2>1, IdleCall, ImportGoesOn
  <1>3. CASE ~(Logos!Finish(r) /\ UNCHANGED server)
    <2>1. PICK row : /\ server.there
                     /\ server' = [server EXCEPT !.teams = Append(server.teams, row)]
                     /\ "logo" \in DOMAIN row /\ row.logo = 0
                     /\ Logos!NextRow(r)
                        \/ Logos!Goto(r, [wire[r] EXCEPT !.at = "fetch",
                                                         !.team = Len(server.teams) + 1])
      <3> DEFINE told == wire[r].rows[wire[r].i]
                 row == Logos!Row(told.name, told.category, Logos!Unset)
      <3>1. "logo" \in DOMAIN row /\ row.logo = 0
        BY DEF Logos!Row, Logos!NoLogo
      <3>2. /\ server.there /\ server' = [server EXCEPT !.teams = Append(server.teams, row)]
            /\ Logos!NextRow(r)
               \/ Logos!Goto(r, [wire[r] EXCEPT !.at = "fetch", !.team = Len(server.teams) + 1])
        BY <1>3 DEF Logos!InsertRow
      <3> HIDE DEF row
      <3> QED
        BY <3>1, <3>2
    <2>2. PICK w : /\ wire' = [wire EXCEPT ![r] = w] /\ FileCall(w)
                   /\ w.op \in {"idle", "import"}
                   /\ w.op = "import" => /\ w.at \in {"check", "fetch"}
                                         /\ w.at = "fetch" => w.team = Len(server.teams) + 1
      <3>1. CASE Logos!NextRow(r)
        <4>1. PICK w : /\ wire' = [wire EXCEPT ![r] = w] /\ FileCall(w)
                       /\ w.op \in {"idle", "import"} /\ (w.op = "import" => w.at = "check")
          BY <1>1, <3>1, ImportNext
        <4> QED
          BY <4>1
      <3>2. CASE Logos!Goto(r, [wire[r] EXCEPT !.at = "fetch", !.team = Len(server.teams) + 1])
        <4> DEFINE w == [wire[r] EXCEPT !.at = "fetch", !.team = Len(server.teams) + 1]
        <4>1. wire' = [wire EXCEPT ![r] = w] /\ FileCall(wire[r])
          BY <3>2 DEF Logos!Goto, FileTypes
        <4>2. /\ DOMAIN w = DOMAIN wire[r] /\ w.op = "import" /\ w.at = "fetch"
              /\ w.i = wire[r].i /\ w.rows = wire[r].rows /\ w.new = wire[r].new
              /\ w.team = Len(server.teams) + 1
          BY <1>1, <4>1 DEF FileCall
        <4> HIDE DEF w
        <4>3. FileCall(w)
          BY <1>1, <4>1, <4>2 DEF FileCall, Uploads, Removals
        <4> QED
          BY <4>1, <4>2, <4>3
      <3> QED
        BY <2>1, <3>1, <3>2
    <2>3. /\ server'.teams = Append(server.teams, row) /\ server'.there = server.there
          /\ server'.disk = server.disk /\ server'.next = server.next
          /\ server' \in [there : BOOLEAN, teams : {server'.teams}, disk : SUBSET (Nat \ {0}),
                          next : Nat \ {0}]
      BY <2>1, OnlyTeams
    <2>4. FileTypes'
      BY <1>1, <2>1, <2>2, <2>3, WorkloadStays, RowAdded, FileTypesKept
    <2>5. /\ DOMAIN Shown \subseteq DOMAIN Shown' /\ \A t \in DOMAIN Shown : Shown'[t] = Shown[t]
          /\ \A t \in DOMAIN Shown' \ DOMAIN Shown :
                Shown'[t] = 0 /\ t \notin 1 .. Len(server.teams)
          /\ 1 .. Len(server.teams) \subseteq 1 .. Len(server'.teams)
          /\ Len(server.teams) + 1 \in DOMAIN Shown' /\ Shown'[Len(server.teams) + 1] = 0
      BY <2>1, <2>3, RowAdded
    <2>6. /\ w.op \notin Uploads \cup Removals /\ ~Pending(w) /\ Spare(w) = {}
          /\ wire[r].op \notin Uploads /\ Spare(wire[r]) = {}
      BY <1>1, <2>2 DEF Uploads, Removals, Pending, Spare
    <2>7. FilesExact'
      <3>1. Exact(wire[r], Shown, server.disk) => Exact(w, Shown', server'.disk)
        BY <2>2, <2>3, <2>5, <2>6 DEF Exact, UpToDate
      <3> QED
        BY <1>1, <2>2, <2>6, <3>1, WorkloadStays, ExactKept
    <2> QED
      BY <2>1, <2>2, <2>3, <2>4, <2>5, <2>6, <2>7, FilesStay
  <1> QED
    BY <1>2, <1>3

LEMMA FetchLogoKeeps ==
    ASSUME NoPathImported, FileTypes, FilesTold, FilesExact, NEW r \in Requests, Logos!FetchLogo(r)
    PROVE  FileTypes' /\ FilesTold' /\ FilesExact'
  <1>1. wire[r].op = "import" /\ wire[r].at = "fetch" /\ UNCHANGED left
    BY DEF Logos!FetchLogo, Logos!At
  <1>2. FileCall(wire[r]) /\ server.next \in Nat \ {0}
    BY DEF FileTypes
  <1>3. wire[r].rows[wire[r].i].logo # "path"
    BY <1>1, <1>2 DEF FileCall, NoPathImported
  <1>4. CASE Logos!NextRow(r) /\ UNCHANGED server
    <2>1. PICK w : /\ wire' = [wire EXCEPT ![r] = w] /\ FileCall(w)
                   /\ w.op \in {"idle", "import"} /\ (w.op = "import" => w.at = "check")
      BY <1>1, <1>4, ImportNext
    <2> QED
      BY <1>1, <1>4, <2>1, ImportGoesOn
  <1>5. CASE /\ server' = [server EXCEPT !.disk = @ \cup {server.next}, !.next = @ + 1]
             /\ Logos!Goto(r, [wire[r] EXCEPT !.at = "logo", !.new = server.next])
    <2> DEFINE w == [wire[r] EXCEPT !.at = "logo", !.new = server.next]
    <2>1. wire' = [wire EXCEPT ![r] = w]
      BY <1>5 DEF Logos!Goto
    <2>2. /\ DOMAIN w = DOMAIN wire[r] /\ w.op = "import" /\ w.at = "logo" /\ w.new = server.next
          /\ w.i = wire[r].i /\ w.rows = wire[r].rows /\ w.team = wire[r].team
      BY <1>1, <1>2 DEF FileCall
    <2> HIDE DEF w
    <2>3. /\ FileCall(w) /\ w.op \notin Removals /\ w.op \notin Uploads /\ Pending(w)
          /\ Spare(w) = {server.next} /\ wire[r].op \notin Removals /\ Spare(wire[r]) = {}
      BY <1>1, <1>2, <2>2 DEF FileCall, Uploads, Removals, Pending, Spare
    <2>4. /\ server'.teams = server.teams /\ server'.there = server.there
          /\ server'.disk = server.disk \cup {server.next} /\ server'.next = server.next + 1
          /\ server' \in [there : BOOLEAN, teams : {server'.teams}, disk : SUBSET (Nat \ {0}),
                          next : Nat \ {0}]
      <3>1. /\ server \in [there : BOOLEAN, teams : {server.teams}, disk : SUBSET (Nat \ {0}),
                           next : Nat \ {0}]
            /\ server' = [server EXCEPT !.disk = server.disk \cup {server.next},
                                        !.next = server.next + 1]
        BY <1>5 DEF FileTypes
      <3>2. /\ server.disk \cup {server.next} \in SUBSET (Nat \ {0})
            /\ server.next + 1 \in Nat \ {0}
        BY <3>1
      <3> QED
        BY <3>1, <3>2
    <2>5. FileTypes'
      BY <1>1, <2>1, <2>3, <2>4, WorkloadStays, RowsSame, FileTypesKept
    <2>6. FilesExact'
      <3>1. Exact(wire[r], Shown, server.disk) => Exact(w, Shown', server'.disk)
        BY <1>1, <2>2, <2>3, <2>4, RowsSame DEF Exact, UpToDate
      <3> QED
        BY <1>1, <2>1, <2>3, <3>1, WorkloadStays, ExactKept
    <2> QED
      BY <1>1, <2>1, <2>2, <2>3, <2>4, <2>5, <2>6, RowsSame, FilesWritten
  <1> QED
    BY <1>3, <1>4, <1>5 DEF Logos!FetchLogo

LEMMA SaveImportedLogoKeeps ==
    ASSUME FileTypes, FilesTold, FilesExact, NEW r \in Requests, Logos!SaveImportedLogo(r)
    PROVE  FileTypes' /\ FilesTold' /\ FilesExact'
  <1>1. wire[r].op = "import" /\ wire[r].at = "logo" /\ UNCHANGED left
    BY DEF Logos!SaveImportedLogo, Logos!At
  <1>2. /\ wire[r].op \notin Uploads \cup Removals /\ wire[r].op # "idle" /\ Pending(wire[r])
        /\ Spare(wire[r]) = {wire[r].new} /\ FileCall(wire[r]) /\ wire[r].new \in Nat
    BY <1>1 DEF FileTypes, FileCall, Uploads, Removals, Pending, Spare
  <1>3. CASE wire[r].team \notin Logos!Live /\ Logos!Finish(r) /\ UNCHANGED server
    <2>1. wire' = [wire EXCEPT ![r] = Logos!Idle]
      BY <1>3 DEF Logos!Finish
    <2>2. FileTypes'
      BY <1>1, <1>3, <2>1, WorkloadStays, ServerStays, IdleCall, FileTypesKept
    <2>3. Logos!Idle.op \notin Uploads \cup Removals /\ wire[r].team \notin DOMAIN Shown
      BY <1>3, IdleCall DEF Uploads, Removals, Shown
    <2>4. Exact(wire[r], Shown, server.disk) => Exact(Logos!Idle, Shown', server'.disk)
      BY <1>1, <2>3 DEF Exact, UpToDate
    <2>5. FilesExact'
      BY <1>1, <1>2, <2>1, <2>3, <2>4, WorkloadStays, ExactKept
    <2> QED
      BY <1>2, <1>3, <2>1, <2>2, <2>3, <2>5, IdleCall, ServerStays, FilesStay
  <1>4. CASE /\ wire[r].team \in Logos!Live /\ Logos!NextRow(r)
             /\ server' = [server EXCEPT !.teams[wire[r].team].logo = wire[r].new]
    <2> DEFINE t == wire[r].team
               f == wire[r].new
    <2>1. PICK w : /\ wire' = [wire EXCEPT ![r] = w] /\ FileCall(w)
                   /\ w.op \in {"idle", "import"} /\ (w.op = "import" => w.at = "check")
      BY <1>1, <1>4, ImportNext
    <2>2. w.op \notin Uploads \cup Removals /\ ~Pending(w) /\ Spare(w) = {}
      BY <2>1 DEF Uploads, Removals, Pending, Spare
    <2>3. f < server.next /\ f \in Nat
      BY <1>2 DEF FilesTold, PendingUnknown
    <2>4. t \in Logos!Live /\ server' = [server EXCEPT !.teams[t].logo = f]
      BY <1>4
    <2>5. t = wire[r].team /\ f = wire[r].new
      OBVIOUS
    <2> HIDE DEF t, f
    <2>6. /\ t \in DOMAIN Shown
          /\ Shown' = [Shown EXCEPT ![t] = f] /\ Len(server'.teams) = Len(server.teams)
          /\ server'.there = server.there
          /\ server'.disk = server.disk /\ server'.next = server.next
      BY <2>3, <2>4, LogoWritten
    <2>7. FileTypes'
      BY <1>1, <2>1, <2>3, <2>4, WorkloadStays, LogoWritten, FileTypesKept
    <2>8. FilesExact'
      <3>1. ASSUME Exact(wire[r], Shown, server.disk), NEW x \in server.disk
            PROVE  \E u \in DOMAIN Shown' : x = Shown'[u]
        <4>1. x \in {Shown[u] : u \in DOMAIN Shown} \cup {f} /\ Shown[t] = 0 /\ x # 0
          BY <1>1, <1>2, <2>5, <3>1 DEF Exact, UpToDate, FileTypes
        <4>2. DOMAIN Shown' = DOMAIN Shown /\ Shown'[t] = f
              /\ \A u \in DOMAIN Shown : u # t => Shown'[u] = Shown[u]
          BY <2>6
        <4> QED
          BY <2>6, <4>1, <4>2
      <3>2. Exact(wire[r], Shown, server.disk) => Exact(w, Shown', server'.disk)
        BY <2>1, <2>2, <2>6, <3>1 DEF Exact, UpToDate
      <3> QED
        BY <1>1, <1>2, <2>1, <2>2, <3>2, WorkloadStays, ExactKept
    <2>9. f = 0 \/ (Pending(wire[r]) /\ f = wire[r].new)
      BY <1>2, <2>5
    <2> QED
      BY <1>2, <2>1, <2>2, <2>3, <2>5, <2>6, <2>7, <2>8, <2>9, FilesSaved
  <1> QED
    BY <1>3, <1>4 DEF Logos!SaveImportedLogo

\* A request lost: only one that changes no file on its own.
LEMMA FailKeeps ==
    ASSUME FileTypes, FilesTold, FilesExact, NEW r \in Requests, Logos!Fail(r)
    PROVE  FileTypes' /\ FilesTold' /\ FilesExact'
  <1>1. /\ wire[r] # Logos!Idle /\ left.failures > 0 /\ UNCHANGED server
        /\ left' = [left EXCEPT !.failures = left.failures - 1]
        /\ wire' = [wire EXCEPT ![r] = Logos!Idle]
    BY DEF Logos!Fail, Logos!Finish
  <1>2. left \in [requests : (SUBSET Requests) \ {{}}, operations : {left.operations},
                  calls : Nat, failures : Nat]
    BY DEF FileTypes
  <1>3. left.failures - 1 \in Nat
    BY <1>1, <1>2
  <1>4. /\ left' \in [requests : {left.requests}, operations : {left.operations},
                      calls : Nat, failures : Nat]
        /\ left'.requests = left.requests /\ left'.operations = left.operations
    BY <1>1, <1>2, <1>3
  <1>5. FileTypes'
    BY <1>1, <1>4, ServerStays, IdleCall, FileTypesKept
  <1>6. /\ Logos!Idle.op \notin Uploads \cup Removals
        /\ left.operations \cap Uploads = {} /\ \A s \in Requests : wire[s].op \notin Uploads
    BY <1>1, IdleCall DEF FilesExact, LossesSpareLogos, Uploads, Removals
  <1>7. wire'[r] = Logos!Idle /\ \A s \in Requests \ {r} : wire'[s] = wire[s]
    BY <1>1, FilesCalls
  <1>8. LossesSpareLogos'
    BY <1>4, <1>6, <1>7 DEF LossesSpareLogos
  <1>9. ~Logos!Alone /\ ~Logos!Alone'
    <2>1. ~Logos!Alone
      BY <1>1 DEF FilesExact, NothingSpared
    <2> QED
      BY <1>4, <2>1 DEF Logos!Alone
  <1>10. NothingSpared'
    BY <1>4, <1>7, <1>9 DEF FilesExact, NothingSpared
  <1>11. FilesTold'
    BY <1>1, <1>5, <1>6, IdleCall, ServerStays, FilesStay
  <1> QED
    BY <1>5, <1>8, <1>10, <1>11 DEF FilesExact

(* What holds of the files *)

LossesSpareRows ==
    \A w \in Workloads : w.failures > 0 =>
       /\ w.operations \cap Uploads = {}
       /\ \E r, s \in w.requests : r # s

LEMMA FilesStart ==
    ASSUME LossesSpareRows, Logos!Init
    PROVE  FilesInv
  <1>1. /\ server = [there |-> TRUE, teams |-> <<>>, disk |-> {}, next |-> 1]
        /\ wire = [r \in Requests |-> Logos!Idle] /\ left \in Workloads
    BY DEF Logos!Init
  <1>2. Logos!Live = {} /\ DOMAIN Shown = {}
    BY <1>1 DEF Logos!Live, Shown
  <1>3. \A r \in Requests : wire[r] = Logos!Idle /\ FileCall(wire[r]) /\ ~Pending(wire[r])
                            /\ wire[r].op \notin Uploads \cup Removals /\ wire[r].op # "import"
    BY <1>1, IdleCall DEF Uploads, Removals
  <1>4. left \in [requests : (SUBSET Requests) \ {{}}, operations : {left.operations},
                  calls : Nat, failures : Nat]
    BY <1>1, WorkloadsAreBounds
  <1>5. \E S : server.teams \in Seq(S)
    BY <1>1
  <1>6. FileTypes
    BY <1>1, <1>2, <1>3, <1>4, <1>5 DEF FileTypes
  <1>7. RowsGone
    BY <1>1, <1>2, <1>3, IdleCall DEF RowsGone, Removals
  <1>8. FilesOwned /\ PendingUnknown /\ MissingReplaced
    BY <1>2, <1>3 DEF FilesOwned, Owned, PendingUnknown, MissingReplaced
  <1>9. LossesSpareLogos
    BY <1>1, <1>3 DEF LossesSpareLogos, LossesSpareRows
  <1>10. Logos!Alone => left.failures = 0
    BY <1>1, <1>4 DEF LossesSpareRows, Logos!Alone
  <1>11. \A r \in Requests : Exact(wire[r], Shown, server.disk)
    BY <1>1, <1>3 DEF Exact, UpToDate
  <1>12. NothingSpared
    BY <1>3, <1>4, <1>10, <1>11 DEF NothingSpared
  <1> QED
    BY <1>6, <1>7, <1>8, <1>9, <1>12 DEF FilesInv, FilesTold, FilesExact

LEMMA FilesStep ==
    ASSUME NoPathImported, FilesInv, Logos!Next
    PROVE  FilesInv'
  <1>1. FileTypes /\ FilesTold /\ FilesExact
    BY DEF FilesInv
  <1> SUFFICES FileTypes' /\ FilesTold' /\ FilesExact'
    BY DEF FilesInv
  <1>2. PICK r \in Requests :
          \/ Logos!Create(r) \/ Logos!Update(r) \/ Logos!ReadForGroup(r) \/ Logos!AssignGroup(r)
          \/ Logos!StartUpload(r) \/ Logos!StartRemoveLogo(r) \/ Logos!WriteLogo(r)
          \/ Logos!UnlinkLogo(r) \/ Logos!SaveLogo(r)
          \/ Logos!StartRemove(r) \/ Logos!DeleteRows(r) \/ Logos!StartDeleteTeam(r)
          \/ Logos!DeleteTeam(r) \/ Logos!StartDeleteTournament(r) \/ Logos!DeleteTournament(r)
          \/ Logos!DeleteFiles(r)
          \/ Logos!StartImport(r) \/ Logos!CheckRow(r) \/ Logos!InsertRow(r) \/ Logos!FetchLogo(r)
          \/ Logos!SaveImportedLogo(r) \/ Logos!Fail(r)
    BY DEF Logos!Next
  <1>3. CASE Logos!Create(r) \/ Logos!Update(r) \/ Logos!ReadForGroup(r) \/ Logos!AssignGroup(r)
    BY <1>1, <1>3, CreateKeeps, UpdateKeeps, ReadForGroupKeeps, AssignGroupKeeps
  <1>4. CASE Logos!StartUpload(r) \/ Logos!StartRemoveLogo(r)
    BY <1>1, <1>4, ReadForLogoKeeps
  <1>5. CASE Logos!WriteLogo(r) \/ Logos!UnlinkLogo(r) \/ Logos!SaveLogo(r)
    BY <1>1, <1>5, WriteLogoKeeps, UnlinkLogoKeeps, SaveLogoKeeps
  <1>6. CASE \/ Logos!StartRemove(r) \/ Logos!StartDeleteTeam(r) \/ Logos!StartDeleteTournament(r)
             \/ Logos!DeleteFiles(r)
    BY <1>1, <1>6, StartRemoveKeeps, StartDeleteTeamKeeps, StartDeleteTournamentKeeps,
       DeleteFilesKeeps
  <1>7. CASE Logos!DeleteRows(r) \/ Logos!DeleteTeam(r) \/ Logos!DeleteTournament(r)
    BY <1>1, <1>7, DeleteRowsKeeps, DeleteTeamKeeps, DeleteTournamentKeeps
  <1>8. CASE Logos!StartImport(r) \/ Logos!CheckRow(r) \/ Logos!InsertRow(r)
    BY <1>1, <1>8, StartImportKeeps, CheckRowKeeps, InsertRowKeeps
  <1>9. CASE Logos!FetchLogo(r) \/ Logos!SaveImportedLogo(r) \/ Logos!Fail(r)
    BY <1>1, <1>9, FetchLogoKeeps, SaveImportedLogoKeeps, FailKeeps
  <1> QED
    BY <1>2, <1>3, <1>4, <1>5, <1>6, <1>7, <1>8, <1>9

LEMMA FilesTrue ==
    ASSUME FilesInv
    PROVE  Logos!LogosNameFiles /\ Logos!FilesAreUsed
  <1>1. FileTypes /\ FilesTold /\ FilesExact
    BY DEF FilesInv
  <1> SUFFICES ASSUME Logos!Quiet
               PROVE  /\ Logos!Logos \subseteq server.disk
                      /\ Logos!Alone => server.disk \subseteq Logos!Logos
                      /\ \A t, u \in Logos!Live :
                            server.teams[t].logo = server.teams[u].logo /\ t # u
                               => server.teams[t].logo = Logos!NoLogo
    BY DEF Logos!LogosNameFiles, Logos!FilesAreUsed
  <1>2. \A r \in Requests : wire[r] = Logos!Idle
    BY DEF Logos!Quiet
  <1>3. \A t \in Logos!Live : t \in DOMAIN Shown /\ Shown[t] = server.teams[t].logo
    BY DEF Shown
  <1>4. Logos!Logos \subseteq server.disk
    <2>1. \A t \in DOMAIN Shown : Shown[t] \in server.disk \cup {0}
      BY <1>1, <1>2, IdleCall DEF FilesTold, MissingReplaced, Uploads
    <2> QED
      BY <1>3, <2>1 DEF Logos!Logos, Logos!NoLogo
  <1>5. ASSUME Logos!Alone PROVE server.disk \subseteq Logos!Logos
    <2>1. PICK r \in left.requests : r \in Requests
      BY <1>1 DEF FileTypes
    <2>2. Exact(Logos!Idle, Shown, server.disk)
      BY <1>1, <1>2, <1>5, <2>1 DEF FilesExact, NothingSpared
    <2>3. server.disk \subseteq {Shown[t] : t \in DOMAIN Shown}
      BY <2>2, IdleSparesNothing DEF Exact
    <2>4. DOMAIN Shown = Logos!Live /\ 0 \notin server.disk
      BY <1>1 DEF Shown, FileTypes
    <2> QED
      BY <1>3, <2>3, <2>4 DEF Logos!Logos, Logos!NoLogo
  <1>6. \A t, u \in Logos!Live : server.teams[t].logo = server.teams[u].logo /\ t # u
                                    => server.teams[t].logo = Logos!NoLogo
    BY <1>1, <1>3 DEF FilesTold, FilesOwned, Logos!NoLogo
  <1> QED
    BY <1>4, <1>5, <1>6

LEMMA FilesStutter ==
    ASSUME FilesInv, UNCHANGED vars
    PROVE  FilesInv'
  <1>1. UNCHANGED <<server, wire, left>> /\ FileTypes /\ FilesTold /\ FilesExact
    BY DEF vars, FilesInv
  <1>2. Shown' = Shown
    BY <1>1 DEF Shown, Logos!Live
  <1>3. FileTypes'
    BY <1>1 DEF FileTypes, Logos!Live, FileCall
  <1>4. RowsGone' /\ FilesOwned' /\ MissingReplaced'
    BY <1>1, <1>2 DEF FilesTold, RowsGone, FilesOwned, MissingReplaced, Owned, Takes
  <1>5. PendingUnknown'
    BY <1>1, <1>2 DEF FilesTold, PendingUnknown, Pending, Unknown
  <1>6. LossesSpareLogos' /\ NothingSpared'
    BY <1>1, <1>2 DEF FilesExact, LossesSpareLogos, NothingSpared, Logos!Alone
  <1> QED
    BY <1>3, <1>4, <1>5, <1>6 DEF FilesInv, FilesTold, FilesExact

(*****************************************************************************)
(* The parts together                                                        *)
(*****************************************************************************)
\* A step of a part is its own, and its invariant waits for it.
LEMMA PartsKeepApart ==
    ASSUME [PagesNext]_<<vars, part>>
    PROVE  /\ part' = part
           /\ part = "web session" => [WebSession!Next]_vars
           /\ part = "app session" => [AppSession!Next]_vars
           /\ part = "alerts" => [Alerts!Next]_vars
           /\ part = "payment return" => [Returning!Next]_vars
           /\ part = "teams" => [Logos!Next]_vars
  BY DEF PagesNext

\* In the app, whatever calls are in flight or lost, the access token is renewed or the
\* session over before the token lapses (tick, extend, onRefreshed).
THEOREM AppTokenNeverLapses ==
    PagesSpec => [](part = "app session" => AppSession!TokenNeverLapses)
  <1> DEFINE Inv == part = "app session" => AppInv
  <1>1. PagesInit => Inv
    BY AppStarts DEF PagesInit
  <1>2. Inv /\ [PagesNext]_<<vars, part>> => Inv'
    BY PartsKeepApart, AppAdvances, AppStutters
  <1>3. Inv => (part = "app session" => AppSession!TokenNeverLapses)
    BY AppTokensLast
  <1> QED
    BY <1>1, <1>2, <1>3, PTL DEF PagesSpec

\* One call at a time, what the clock or the organizer ends on the web is revoked at the
\* API, and no token of the app lapses while its clock runs (expireSession, logout, tick).
THEOREM SessionsAlwaysFollowTheClock ==
    ASSUME NEW c, Connections = {c}
    PROVE  PagesSpec => []SessionsFollowTheClock
  <1> DEFINE Inv == /\ part = "web session" => WebInv
                    /\ part = "app session" => AppInv
  <1>1. PagesInit => Inv
    BY WebStarts, AppStarts DEF PagesInit
  <1>2. Inv /\ [PagesNext]_<<vars, part>> => Inv'
    BY PartsKeepApart, WebAdvances, WebStutters, AppAdvances, AppStutters
  <1>3. Inv => SessionsFollowTheClock
    BY WebRevokes, AppTokensLast DEF SessionsFollowTheClock
  <1> QED
    BY <1>1, <1>2, <1>3, PTL DEF PagesSpec

\* A match followed without a gap is alerted of once for each start and each goal, both of
\* its teams favourites or one, however the answers cross (checkTeam, checkForChanges).
THEOREM EveryChangeIsAlwaysToldOnce == PagesSpec => []EveryChangeIsToldOnce
  <1> DEFINE Inv == part = "alerts" => AlertsInv
  <1>1. PagesInit => Inv
    BY AlertsStart DEF PagesInit
  <1>2. Inv /\ [PagesNext]_<<vars, part>> => Inv'
    BY PartsKeepApart, AlertsAdvance, AlertsStutter
  <1>3. Inv => EveryChangeIsToldOnce
    BY AlertsToldAtRest DEF EveryChangeIsToldOnce
  <1> QED
    BY <1>1, <1>2, <1>3, PTL DEF PagesSpec

\* A page a customer comes back to says settled only when something was bought, and a payment
\* made before it opened is recorded and shown by the confirmation alone, unless a call is
\* lost, the team's name is taken or a newer registration hides its own (load, materialize).
THEOREM ReturnAlwaysTellsTruth == PagesSpec => []ReturnTellsTruth
  <1> DEFINE Inv == part = "payment return" => ReturnInv
  <1>1. PagesInit => Inv
    BY ReturnStarts DEF PagesInit
  <1>2. Inv /\ [PagesNext]_<<vars, part>> => Inv'
    BY PartsKeepApart, ReturnAdvances, ReturnStutters
  <1>3. Inv => ReturnTellsTruth
    BY DEF ReturnInv, ReturnTellsTruth, Returning!ReturnTellsTruth, Prompt
  <1> QED
    BY <1>1, <1>2, <1>3, PTL DEF PagesSpec

\* However uploads, removals, deletions and imports of links cross, the logo every team shows
\* is a file that is there, no two teams share one, and requests served one at a time leave
\* none behind; a request may be lost when no logo is being replaced (uploadLogo, removeLogo,
\* remove, importFromCsv).
THEOREM LogosAreAlwaysThere ==
    ASSUME NoPathImported, LossesSpareRows
    PROVE  PagesSpec => []LogosAreThere
  <1> DEFINE Inv == part = "teams" => FilesInv
  <1>1. PagesInit => Inv
    BY FilesStart DEF PagesInit
  <1>2. Inv /\ [PagesNext]_<<vars, part>> => Inv'
    BY PartsKeepApart, FilesStep, FilesStutter
  <1>3. Inv => LogosAreThere
    BY FilesTrue DEF LogosAreThere
  <1> QED
    BY <1>1, <1>2, <1>3, PTL DEF PagesSpec
================================================================================
