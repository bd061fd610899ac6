---------------------------- MODULE SessionsProofs ----------------------------
(***************************************************************************)
(* Proofs about the sessions of the three services side by side: what the  *)
(* parts of MCSessions have in common, and what each scenario adds.        *)
(***************************************************************************)
EXTENDS MCSessions, OrganizerSessionsProofs

(***************************************************************************)
(* The three services side by side                                         *)
(***************************************************************************)
\* The players' service takes the same steps on the same tables.
LEMMA PlayersInit ==
    ASSUME Players!PlayersInit
    PROVE  TokenInit({"none"})
  BY DEF Players!PlayersInit, Players!TokenInit, Players!Tokens, Players!NoToken, Players!Idle,
         TokenInit, Tokens, NoToken, Idle

LEMMA PlayersAccept ==
    ASSUME OwnCalls \subseteq Operations, NEW r, NEW state, Players!Accept(r, state)
    PROVE  Accept(r, state)
  BY DEF Players!Accept, Players!Spend, Accept, Spend, OwnCalls, TokenCalls, AccountCalls

LEMMA PlayersStart ==
    ASSUME OwnCalls \subseteq Operations, NEW r, Players!StartSession(r)
    PROVE  StartSession(r)
  <1>1. CASE Players!StartLogin(r)
    BY <1>1, PlayersAccept DEF Players!StartLogin, Players!Idle, StartLogin, Idle, StartSession
  <1>2. CASE Players!StartRefresh(r)
    BY <1>2, PlayersAccept DEF Players!StartRefresh, Players!Idle, StartRefresh, Idle, StartSession
  <1>3. CASE Players!StartLogout(r)
    BY <1>3, PlayersAccept DEF Players!StartLogout, Players!Idle, StartLogout, Idle, StartSession
  <1> QED
    BY <1>1, <1>2, <1>3 DEF Players!StartSession

LEMMA PlayersProceed ==
    ASSUME NEW r
    PROVE  /\ Players!PlayerIssue(r) => ProceedSession(r)
           /\ Players!PlayerRefresh(r) => ProceedSession(r)
           /\ Players!PlayerLogout(r) => ProceedSession(r)
  <1>1. Players!PlayerIssue(r) => ProceedSession(r)
    BY DEF Players!PlayerIssue, Players!IssueToken, Players!SetCookie, Players!Refuse, Players!Finish,
           Players!Fresh, Players!Active, Players!Tokens, Players!NoToken, Players!Idle,
           ProceedSession, IssueToken, SetCookie, Refuse, Finish, Fresh, Active, Tokens, NoToken,
           Idle
  <1>2. Players!FindToken(r) => FindToken(r)
    BY DEF Players!FindToken, Players!Refuse, Players!Goto, Players!Finish, Players!Idle,
           FindToken, Refuse, Goto, Finish, Idle
  <1>3. Players!RevokeFamily(r) => RevokeFamily(r)
    BY DEF Players!RevokeFamily, Players!RevokeAll, Players!Family, Players!Unrevoked,
           Players!Finish, Players!Idle, Players!Tokens,
           RevokeFamily, RevokeAll, Family, Unrevoked, Finish, Idle, Tokens
  <1>4. Players!Rotate(r) => Rotate(r)
    BY DEF Players!Rotate, Players!Fresh, Players!Refuse, Players!Finish, Players!Tokens,
           Players!NoToken, Players!Idle, Rotate, Fresh, Refuse, Finish, Tokens, NoToken, Idle
  <1>5. Players!PlayerLogout(r) => ProceedSession(r)
    BY DEF Players!PlayerLogout, Players!RevokeToken, Players!ClearCookie, Players!RevokeAll,
           Players!Unrevoked, Players!Goto, Players!Finish, Players!Idle, Players!Tokens,
           ProceedSession, RevokeToken, ClearCookie, RevokeAll, Unrevoked, Goto, Finish, Idle,
           Tokens
  <1> QED
    BY <1>1, <1>2, <1>3, <1>4, <1>5 DEF Players!PlayerRefresh, ProceedSession

LEMMA PlayersNext ==
    ASSUME OwnCalls \subseteq Operations, SessionsInv, Players!PlayersNext
    PROVE  Keeps
  <1>1. ASSUME NEW t \in Players!Tokens, Players!Expire(t) PROVE Keeps
    <2>1. t \in Tokens /\ Expire(t)
      BY <1>1 DEF Players!Tokens, Players!Expire, Players!Spend, Tokens, Expire, Spend, OwnCalls,
                  TokenCalls, AccountCalls
    <2> QED
      BY <2>1, TokenExpires
  <1>2. ASSUME NEW r \in Requests, Players!StartSession(r) PROVE Keeps
    BY <1>2, PlayersStart, SessionStarts
  <1>3. ASSUME NEW r \in Requests, Players!StartRegister(r) PROVE Keeps
    <2>1. PICK a \in Accounts :
            Call(r, a, "register", "findEmail")
      BY <1>3, PlayersAccept DEF Players!StartRegister, Players!Idle, Idle, Call
    <2> QED
      BY <2>1, OrganizerCallStarts DEF Steps, Holding
  <1>4. ASSUME NEW r \in Requests, Players!FindEmail(r) PROVE Keeps
    <2>1. req[r].since = 0 /\ Busy(r) /\ req[r].step = "findEmail"
      BY <1>4 DEF Players!FindEmail, SessionsInv, HandlerInv, Busy
    <2>2. CASE Goto(r, "create") /\ UNCHANGED <<account, tokens, jar, calls, failures>>
      BY <2>1, <2>2, GotoKeeps DEF Steps, Holding
    <2>3. CASE Refuse(r)
      BY <2>3, RefuseKeeps
    <2> QED
      BY <1>4, <2>2, <2>3 DEF Players!FindEmail, Players!Goto, Players!Refuse, Players!Finish,
                              Players!Idle, Goto, Refuse, Finish, Idle
  <1>5. ASSUME NEW r \in Requests, Players!CreateAccount(r) PROVE Keeps
    <2>1. CASE Players!Refuse(r)
      <3>1. Refuse(r)
        BY <2>1 DEF Players!Refuse, Players!Finish, Players!Idle, Refuse, Finish, Idle
      <3> QED
        BY <3>1, RefuseKeeps
    <2>2. CASE ~Players!Refuse(r)
      BY <1>5, <2>2, AccountCreated DEF Players!CreateAccount, Players!Goto, Goto
    <2> QED
      BY <2>1, <2>2
  <1>6. ASSUME NEW r \in Requests, Players!PlayerLogin(r) PROVE Keeps
    <2>1. CheckPassword(r, TRUE)
      BY <1>6 DEF Players!PlayerLogin, Players!CheckPassword, Players!Active, Players!Refuse,
                  Players!Finish, Players!Idle, CheckPassword, Active, Refuse, Finish, Idle
    <2> QED
      BY <2>1, PasswordChecked
  <1>7. ASSUME NEW r \in Requests, Players!PlayerIssue(r) \/ Players!PlayerRefresh(r) \/ Players!PlayerLogout(r)
        PROVE  Keeps
    BY <1>7, PlayersProceed, SessionProceeds
  <1>8. ASSUME NEW r \in Requests, Players!Fail(r) PROVE Keeps
    <2>1. Fail(r)
      BY <1>8 DEF Players!Fail, Players!Finish, Players!Idle, Fail, Finish, Idle
    <2> QED
      BY <2>1, RequestLost
  <1> QED
    BY <1>1, <1>2, <1>3, <1>4, <1>5, <1>6, <1>7, <1>8 DEF Players!PlayersNext, Players!PlayerProceed

\* The super-admins' service takes them too on the same tables.
LEMMA AdminsInit ==
    ASSUME Admins!AdminsInit
    PROVE  TokenInit({"active"})
  BY DEF Admins!AdminsInit, Admins!TokenInit, Admins!Tokens, Admins!NoToken, Admins!Idle,
         TokenInit, Tokens, NoToken, Idle

LEMMA AdminsAccept ==
    ASSUME OwnCalls \subseteq Operations, NEW r, NEW state, Admins!Accept(r, state)
    PROVE  Accept(r, state)
  BY DEF Admins!Accept, Admins!Spend, AdminCalls, Accept, Spend, OwnCalls, TokenCalls,
         AccountCalls

LEMMA AdminsStart ==
    ASSUME OwnCalls \subseteq Operations, NEW r, Admins!StartSession(r)
    PROVE  StartSession(r)
  <1>1. CASE Admins!StartLogin(r)
    BY <1>1, AdminsAccept DEF Admins!StartLogin, Admins!Idle, StartLogin, Idle, StartSession
  <1>2. CASE Admins!StartRefresh(r)
    BY <1>2, AdminsAccept DEF Admins!StartRefresh, Admins!Idle, StartRefresh, Idle, StartSession
  <1>3. CASE Admins!StartLogout(r)
    BY <1>3, AdminsAccept DEF Admins!StartLogout, Admins!Idle, StartLogout, Idle, StartSession
  <1> QED
    BY <1>1, <1>2, <1>3 DEF Admins!StartSession

LEMMA AdminsProceed ==
    ASSUME NEW r
    PROVE  /\ Admins!AdminIssue(r) => ProceedSession(r)
           /\ Admins!AdminRefresh(r) => ProceedSession(r)
           /\ Admins!AdminLogout(r) => ProceedSession(r)
  <1>1. Admins!AdminIssue(r) => ProceedSession(r)
    BY DEF Admins!AdminIssue, Admins!IssueToken, Admins!SetCookie, Admins!Refuse, Admins!Finish,
           Admins!Fresh, Admins!Active, Admins!Tokens, Admins!NoToken, Admins!Idle,
           ProceedSession, IssueToken, SetCookie, Refuse, Finish, Fresh, Active, Tokens, NoToken,
           Idle
  <1>2. Admins!FindToken(r) => FindToken(r)
    BY DEF Admins!FindToken, Admins!Refuse, Admins!Goto, Admins!Finish, Admins!Idle,
           FindToken, Refuse, Goto, Finish, Idle
  <1>3. Admins!RevokeFamily(r) => RevokeFamily(r)
    BY DEF Admins!RevokeFamily, Admins!RevokeAll, Admins!Family, Admins!Unrevoked,
           Admins!Finish, Admins!Idle, Admins!Tokens,
           RevokeFamily, RevokeAll, Family, Unrevoked, Finish, Idle, Tokens
  <1>4. Admins!Rotate(r) => Rotate(r)
    BY DEF Admins!Rotate, Admins!Fresh, Admins!Refuse, Admins!Finish, Admins!Tokens,
           Admins!NoToken, Admins!Idle, Rotate, Fresh, Refuse, Finish, Tokens, NoToken, Idle
  <1>5. Admins!AdminLogout(r) => ProceedSession(r)
    BY DEF Admins!AdminLogout, Admins!RevokeToken, Admins!ClearCookie, Admins!RevokeAll,
           Admins!Unrevoked, Admins!Goto, Admins!Finish, Admins!Idle, Admins!Tokens,
           ProceedSession, RevokeToken, ClearCookie, RevokeAll, Unrevoked, Goto, Finish, Idle,
           Tokens
  <1> QED
    BY <1>1, <1>2, <1>3, <1>4, <1>5 DEF Admins!AdminRefresh, ProceedSession

LEMMA AdminsNext ==
    ASSUME OwnCalls \subseteq Operations, SessionsInv, Admins!AdminsNext
    PROVE  Keeps
  <1>1. ASSUME NEW t \in Admins!Tokens, Admins!Expire(t) PROVE Keeps
    <2>1. t \in Tokens /\ Expire(t)
      BY <1>1 DEF Admins!Tokens, Admins!Expire, Admins!Spend, Tokens, Expire, Spend, OwnCalls,
                  TokenCalls, AccountCalls
    <2> QED
      BY <2>1, TokenExpires
  <1>2. ASSUME NEW r \in Requests, Admins!StartSession(r) PROVE Keeps
    BY <1>2, AdminsStart, SessionStarts
  <1>3. ASSUME NEW r \in Requests, Admins!StartDelete(r) PROVE Keeps
    <2>1. PICK a \in Accounts :
            Call(r, a, "deleteAccount", "count")
      BY <1>3, AdminsAccept DEF Admins!StartDelete, Admins!Idle, Idle, Call
    <2> QED
      BY <2>1, OrganizerCallStarts DEF Steps, Holding
  <1>4. ASSUME NEW r \in Requests, Admins!CountOthers(r) PROVE Keeps
    <2>1. CASE Goto(r, "delete") /\ UNCHANGED <<account, tokens, jar, calls, failures>>
      BY <1>4, <2>1, GotoKeeps DEF Admins!CountOthers, Busy, Steps, Holding
    <2>2. CASE Refuse(r)
      BY <2>2, RefuseKeeps
    <2> QED
      BY <1>4, <2>1, <2>2 DEF Admins!CountOthers, Admins!Goto, Admins!Refuse, Admins!Finish,
                              Admins!Idle, Goto, Refuse, Finish, Idle
  <1>5. ASSUME NEW r \in Requests, Admins!Delete(r) PROVE Keeps
    <2>1. CASE Admins!Refuse(r)
      <3>1. Refuse(r)
        BY <2>1 DEF Admins!Refuse, Admins!Finish, Admins!Idle, Refuse, Finish, Idle
      <3> QED
        BY <3>1, RefuseKeeps
    <2>2. CASE ~Admins!Refuse(r)
      <3>1. /\ Busy(r) /\ account[req[r].account].state = "active"
            /\ Goto(r, "clear") /\ UNCHANGED <<jar, calls, failures>>
        BY <1>5, <2>2 DEF Admins!Delete, Admins!Active, Admins!Goto, Goto, Busy
      <3>2. DeleteAccount(req[r].account)
        BY <1>5, <2>2 DEF Admins!Delete, Admins!DeleteAccount, Admins!Tokens, DeleteAccount, Tokens
      <3> QED
        BY <3>1, <3>2, AccountDeleted
    <2> QED
      BY <2>1, <2>2
  <1>6. ASSUME NEW r \in Requests, Admins!AdminLogin(r) PROVE Keeps
    <2>1. CheckPassword(r, TRUE)
      BY <1>6 DEF Admins!AdminLogin, Admins!CheckPassword, Admins!Active, Admins!Refuse,
                  Admins!Finish, Admins!Idle, CheckPassword, Active, Refuse, Finish, Idle
    <2> QED
      BY <2>1, PasswordChecked
  <1>7. ASSUME NEW r \in Requests, Admins!AdminIssue(r) \/ Admins!AdminRefresh(r) \/ Admins!AdminLogout(r)
        PROVE  Keeps
    BY <1>7, AdminsProceed, SessionProceeds
  <1>8. ASSUME NEW r \in Requests, Admins!Fail(r) PROVE Keeps
    <2>1. Fail(r)
      BY <1>8 DEF Admins!Fail, Admins!Finish, Admins!Idle, Fail, Finish, Idle
    <2> QED
      BY <2>1, RequestLost
  <1> QED
    BY <1>1, <1>2, <1>3, <1>4, <1>5, <1>6, <1>7, <1>8 DEF Admins!AdminsNext, Admins!AdminProceed

\* What every part where a browser waits for its answers keeps.
PartsInv == OneTabPart => SessionsInv /\ MailsInv

LEMMA PartsStart ==
    ASSUME MCInit, OneTabPart
    PROVE  SessionsInv /\ MailsInv /\ Life!Init
  <1>1. CASE part = "accounts"
    BY <1>1, OrganizerInit DEF MCInit
  <1>2. CASE part = "players"
    <2>1. Players!PlayersInit /\ NoMails
      BY <1>2 DEF MCInit
    <2>2. TokenInit({"none"})
      BY <2>1, PlayersInit
    <2> QED
      BY <2>1, <2>2, TokenInitKeeps DEF NoMails, MailsInv
  <1>3. CASE part = "admins"
    <2>1. Admins!AdminsInit /\ NoMails
      BY <1>3 DEF MCInit
    <2>2. TokenInit({"active"})
      BY <2>1, AdminsInit
    <2> QED
      BY <2>1, <2>2, TokenInitKeeps DEF NoMails, MailsInv
  <1> QED
    BY <1>1, <1>2, <1>3 DEF OneTabPart

LEMMA PartsStep ==
    ASSUME OwnCalls \subseteq Operations, SessionsInv, MailsInv, OneTabPart, MCNext
    PROVE  Keeps /\ MailsInv'
  <1>1. CASE part = "accounts"
    BY <1>1, OrganizerNext DEF MCNext
  <1>2. CASE part = "players"
    <2>1. Players!PlayersNext /\ UNCHANGED mailVars
      BY <1>2 DEF MCNext
    <2> QED
      BY <2>1, PlayersNext DEF mailVars, MailsInv
  <1>3. CASE part = "admins"
    <2>1. Admins!AdminsNext /\ UNCHANGED mailVars
      BY <1>3 DEF MCNext
    <2> QED
      BY <2>1, AdminsNext DEF mailVars, MailsInv
  <1> QED
    BY <1>1, <1>2, <1>3 DEF OneTabPart

THEOREM PartsHold ==
    ASSUME OwnCalls \subseteq Operations
    PROVE  MCSpec => []PartsInv
  <1>1. MCInit => PartsInv
    BY PartsStart DEF PartsInv
  <1>2. PartsInv /\ [MCNext]_<<vars, part>> => PartsInv'
    <2>1. CASE MCNext /\ OneTabPart
      BY <2>1, PartsStep DEF PartsInv, Keeps
    <2>2. CASE MCNext /\ ~OneTabPart
      BY <2>2 DEF MCNext, PartsInv, OneTabPart
    <2>3. CASE UNCHANGED <<vars, part>>
      BY <2>3, StutterKeeps DEF vars, mailVars, MailsInv, PartsInv, OneTabPart
    <2> QED
      BY <2>1, <2>2, <2>3
  <1> QED
    BY <1>1, <1>2, PTL DEF MCSpec

\* Types hold in the organizers', the players' and the super-admins' services, and no
\* session of an organizer predates the reset of its password, where a browser waits for
\* its answers (resetPassword, refresh).
THEOREM ResetEndsSessionsOfAll ==
    ASSUME OneTab, OwnCalls \subseteq Operations
    PROVE  MCSpec => []ResetEndsSessions
  <1>1. PartsInv => ResetEndsSessions
    BY DEF PartsInv, ResetEndsSessions, SessionsInv, MailsInv, TypeOK, OneTabPart
  <1> QED
    BY <1>1, PartsHold, PTL

\* In the three services a session begins once, and no token of a session that ended is
\* issued again, where a browser waits for its answers (login, refresh, logout).
THEOREM SessionsOfAllBeginAndEndOnce ==
    ASSUME OneTab, OwnCalls \subseteq Operations
    PROVE  MCSpec => SessionsBeginAndEndOnce
  <1>1. MCInit => (OneTabPart => Life!Init)
    BY PartsStart
  <1>2. PartsInv /\ [MCNext]_<<vars, part>> => [OneTabPart => Life!Next \/ Stages' = Stages]_vars
    <2>1. CASE MCNext /\ OneTabPart
      BY <2>1, PartsStep DEF PartsInv, Keeps
    <2>2. CASE UNCHANGED <<vars, part>>
      BY <2>2
    <2> QED
      BY <2>1, <2>2
  <1> QED
    BY <1>1, <1>2, PartsHold, PTL DEF MCSpec, SessionsBeginAndEndOnce

(***************************************************************************)
(* The organizers' service in the other scenarios.  What was proved of it  *)
(* for every value of its constants is taken at those of each scenario.    *)
(***************************************************************************)
InTab == INSTANCE OrganizerSessionsProofs WITH
    Accounts <- {a1}, Requests <- {r1}, Operations <- OwnCalls, MaxCalls <- 6, MaxFailures <- 0

InTabs == INSTANCE OrganizerSessionsProofs WITH
    Accounts <- {a1}, OneTab <- FALSE, Operations <- OwnCalls, MaxCalls <- 4

InTokenTabs == INSTANCE OrganizerSessionsProofs WITH
    Accounts <- {a1}, OneTab <- FALSE, Operations <- TokenCalls, MaxCalls <- 6,
    MaxFailures <- 0

LEMMA ScenariosMeetAssumptions ==
    /\ InTab!Bounds /\ InTab!NoneIsNoAccount
    /\ InTabs!Bounds /\ InTabs!NoneIsNoAccount
    /\ InTokenTabs!Bounds /\ InTokenTabs!NoneIsNoAccount
  BY Bounds, NoneIsNoAccount, OneOfEach
     DEF InTab!Bounds, InTab!NoneIsNoAccount, InTabs!Bounds, InTabs!NoneIsNoAccount,
         InTokenTabs!Bounds, InTokenTabs!NoneIsNoAccount

LEMMA InTabBegins == Tab!Init => InTab!Init
  BY DEF Tab!Init, InTab!Init, Tab!TokenInit, InTab!TokenInit, Tab!Tokens, InTab!Tokens,
         Tab!NoToken, InTab!NoToken, Tab!Idle, InTab!Idle, Tab!Active, InTab!Active

LEMMA InTabSteps == Tab!Next => InTab!Next
  <1>1. ASSUME NEW r, Tab!Start(r) PROVE InTab!Start(r)
    BY <1>1
       DEF Tab!Start, InTab!Start, Tab!StartSession, InTab!StartSession, Tab!StartLogin,
           InTab!StartLogin, Tab!StartRefresh, InTab!StartRefresh, Tab!StartLogout,
           InTab!StartLogout, Tab!StartRegister, InTab!StartRegister, Tab!StartVerify,
           InTab!StartVerify, Tab!StartSupportVerify, InTab!StartSupportVerify, Tab!StartResend,
           InTab!StartResend, Tab!StartRequestReset, InTab!StartRequestReset, Tab!StartReset,
           InTab!StartReset, Tab!StartDelete, InTab!StartDelete, Tab!Call, InTab!Call,
           Tab!Accept, InTab!Accept, Tab!Spend, InTab!Spend, Tab!Idle, InTab!Idle, Tab!Active,
           InTab!Active, Tab!mailVars, InTab!mailVars
  <1>2. ASSUME NEW r, Tab!ProceedSession(r) PROVE InTab!ProceedSession(r)
    BY <1>2
       DEF Tab!ProceedSession, InTab!ProceedSession, Tab!IssueToken, InTab!IssueToken,
           Tab!SetCookie, InTab!SetCookie, Tab!FindToken, InTab!FindToken, Tab!RevokeFamily,
           InTab!RevokeFamily, Tab!Rotate, InTab!Rotate, Tab!RevokeToken, InTab!RevokeToken,
           Tab!ClearCookie, InTab!ClearCookie, Tab!Fresh, InTab!Fresh, Tab!Refuse, InTab!Refuse,
           Tab!Finish, InTab!Finish, Tab!Goto, InTab!Goto, Tab!RevokeAll, InTab!RevokeAll,
           Tab!Family, InTab!Family, Tab!Unrevoked, InTab!Unrevoked, Tab!Active, InTab!Active,
           Tab!Tokens, InTab!Tokens, Tab!NoToken, InTab!NoToken, Tab!Idle, InTab!Idle
  <1>3. ASSUME NEW r, Tab!Proceed(r), ~(Tab!ProceedSession(r) /\ UNCHANGED Tab!mailVars)
        PROVE  InTab!Proceed(r)
    BY <1>3
       DEF Tab!Proceed, InTab!Proceed,
           Tab!Login, InTab!Login, Tab!CheckPassword, InTab!CheckPassword, Tab!FindEmail,
           InTab!FindEmail, Tab!CreateAccount, InTab!CreateAccount, Tab!FindVerification,
           InTab!FindVerification, Tab!Verify, InTab!Verify, Tab!FindUnverified,
           InTab!FindUnverified, Tab!SupportVerify, InTab!SupportVerify, Tab!Resend,
           InTab!Resend, Tab!FindAccount, InTab!FindAccount, Tab!RequestReset,
           InTab!RequestReset, Tab!FindReset, InTab!FindReset, Tab!ResetPassword,
           InTab!ResetPassword, Tab!Delete, InTab!Delete, Tab!DeleteAccount,
           InTab!DeleteAccount, Tab!Reject, InTab!Reject, Tab!Continue, InTab!Continue,
           Tab!Awaits, InTab!Awaits, Tab!Refuse, InTab!Refuse, Tab!Finish, InTab!Finish,
           Tab!Goto, InTab!Goto, Tab!RevokeAll, InTab!RevokeAll, Tab!Unrevoked, InTab!Unrevoked,
           Tab!Active, InTab!Active, Tab!Tokens, InTab!Tokens, Tab!Idle, InTab!Idle,
           Tab!mailVars, InTab!mailVars
  <1> QED
    BY <1>1, <1>2, <1>3
       DEF Tab!Next, InTab!Next, Tab!Proceed, InTab!Proceed, Tab!Fail, InTab!Fail, Tab!Finish,
           InTab!Finish, Tab!Expire, InTab!Expire, Tab!ExpireLink, InTab!ExpireLink, Tab!Spend,
           InTab!Spend, Tab!Idle, InTab!Idle, Tab!Tokens, InTab!Tokens, Tab!mailVars,
           InTab!mailVars

LEMMA InTabsBegins == Tabs!Init => InTabs!Init
  BY DEF Tabs!Init, InTabs!Init, Tabs!TokenInit, InTabs!TokenInit, Tabs!Tokens, InTabs!Tokens,
         Tabs!NoToken, InTabs!NoToken, Tabs!Idle, InTabs!Idle, Tabs!Active, InTabs!Active

LEMMA InTabsSteps == Tabs!Next => InTabs!Next
  <1>1. ASSUME NEW r, Tabs!Start(r) PROVE InTabs!Start(r)
    BY <1>1
       DEF Tabs!Start, InTabs!Start, Tabs!StartSession, InTabs!StartSession, Tabs!StartLogin,
           InTabs!StartLogin, Tabs!StartRefresh, InTabs!StartRefresh, Tabs!StartLogout,
           InTabs!StartLogout, Tabs!StartRegister, InTabs!StartRegister, Tabs!StartVerify,
           InTabs!StartVerify, Tabs!StartSupportVerify, InTabs!StartSupportVerify,
           Tabs!StartResend, InTabs!StartResend, Tabs!StartRequestReset,
           InTabs!StartRequestReset, Tabs!StartReset, InTabs!StartReset, Tabs!StartDelete,
           InTabs!StartDelete, Tabs!Call, InTabs!Call, Tabs!Accept, InTabs!Accept, Tabs!Spend,
           InTabs!Spend, Tabs!Idle, InTabs!Idle, Tabs!Active, InTabs!Active, Tabs!mailVars,
           InTabs!mailVars
  <1>2. ASSUME NEW r, Tabs!ProceedSession(r) PROVE InTabs!ProceedSession(r)
    BY <1>2
       DEF Tabs!ProceedSession, InTabs!ProceedSession, Tabs!IssueToken, InTabs!IssueToken,
           Tabs!SetCookie, InTabs!SetCookie, Tabs!FindToken, InTabs!FindToken,
           Tabs!RevokeFamily, InTabs!RevokeFamily, Tabs!Rotate, InTabs!Rotate, Tabs!RevokeToken,
           InTabs!RevokeToken, Tabs!ClearCookie, InTabs!ClearCookie, Tabs!Fresh, InTabs!Fresh,
           Tabs!Refuse, InTabs!Refuse, Tabs!Finish, InTabs!Finish, Tabs!Goto, InTabs!Goto,
           Tabs!RevokeAll, InTabs!RevokeAll, Tabs!Family, InTabs!Family, Tabs!Unrevoked,
           InTabs!Unrevoked, Tabs!Active, InTabs!Active, Tabs!Tokens, InTabs!Tokens,
           Tabs!NoToken, InTabs!NoToken, Tabs!Idle, InTabs!Idle
  <1>3. ASSUME NEW r, Tabs!Proceed(r), ~(Tabs!ProceedSession(r) /\ UNCHANGED Tabs!mailVars)
        PROVE  InTabs!Proceed(r)
    BY <1>3
       DEF Tabs!Proceed, InTabs!Proceed,
           Tabs!Login, InTabs!Login, Tabs!CheckPassword, InTabs!CheckPassword, Tabs!FindEmail,
           InTabs!FindEmail, Tabs!CreateAccount, InTabs!CreateAccount, Tabs!FindVerification,
           InTabs!FindVerification, Tabs!Verify, InTabs!Verify, Tabs!FindUnverified,
           InTabs!FindUnverified, Tabs!SupportVerify, InTabs!SupportVerify, Tabs!Resend,
           InTabs!Resend, Tabs!FindAccount, InTabs!FindAccount, Tabs!RequestReset,
           InTabs!RequestReset, Tabs!FindReset, InTabs!FindReset, Tabs!ResetPassword,
           InTabs!ResetPassword, Tabs!Delete, InTabs!Delete, Tabs!DeleteAccount,
           InTabs!DeleteAccount, Tabs!Reject, InTabs!Reject, Tabs!Continue, InTabs!Continue,
           Tabs!Awaits, InTabs!Awaits, Tabs!Refuse, InTabs!Refuse, Tabs!Finish, InTabs!Finish,
           Tabs!Goto, InTabs!Goto, Tabs!RevokeAll, InTabs!RevokeAll, Tabs!Unrevoked,
           InTabs!Unrevoked, Tabs!Active, InTabs!Active, Tabs!Tokens, InTabs!Tokens, Tabs!Idle,
           InTabs!Idle, Tabs!mailVars, InTabs!mailVars
  <1> QED
    BY <1>1, <1>2, <1>3
       DEF Tabs!Next, InTabs!Next, Tabs!Proceed, InTabs!Proceed, Tabs!Fail, InTabs!Fail,
           Tabs!Finish, InTabs!Finish, Tabs!Expire, InTabs!Expire, Tabs!ExpireLink,
           InTabs!ExpireLink, Tabs!Spend, InTabs!Spend, Tabs!Idle, InTabs!Idle, Tabs!Tokens,
           InTabs!Tokens, Tabs!mailVars, InTabs!mailVars

LEMMA InTokenTabsBegins == TokenTabs!Init => InTokenTabs!Init
  BY DEF TokenTabs!Init, InTokenTabs!Init, TokenTabs!TokenInit, InTokenTabs!TokenInit,
         TokenTabs!Tokens, InTokenTabs!Tokens, TokenTabs!NoToken, InTokenTabs!NoToken,
         TokenTabs!Idle, InTokenTabs!Idle, TokenTabs!Active, InTokenTabs!Active

LEMMA InTokenTabsSteps == TokenTabs!Next => InTokenTabs!Next
  <1>1. ASSUME NEW r, TokenTabs!Start(r) PROVE InTokenTabs!Start(r)
    BY <1>1
       DEF TokenTabs!Start, InTokenTabs!Start, TokenTabs!StartSession, InTokenTabs!StartSession,
           TokenTabs!StartLogin, InTokenTabs!StartLogin, TokenTabs!StartRefresh,
           InTokenTabs!StartRefresh, TokenTabs!StartLogout, InTokenTabs!StartLogout,
           TokenTabs!StartRegister, InTokenTabs!StartRegister, TokenTabs!StartVerify,
           InTokenTabs!StartVerify, TokenTabs!StartSupportVerify,
           InTokenTabs!StartSupportVerify, TokenTabs!StartResend, InTokenTabs!StartResend,
           TokenTabs!StartRequestReset, InTokenTabs!StartRequestReset, TokenTabs!StartReset,
           InTokenTabs!StartReset, TokenTabs!StartDelete, InTokenTabs!StartDelete,
           TokenTabs!Call, InTokenTabs!Call, TokenTabs!Accept, InTokenTabs!Accept,
           TokenTabs!Spend, InTokenTabs!Spend, TokenTabs!Idle, InTokenTabs!Idle,
           TokenTabs!Active, InTokenTabs!Active, TokenTabs!mailVars, InTokenTabs!mailVars
  <1>2. ASSUME NEW r, TokenTabs!ProceedSession(r) PROVE InTokenTabs!ProceedSession(r)
    BY <1>2
       DEF TokenTabs!ProceedSession, InTokenTabs!ProceedSession, TokenTabs!IssueToken,
           InTokenTabs!IssueToken, TokenTabs!SetCookie, InTokenTabs!SetCookie,
           TokenTabs!FindToken, InTokenTabs!FindToken, TokenTabs!RevokeFamily,
           InTokenTabs!RevokeFamily, TokenTabs!Rotate, InTokenTabs!Rotate,
           TokenTabs!RevokeToken, InTokenTabs!RevokeToken, TokenTabs!ClearCookie,
           InTokenTabs!ClearCookie, TokenTabs!Fresh, InTokenTabs!Fresh, TokenTabs!Refuse,
           InTokenTabs!Refuse, TokenTabs!Finish, InTokenTabs!Finish, TokenTabs!Goto,
           InTokenTabs!Goto, TokenTabs!RevokeAll, InTokenTabs!RevokeAll, TokenTabs!Family,
           InTokenTabs!Family, TokenTabs!Unrevoked, InTokenTabs!Unrevoked, TokenTabs!Active,
           InTokenTabs!Active, TokenTabs!Tokens, InTokenTabs!Tokens, TokenTabs!NoToken,
           InTokenTabs!NoToken, TokenTabs!Idle, InTokenTabs!Idle
  <1>3. ASSUME NEW r, TokenTabs!Proceed(r), ~(TokenTabs!ProceedSession(r) /\ UNCHANGED TokenTabs!mailVars)
        PROVE  InTokenTabs!Proceed(r)
    BY <1>3
       DEF TokenTabs!Proceed, InTokenTabs!Proceed,
           TokenTabs!Login, InTokenTabs!Login, TokenTabs!CheckPassword,
           InTokenTabs!CheckPassword, TokenTabs!FindEmail, InTokenTabs!FindEmail,
           TokenTabs!CreateAccount, InTokenTabs!CreateAccount, TokenTabs!FindVerification,
           InTokenTabs!FindVerification, TokenTabs!Verify, InTokenTabs!Verify,
           TokenTabs!FindUnverified, InTokenTabs!FindUnverified, TokenTabs!SupportVerify,
           InTokenTabs!SupportVerify, TokenTabs!Resend, InTokenTabs!Resend,
           TokenTabs!FindAccount, InTokenTabs!FindAccount, TokenTabs!RequestReset,
           InTokenTabs!RequestReset, TokenTabs!FindReset, InTokenTabs!FindReset,
           TokenTabs!ResetPassword, InTokenTabs!ResetPassword, TokenTabs!Delete,
           InTokenTabs!Delete, TokenTabs!DeleteAccount, InTokenTabs!DeleteAccount,
           TokenTabs!Reject, InTokenTabs!Reject, TokenTabs!Continue, InTokenTabs!Continue,
           TokenTabs!Awaits, InTokenTabs!Awaits, TokenTabs!Refuse, InTokenTabs!Refuse,
           TokenTabs!Finish, InTokenTabs!Finish, TokenTabs!Goto, InTokenTabs!Goto,
           TokenTabs!RevokeAll, InTokenTabs!RevokeAll, TokenTabs!Unrevoked,
           InTokenTabs!Unrevoked, TokenTabs!Active, InTokenTabs!Active, TokenTabs!Tokens,
           InTokenTabs!Tokens, TokenTabs!Idle, InTokenTabs!Idle, TokenTabs!mailVars,
           InTokenTabs!mailVars
  <1> QED
    BY <1>1, <1>2, <1>3
       DEF TokenTabs!Next, InTokenTabs!Next, TokenTabs!Proceed, InTokenTabs!Proceed,
           TokenTabs!Fail, InTokenTabs!Fail, TokenTabs!Finish, InTokenTabs!Finish,
           TokenTabs!Expire, InTokenTabs!Expire, TokenTabs!ExpireLink, InTokenTabs!ExpireLink,
           TokenTabs!Spend, InTokenTabs!Spend, TokenTabs!Idle, InTokenTabs!Idle,
           TokenTabs!Tokens, InTokenTabs!Tokens, TokenTabs!mailVars, InTokenTabs!mailVars

LEMMA InTabHolds ==
    MCSpec => [](part = "tab" => Tab!LinkOpensOneSession)
  <1>1. MCInit /\ part = "tab" => InTab!Init
    BY InTabBegins DEF MCInit
  <1>2. part = "tab" /\ [MCNext]_<<vars, part>> => [InTab!Next]_(InTab!vars) /\ (part = "tab")'
    BY InTabSteps
       DEF MCNext, vars, tokenVars, mailVars, InTab!vars, InTab!tokenVars, InTab!mailVars
  <1>3. ~(part = "tab") /\ [MCNext]_<<vars, part>> => (~(part = "tab"))'
    BY DEF MCNext
  <1>4. InTab!Spec => []InTab!LinkOpensOneSession
    BY InTab!LinksOpenOneSession, ScenariosMeetAssumptions
  <1>5. InTab!LinkOpensOneSession => Tab!LinkOpensOneSession
    BY DEF Tab!LinkOpensOneSession, InTab!LinkOpensOneSession, Tab!Tokens, InTab!Tokens
  <1>6. MCSpec /\ part = "tab" => InTab!Spec
    BY <1>1, <1>2, PTL DEF MCSpec, InTab!Spec
  <1>7. MCSpec /\ ~(part = "tab") => []~(part = "tab")
    BY <1>3, PTL DEF MCSpec
  <1> QED
    BY <1>4, <1>5, <1>6, <1>7, PTL

LEMMA InTabsHolds ==
    MCSpec => [](part = "tabs" => Tabs!SessionsAreVerified)
  <1>1. MCInit /\ part = "tabs" => InTabs!Init
    BY InTabsBegins DEF MCInit
  <1>2. part = "tabs" /\ [MCNext]_<<vars, part>> => [InTabs!Next]_(InTabs!vars) /\ (part = "tabs")'
    BY InTabsSteps
       DEF MCNext, vars, tokenVars, mailVars, InTabs!vars, InTabs!tokenVars, InTabs!mailVars
  <1>3. ~(part = "tabs") /\ [MCNext]_<<vars, part>> => (~(part = "tabs"))'
    BY DEF MCNext
  <1>4. InTabs!Spec => []InTabs!SessionsAreVerified
    BY InTabs!SessionsAlwaysVerified, ScenariosMeetAssumptions DEF OwnCalls, TokenCalls, AccountCalls
  <1>5. InTabs!SessionsAreVerified => Tabs!SessionsAreVerified
    BY DEF Tabs!SessionsAreVerified, InTabs!SessionsAreVerified, Tabs!Tokens, InTabs!Tokens, Tabs!Unrevoked, InTabs!Unrevoked
  <1>6. MCSpec /\ part = "tabs" => InTabs!Spec
    BY <1>1, <1>2, PTL DEF MCSpec, InTabs!Spec
  <1>7. MCSpec /\ ~(part = "tabs") => []~(part = "tabs")
    BY <1>3, PTL DEF MCSpec
  <1> QED
    BY <1>4, <1>5, <1>6, <1>7, PTL

LEMMA InTokenTabsHolds ==
    ASSUME \E p, q : Requests = {p, q}
    PROVE  MCSpec => [](part = "tokenTabs" => TokenTabs!CookieIsUnrevoked)
  <1>1. MCInit /\ part = "tokenTabs" => InTokenTabs!Init
    BY InTokenTabsBegins DEF MCInit
  <1>2. part = "tokenTabs" /\ [MCNext]_<<vars, part>> => [InTokenTabs!Next]_(InTokenTabs!vars) /\ (part = "tokenTabs")'
    BY InTokenTabsSteps
       DEF MCNext, vars, tokenVars, mailVars, InTokenTabs!vars, InTokenTabs!tokenVars, InTokenTabs!mailVars
  <1>3. ~(part = "tokenTabs") /\ [MCNext]_<<vars, part>> => (~(part = "tokenTabs"))'
    BY DEF MCNext
  <1>4. InTokenTabs!Spec => []InTokenTabs!CookieIsUnrevoked
    BY InTokenTabs!CookieAlwaysUnrevoked, ScenariosMeetAssumptions
  <1>5. InTokenTabs!CookieIsUnrevoked => TokenTabs!CookieIsUnrevoked
    BY DEF TokenTabs!CookieIsUnrevoked, InTokenTabs!CookieIsUnrevoked, TokenTabs!Tokens, InTokenTabs!Tokens, TokenTabs!Unrevoked, InTokenTabs!Unrevoked, TokenTabs!Family, InTokenTabs!Family
  <1>6. MCSpec /\ part = "tokenTabs" => InTokenTabs!Spec
    BY <1>1, <1>2, PTL DEF MCSpec, InTokenTabs!Spec
  <1>7. MCSpec /\ ~(part = "tokenTabs") => []~(part = "tokenTabs")
    BY <1>3, PTL DEF MCSpec
  <1> QED
    BY <1>4, <1>5, <1>6, <1>7, PTL

\* A mailed link opens one session, one call after the other, and without the account an
\* invitation creates a session has a proven address, whatever tabs do at once and whatever
\* is lost (login, verifyEmail).
THEOREM SessionsAlwaysTakeAProvenAddress == MCSpec => []SessionsTakeAProvenAddress
  <1>1. SessionsTakeAProvenAddress <=>
           /\ part = "tab" => Tab!LinkOpensOneSession
           /\ part = "tabs" => Tabs!SessionsAreVerified
    BY DEF SessionsTakeAProvenAddress
  <1> QED
    BY <1>1, InTabHolds, InTabsHolds, PTL

\* Tabs that share a cookie, two requests at a time and no answer lost: the cookie of a
\* session that goes on is its good token (refresh, setRefreshCookie).
THEOREM TabsAlwaysShareLiveCookie ==
    ASSUME \E p, q : Requests = {p, q}
    PROVE  MCSpec => []TabsShareLiveCookie
  <1>1. TabsShareLiveCookie <=> (part = "tokenTabs" => TokenTabs!CookieIsUnrevoked)
    BY DEF TabsShareLiveCookie
  <1>2. MCSpec => [](part = "tokenTabs" => TokenTabs!CookieIsUnrevoked)
    BY InTokenTabsHolds
  <1> QED
    BY <1>1, <1>2, PTL

(***************************************************************************)
(* The super-admins, one request at a time                                 *)
(***************************************************************************)
\* Somebody is there, and somebody else is when an account is about to be deleted.
LastAdminInv ==
    /\ account \in [Accounts -> AccountRow]
    /\ jar \in [Accounts -> OneAdmin!Tokens \cup {0}]
    /\ req \in [{r1} -> OneAdmin!Request]
    /\ req[r1].step # "idle" => req[r1].account \in Accounts
    /\ \E a \in Accounts : account[a].state = "active"
    /\ req[r1].step = "delete" =>
          \E b \in Accounts \ {req[r1].account} : account[b].state = "active"

\* A step that leaves the accounts alone, and is not the count of the others.
LEMMA AdminsStay ==
    ASSUME LastAdminInv, UNCHANGED account, jar' \in [Accounts -> OneAdmin!Tokens \cup {0}],
           NEW state \in OneAdmin!Request, req' = [req EXCEPT ![r1] = state],
           state.step # "delete", state.step # "idle" => state.account \in Accounts
    PROVE  LastAdminInv'
  BY DEF LastAdminInv

LEMMA OneAdminIdles == OneAdmin!Idle \in OneAdmin!Request /\ OneAdmin!Idle.step = "idle"
  BY DEF OneAdmin!Idle, OneAdmin!Request, OneAdmin!Steps

LEMMA OneAdminGoes ==
    ASSUME LastAdminInv, NEW s \in OneAdmin!Steps, OneAdmin!Goto(r1, s), s # "delete",
           UNCHANGED <<account, jar>>, req[r1].step # "idle"
    PROVE  LastAdminInv'
  <1> DEFINE new == [req[r1] EXCEPT !.step = s]
  <1>1. new \in OneAdmin!Request /\ new.step = s /\ new.account = req[r1].account
    BY DEF LastAdminInv, OneAdmin!Request
  <1>2. req' = [req EXCEPT ![r1] = new]
    BY DEF OneAdmin!Goto
  <1>3. new.account \in Accounts /\ UNCHANGED <<account, jar>>
    BY <1>1 DEF LastAdminInv
  <1>4. jar' \in [Accounts -> OneAdmin!Tokens \cup {0}]
    BY <1>3 DEF LastAdminInv
  <1> HIDE DEF new
  <1> QED
    BY <1>1, <1>2, <1>3, <1>4, AdminsStay

LEMMA OneAdminEnds ==
    ASSUME LastAdminInv, OneAdmin!Finish(r1), UNCHANGED account,
           jar' \in [Accounts -> OneAdmin!Tokens \cup {0}]
    PROVE  LastAdminInv'
  BY AdminsStay, OneAdminIdles DEF OneAdmin!Finish

LEMMA OneAdminRefuses ==
    ASSUME LastAdminInv, OneAdmin!Refuse(r1)
    PROVE  LastAdminInv'
  BY OneAdminEnds DEF OneAdmin!Refuse, LastAdminInv

LEMMA OneAdminStarts ==
    ASSUME LastAdminInv, OneAdmin!StartSession(r1) \/ OneAdmin!StartDelete(r1)
    PROVE  LastAdminInv'
  <1>1. ASSUME NEW a \in Accounts, NEW op, NEW s \in {"check", "count"},
               OneAdmin!Accept(r1, [OneAdmin!Idle EXCEPT !.op = op, !.step = s, !.account = a])
        PROVE  LastAdminInv'
    <2> DEFINE new == [OneAdmin!Idle EXCEPT !.op = op, !.step = s, !.account = a]
    <2>1. new.op = op /\ new.step = s /\ new.account = a
      BY DEF OneAdmin!Idle
    <2>2. /\ op \in AdminCalls /\ req' = [req EXCEPT ![r1] = new]
          /\ UNCHANGED <<account, jar>>
      BY <1>1, <2>1 DEF OneAdmin!Accept, OneAdmin!Spend
    <2>3. new \in OneAdmin!Request
      BY <2>2 DEF OneAdmin!Idle, OneAdmin!Request, OneAdmin!Steps
    <2>4. jar' \in [Accounts -> OneAdmin!Tokens \cup {0}]
      BY <2>2 DEF LastAdminInv
    <2> HIDE DEF new
    <2> QED
      BY <2>1, <2>2, <2>3, <2>4, AdminsStay
  <1>2. ASSUME NEW a \in Accounts, NEW op, NEW s \in {"find", "clear", "revoke"},
               OneAdmin!Accept(r1, [OneAdmin!Idle EXCEPT !.op = op, !.step = s, !.account = a,
                                                         !.token = jar[a]])
        PROVE  LastAdminInv'
    <2> DEFINE new == [OneAdmin!Idle EXCEPT !.op = op, !.step = s, !.account = a,
                                            !.token = jar[a]]
    <2>1. new.op = op /\ new.step = s /\ new.account = a
      BY DEF OneAdmin!Idle
    <2>2. /\ op \in AdminCalls /\ req' = [req EXCEPT ![r1] = new]
          /\ UNCHANGED <<account, jar>>
      BY <1>2, <2>1 DEF OneAdmin!Accept, OneAdmin!Spend
    <2>3. new \in OneAdmin!Request
      <3>1. jar[a] \in OneAdmin!Tokens \cup {0}
        BY DEF LastAdminInv
      <3> QED
        BY <2>2, <3>1 DEF OneAdmin!Idle, OneAdmin!Request, OneAdmin!Steps
    <2>4. jar' \in [Accounts -> OneAdmin!Tokens \cup {0}]
      BY <2>2 DEF LastAdminInv
    <2> HIDE DEF new
    <2> QED
      BY <2>1, <2>2, <2>3, <2>4, AdminsStay
  <1>3. CASE OneAdmin!StartLogin(r1)
    BY <1>1, <1>3 DEF OneAdmin!StartLogin
  <1>4. CASE OneAdmin!StartRefresh(r1)
    BY <1>2, <1>4 DEF OneAdmin!StartRefresh
  <1>5. CASE OneAdmin!StartLogout(r1)
    <2>1. PICK a \in Accounts :
            OneAdmin!Accept(r1, [OneAdmin!Idle EXCEPT
                !.op = "logout", !.account = a, !.token = jar[a],
                !.step = IF jar[a] = 0 THEN "clear" ELSE "revoke"])
      BY <1>5 DEF OneAdmin!StartLogout
    <2> DEFINE s == IF jar[a] = 0 THEN "clear" ELSE "revoke"
    <2>2. OneAdmin!Accept(r1, [OneAdmin!Idle EXCEPT !.op = "logout", !.step = s, !.account = a,
                                                    !.token = jar[a]])
      BY <2>1 DEF OneAdmin!Idle
    <2>3. s \in {"find", "clear", "revoke"}
      OBVIOUS
    <2> HIDE DEF s
    <2> QED
      BY <1>2, <2>2, <2>3
  <1>6. CASE OneAdmin!StartDelete(r1)
    BY <1>1, <1>6 DEF OneAdmin!StartDelete
  <1> QED
    BY <1>3, <1>4, <1>5, <1>6 DEF OneAdmin!StartSession

LEMMA OneAdminProceeds ==
    ASSUME LastAdminInv, OneAdmin!AdminProceed(r1)
    PROVE  LastAdminInv'
  <1>0. jar \in [Accounts -> OneAdmin!Tokens \cup {0}] /\ req[r1] \in OneAdmin!Request
    BY DEF LastAdminInv
  <1>1. CASE OneAdmin!Refuse(r1)
    BY <1>1, OneAdminRefuses
  <1>2. CASE OneAdmin!AdminLogin(r1) /\ ~OneAdmin!Refuse(r1)
    <2> DEFINE p == account[req[r1].account].password
               new == [req[r1] EXCEPT !.step = "issue", !.since = p]
    <2>1. /\ req' = [req EXCEPT ![r1].step = "issue", ![r1].since = p]
          /\ UNCHANGED <<account, jar>> /\ req[r1].step = "check"
      BY <1>2 DEF OneAdmin!AdminLogin, OneAdmin!CheckPassword
    <2>2. p \in Nat /\ req[r1].account \in Accounts
      BY <2>1 DEF LastAdminInv, AccountRow
    <2>3. new \in OneAdmin!Request /\ new.step = "issue" /\ new.account = req[r1].account
      BY <1>0, <2>2 DEF OneAdmin!Request, OneAdmin!Steps
    <2>4. req' = [req EXCEPT ![r1] = new]
      BY <2>1 DEF LastAdminInv
    <2> HIDE DEF new, p
    <2> QED
      BY <1>0, <2>1, <2>2, <2>3, <2>4, AdminsStay
  <1>3. ASSUME NEW t \in OneAdmin!Tokens, UNCHANGED <<account, jar>>, req[r1].step # "idle",
               req' = [req EXCEPT ![r1].step = "respond", ![r1].token = t]
        PROVE  LastAdminInv'
    <2> DEFINE new == [req[r1] EXCEPT !.step = "respond", !.token = t]
    <2>1. new \in OneAdmin!Request /\ new.step = "respond" /\ new.account = req[r1].account
      BY <1>0 DEF OneAdmin!Request, OneAdmin!Steps
    <2>2. req' = [req EXCEPT ![r1] = new] /\ req[r1].account \in Accounts
      BY <1>3 DEF LastAdminInv
    <2> HIDE DEF new
    <2> QED
      BY <1>0, <1>3, <2>1, <2>2, AdminsStay
  <1>4. CASE OneAdmin!AdminIssue(r1) /\ ~OneAdmin!Refuse(r1)
    <2>1. CASE OneAdmin!IssueToken(r1)
      BY <1>3, <1>4, <2>1 DEF OneAdmin!IssueToken
    <2>2. CASE OneAdmin!SetCookie(r1)
      <3>1. jar' \in [Accounts -> OneAdmin!Tokens \cup {0}]
        BY <1>0, <2>2 DEF OneAdmin!SetCookie, OneAdmin!Request
      <3> QED
        BY <2>2, <3>1, OneAdminEnds DEF OneAdmin!SetCookie
    <2> QED
      BY <1>4, <2>1, <2>2 DEF OneAdmin!AdminIssue
  <1>5. CASE OneAdmin!AdminRefresh(r1) /\ ~OneAdmin!Refuse(r1)
    <2>1. CASE OneAdmin!FindToken(r1)
      BY <1>5, <2>1, OneAdminGoes DEF OneAdmin!FindToken, OneAdmin!Steps
    <2>2. CASE OneAdmin!RevokeFamily(r1)
      BY <1>0, <2>2, OneAdminEnds DEF OneAdmin!RevokeFamily
    <2>3. CASE OneAdmin!Rotate(r1)
      BY <1>3, <1>5, <2>3 DEF OneAdmin!Rotate
    <2> QED
      BY <1>5, <2>1, <2>2, <2>3 DEF OneAdmin!AdminRefresh
  <1>6. CASE OneAdmin!AdminLogout(r1)
    <2>1. CASE OneAdmin!RevokeToken(r1)
      BY <2>1, OneAdminGoes DEF OneAdmin!RevokeToken, OneAdmin!Steps
    <2>2. CASE OneAdmin!ClearCookie(r1)
      <3>1. jar' \in [Accounts -> OneAdmin!Tokens \cup {0}]
        BY <1>0, <2>2 DEF OneAdmin!ClearCookie
      <3> QED
        BY <2>2, <3>1, OneAdminEnds DEF OneAdmin!ClearCookie
    <2> QED
      BY <1>6, <2>1, <2>2 DEF OneAdmin!AdminLogout
  <1>7. CASE OneAdmin!CountOthers(r1) /\ ~OneAdmin!Refuse(r1)
    <2> DEFINE new == [req[r1] EXCEPT !.step = "delete"]
    <2>1. /\ req' = [req EXCEPT ![r1].step = "delete"] /\ UNCHANGED <<account, jar>>
          /\ req[r1].step = "count" /\ OneAdmin!OtherAccounts(req[r1].account) # {}
      BY <1>7 DEF OneAdmin!CountOthers, OneAdmin!Goto
    <2>2. \E b \in Accounts \ {req[r1].account} : account[b].state = "active"
      BY <2>1 DEF OneAdmin!OtherAccounts, OneAdmin!Active
    <2>3. new \in OneAdmin!Request /\ new.step = "delete" /\ new.account = req[r1].account
      BY <1>0 DEF OneAdmin!Request, OneAdmin!Steps
    <2>4. req' = [req EXCEPT ![r1] = new]
      BY <2>1 DEF LastAdminInv
    <2> HIDE DEF new
    <2>5. req' \in [{r1} -> OneAdmin!Request] /\ req'[r1] = new
      BY <2>3, <2>4 DEF LastAdminInv
    <2> QED
      BY <2>1, <2>2, <2>3, <2>5 DEF LastAdminInv
  <1>8. CASE OneAdmin!Delete(r1) /\ ~OneAdmin!Refuse(r1)
    <2> DEFINE a == req[r1].account
               new == [req[r1] EXCEPT !.step = "clear"]
    <2>1. /\ account' = [account EXCEPT ![a].state = "deleted"]
          /\ req' = [req EXCEPT ![r1].step = "clear"] /\ UNCHANGED jar
          /\ req[r1].step = "delete"
      BY <1>8 DEF OneAdmin!Delete, OneAdmin!DeleteAccount, OneAdmin!Goto
    <2>2. a \in Accounts /\ \E b \in Accounts \ {a} : account[b].state = "active"
      BY <2>1 DEF LastAdminInv
    <2>3. /\ account' \in [Accounts -> AccountRow]
          /\ \A b \in Accounts \ {a} : account'[b] = account[b]
      BY <2>1, <2>2 DEF LastAdminInv, AccountRow
    <2>4. new \in OneAdmin!Request /\ new.step = "clear" /\ new.account = a
      BY <1>0 DEF OneAdmin!Request, OneAdmin!Steps
    <2>5. req' = [req EXCEPT ![r1] = new]
      BY <2>1 DEF LastAdminInv
    <2> HIDE DEF new
    <2>6. req' \in [{r1} -> OneAdmin!Request] /\ req'[r1] = new
      BY <2>4, <2>5 DEF LastAdminInv
    <2> QED
      BY <1>0, <2>1, <2>2, <2>3, <2>4, <2>6 DEF LastAdminInv
  <1> QED
    BY <1>1, <1>2, <1>4, <1>5, <1>6, <1>7, <1>8 DEF OneAdmin!AdminProceed

LEMMA OneAdminSteps ==
    ASSUME LastAdminInv, OneAdmin!AdminsNext
    PROVE  LastAdminInv'
  <1>1. CASE OneAdmin!Fail(r1)
    BY <1>1, OneAdminEnds DEF OneAdmin!Fail, LastAdminInv
  <1>2. ASSUME NEW t \in OneAdmin!Tokens, OneAdmin!Expire(t) PROVE LastAdminInv'
    <2>1. jar' \in [Accounts -> OneAdmin!Tokens \cup {0}] /\ UNCHANGED <<account, req>>
      BY <1>2 DEF OneAdmin!Expire, LastAdminInv
    <2> QED
      BY <2>1 DEF LastAdminInv
  <1> QED
    BY <1>1, <1>2, OneAdminStarts, OneAdminProceeds DEF OneAdmin!AdminsNext

\* One request at a time, a super-admin is left, whoever deletes its account and whatever
\* is lost, if there was one to begin with (deleteAccount).
THEOREM ASuperAdminAlwaysStays ==
    ASSUME Accounts # {}
    PROVE  MCSpec => []LastSuperAdminStays
  <1> DEFINE Inv == part = "oneAdmin" => LastAdminInv
  <1>1. MCInit => Inv
    <2> SUFFICES ASSUME OneAdmin!AdminsInit PROVE LastAdminInv
      BY DEF MCInit
    <2>1. /\ account \in [Accounts -> [state : {"active"}, password : {0}]]
          /\ jar = [a \in Accounts |-> 0] /\ req = [r \in {r1} |-> OneAdmin!Idle]
      BY DEF OneAdmin!AdminsInit, OneAdmin!TokenInit
    <2>2. \A a \in Accounts : account[a] \in AccountRow /\ account[a].state = "active"
      <3> SUFFICES ASSUME NEW row \in [state : {"active"}, password : {0}]
                   PROVE  row \in AccountRow /\ row.state = "active"
        BY <2>1
      <3>1. row = [state |-> row.state, password |-> row.password]
            /\ row.state = "active" /\ row.password = 0
        OBVIOUS
      <3> QED
        BY <3>1 DEF AccountRow
    <2>3. account \in [Accounts -> AccountRow] /\ \E a \in Accounts : account[a].state = "active"
      BY <2>1, <2>2
    <2> QED
      BY <2>1, <2>3, OneAdminIdles DEF LastAdminInv
  <1>2. Inv /\ [MCNext]_<<vars, part>> => Inv'
    <2> SUFFICES ASSUME part = "oneAdmin", LastAdminInv, [MCNext]_<<vars, part>>
                 PROVE  LastAdminInv'
      BY DEF MCNext
    <2>1. CASE OneAdmin!AdminsNext
      BY <2>1, OneAdminSteps
    <2>2. CASE UNCHANGED vars
      BY <2>2 DEF vars, tokenVars, LastAdminInv
    <2> QED
      BY <2>1, <2>2 DEF MCNext
  <1>3. Inv => LastSuperAdminStays
    BY DEF LastAdminInv, LastSuperAdminStays, OneAdmin!SomeoneIsSuperAdmin, OneAdmin!Active
  <1> QED
    BY <1>1, <1>2, <1>3, PTL DEF MCSpec
================================================================================
