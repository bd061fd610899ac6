------------------------ MODULE OrganizerSessionsProofs ------------------------
(***************************************************************************)
(* Proofs about the organizers' sessions, for every set of accounts, every *)
(* number of concurrent requests, of calls and of losses.  The invariant   *)
(* and its lemmas are about the tables of tokens the three services share; *)
(* types hold whatever the browsers do, the rest of the invariant where a  *)
(* browser waits for an answer before it asks again (OneTab).              *)
(***************************************************************************)
EXTENDS OrganizerSessions, TLAPS

(***************************************************************************)
(* The invariant the three services share                                  *)
(***************************************************************************)
Busy(r) == req[r].step # "idle"

\* The steps at which a request holds a token.
Holding == {"find", "revokeFamily", "rotate", "revoke", "respond"}

\* A family has the token that founded it, and one account.
FamiliesInv ==
    \A t \in Tokens : tokens[t] # NoToken =>
        /\ tokens[t].account \in Accounts /\ tokens[t].family \in Tokens
        /\ tokens[tokens[t].family].account = tokens[t].account

JarInv == \A a \in Accounts : jar[a] # 0 => tokens[jar[a]].account = a

AccountsInv == \A a \in Accounts : account[a].state = "none" => account[a].password = 0

\* What a request may rely on about the account and the token it works for.
HandlerInv(r) ==
    /\ Busy(r) => req[r].account \in Accounts
    /\ req[r].step \in Holding =>
          req[r].token \in Tokens /\ tokens[req[r].token].account = req[r].account
    /\ req[r].step \in {"findEmail", "create"} => req[r].since = 0

\* What it may rely on besides when no other request works for its account.
AloneInv(r) ==
    /\ req[r].step = "rotate" => Unrevoked(req[r].token)
    /\ req[r].step = "issue" => req[r].since = account[req[r].account].password

OneRequestPerAccount ==
    \A r, q \in Requests :
        (r # q /\ Busy(r) /\ Busy(q)) => req[r].account # req[q].account

SessionsInv ==
    /\ TokensTypeOK /\ FamiliesInv /\ JarInv /\ AccountsInv
    /\ \A r \in Requests : HandlerInv(r)
    /\ OneTab => /\ OneRequestPerAccount
                 /\ \A r \in Requests : AloneInv(r)
                 /\ NoSessionPredatesReset

(***************************************************************************)
(* The handlers' records                                                   *)
(***************************************************************************)
LEMMA IdleIsRequest ==
    /\ Idle \in Request /\ Idle.step = "idle"
    /\ Idle.account = None /\ Idle.since = 0 /\ Idle.token = 0
  BY DEF Idle, Request, Steps

LEMMA ZeroIsNoToken == 0 \notin Tokens
  BY Bounds DEF Tokens

LEMMA NoTokenHasNoAccount == NoToken.account = None /\ NoToken.account \notin Accounts
  BY NoneIsNoAccount DEF NoToken

LEMMA GotoTypes ==
    ASSUME NEW r \in Requests, NEW s \in Steps, req \in [Requests -> Request], Goto(r, s)
    PROVE  /\ req' \in [Requests -> Request]
           /\ req'[r].step = s /\ req'[r].account = req[r].account
           /\ req'[r].token = req[r].token /\ req'[r].since = req[r].since
           /\ req'[r].op = req[r].op /\ req'[r].link = req[r].link
           /\ \A q \in Requests \ {r} : req'[q] = req[q]
  <1> DEFINE new == [req[r] EXCEPT !.step = s]
  <1>1. /\ new \in Request /\ new.step = s /\ new.account = req[r].account
        /\ new.token = req[r].token /\ new.since = req[r].since
        /\ new.op = req[r].op /\ new.link = req[r].link
    BY DEF Request
  <1>2. req' = [req EXCEPT ![r] = new]
    BY DEF Goto
  <1> HIDE DEF new
  <1> QED
    BY <1>1, <1>2

LEMMA FinishTypes ==
    ASSUME NEW r \in Requests, req \in [Requests -> Request], Finish(r)
    PROVE  /\ req' \in [Requests -> Request]
           /\ req'[r].step = "idle"
           /\ \A q \in Requests \ {r} : req'[q] = req[q]
  BY IdleIsRequest DEF Finish

\* A request that has the password of its account goes on to open a session.
LEMMA PasswordTypes ==
    ASSUME NEW r \in Requests, NEW p \in Nat, req \in [Requests -> Request],
           req' = [req EXCEPT ![r].step = "issue", ![r].since = p]
    PROVE  /\ req' \in [Requests -> Request]
           /\ req'[r].step = "issue" /\ req'[r].account = req[r].account
           /\ req'[r].since = p /\ req'[r].link = req[r].link
           /\ req'[r].op = req[r].op
           /\ \A q \in Requests \ {r} : req'[q] = req[q]
  <1> DEFINE new == [req[r] EXCEPT !.step = "issue", !.since = p]
  <1>1. /\ new \in Request /\ new.step = "issue" /\ new.account = req[r].account
        /\ new.since = p /\ new.link = req[r].link /\ new.op = req[r].op
    BY DEF Request, Steps
  <1>2. req' = [req EXCEPT ![r] = new]
    OBVIOUS
  <1> HIDE DEF new
  <1> QED
    BY <1>1, <1>2

\* A request that has just been given a token answers with it.
LEMMA RespondTypes ==
    ASSUME NEW r \in Requests, NEW t \in Tokens, req \in [Requests -> Request],
           req' = [req EXCEPT ![r].step = "respond", ![r].token = t]
    PROVE  /\ req' \in [Requests -> Request]
           /\ req'[r].step = "respond" /\ req'[r].account = req[r].account
           /\ req'[r].token = t
           /\ \A q \in Requests \ {r} : req'[q] = req[q]
  <1> DEFINE new == [req[r] EXCEPT !.step = "respond", !.token = t]
  <1>1. /\ new \in Request /\ new.step = "respond" /\ new.account = req[r].account
        /\ new.token = t
    BY DEF Request, Steps
  <1>2. req' = [req EXCEPT ![r] = new]
    OBVIOUS
  <1> HIDE DEF new
  <1> QED
    BY <1>1, <1>2

(***************************************************************************)
(* What a step of one request may change without disturbing the others.    *)
(***************************************************************************)
\* A step that leaves the tokens and the accounts alone.
LEMMA QuietKeeps ==
    ASSUME SessionsInv, NEW r \in Requests, UNCHANGED <<tokens, account>>,
           TokensTypeOK', JarInv', HandlerInv(r)', OneTab => AloneInv(r)',
           \A q \in Requests \ {r} : req'[q] = req[q],
           (OneTab /\ Busy(r)') =>
              \A q \in Requests \ {r} : Busy(q) => req[q].account # req'[r].account
    PROVE  SessionsInv' /\ UNCHANGED Stages
  <1> USE DEF SessionsInv
  <1>1. FamiliesInv' /\ AccountsInv'
    BY DEF FamiliesInv, AccountsInv
  <1>2. \A q \in Requests : HandlerInv(q)'
    <2> SUFFICES ASSUME NEW q \in Requests \ {r} PROVE HandlerInv(q)'
      OBVIOUS
    <2> QED
      BY DEF HandlerInv, Busy
  <1>3. ASSUME OneTab
        PROVE  OneRequestPerAccount' /\ NoSessionPredatesReset' /\ \A q \in Requests : AloneInv(q)'
    <2>1. OneRequestPerAccount'
      BY <1>3 DEF OneRequestPerAccount, Busy
    <2>2. NoSessionPredatesReset'
      BY <1>3 DEF NoSessionPredatesReset, Unrevoked
    <2>3. ASSUME NEW q \in Requests \ {r} PROVE AloneInv(q)'
      BY <1>3 DEF AloneInv, Unrevoked
    <2> QED
      BY <1>3, <2>1, <2>2, <2>3
  <1>4. UNCHANGED Stages
    BY DEF Stages, Stage, Family, Unrevoked
  <1> QED
    BY <1>1, <1>2, <1>3, <1>4

\* A step for one account, which writes that account and its tokens only.
LEMMA WriteKeeps ==
    ASSUME SessionsInv, NEW r \in Requests, Busy(r), NEW a \in Accounts, a = req[r].account,
           TokensTypeOK', UNCHANGED jar, HandlerInv(r)', OneTab => AloneInv(r)',
           \A q \in Requests \ {r} : req'[q] = req[q],
           Busy(r)' => req'[r].account = a,
           \A b \in Accounts \ {a} : account'[b] = account[b],
           account'[a].state = "none" => account'[a].password = 0,
           \A t \in Tokens : tokens[t] # NoToken =>
              tokens'[t].account = tokens[t].account /\ tokens'[t].family = tokens[t].family,
           \A t \in Tokens : tokens[t].account # a =>
              tokens'[t] = tokens[t] \/ (tokens[t] = NoToken /\ tokens'[t].account = a),
           \A t \in Tokens : (tokens[t] = NoToken /\ tokens'[t] # NoToken) =>
              /\ tokens'[t].account = a /\ tokens'[t].family \in Tokens
              /\ tokens'[tokens'[t].family].account = a,
           OneTab => \A t \in Tokens :
              (tokens'[t].account = a /\ Unrevoked(t)') => tokens'[t].since = account'[a].password
    PROVE  SessionsInv'
  <1> USE DEF SessionsInv
  <1>0. \A t \in Tokens : tokens[t] # NoToken => tokens'[t] # NoToken
    BY NoTokenHasNoAccount DEF FamiliesInv
  <1>1. FamiliesInv'
    <2> SUFFICES ASSUME NEW t \in Tokens, tokens'[t] # NoToken
                 PROVE  /\ tokens'[t].account \in Accounts /\ tokens'[t].family \in Tokens
                        /\ tokens'[tokens'[t].family].account = tokens'[t].account
      BY DEF FamiliesInv
    <2>1. CASE tokens[t] = NoToken
      BY <2>1
    <2>2. CASE tokens[t] # NoToken
      <3>1. /\ tokens[t].account \in Accounts /\ tokens[t].family \in Tokens
            /\ tokens[tokens[t].family].account = tokens[t].account
        BY <2>2 DEF FamiliesInv
      <3>2. tokens[tokens[t].family] # NoToken
        BY <3>1, NoTokenHasNoAccount
      <3> QED
        BY <2>2, <3>1, <3>2
    <2> QED
      BY <2>1, <2>2
  <1>2. JarInv' /\ AccountsInv'
    <2>1. JarInv'
      <3> SUFFICES ASSUME NEW b \in Accounts, jar[b] # 0 PROVE tokens'[jar[b]].account = b
        BY DEF JarInv
      <3>1. jar[b] \in Tokens /\ tokens[jar[b]].account = b
        BY DEF JarInv, TokensTypeOK
      <3>2. tokens[jar[b]] # NoToken
        BY <3>1, NoTokenHasNoAccount
      <3> QED
        BY <3>1, <3>2
    <2>2. AccountsInv'
      BY DEF AccountsInv
    <2> QED
      BY <2>1, <2>2
  <1>3. \A q \in Requests : HandlerInv(q)'
    <2> SUFFICES ASSUME NEW q \in Requests \ {r} PROVE HandlerInv(q)'
      OBVIOUS
    <2>1. HandlerInv(q) /\ req'[q] = req[q]
      OBVIOUS
    <2>2. req[q].step \in Holding => tokens[req[q].token] # NoToken
      BY <2>1, NoTokenHasNoAccount DEF HandlerInv, Holding, Busy
    <2> QED
      BY <2>1, <2>2 DEF HandlerInv, Busy
  <1>4. ASSUME OneTab
        PROVE  OneRequestPerAccount' /\ NoSessionPredatesReset' /\ \A q \in Requests : AloneInv(q)'
    <2>1. OneRequestPerAccount'
      BY <1>4 DEF OneRequestPerAccount, Busy
    <2>2. NoSessionPredatesReset'
      <3> SUFFICES ASSUME NEW t \in Tokens, Unrevoked(t)'
                   PROVE  tokens'[t].since = account'[tokens'[t].account].password
        BY DEF NoSessionPredatesReset
      <3>1. CASE tokens'[t].account = a
        BY <1>4, <3>1
      <3>2. CASE tokens'[t].account # a
        <4>1. tokens'[t] = tokens[t] /\ tokens[t].account # a
          BY <3>2, NoTokenHasNoAccount
        <4>2. Unrevoked(t)
          BY <4>1 DEF Unrevoked
        <4>3. tokens[t] # NoToken
          BY <4>2 DEF Unrevoked, NoToken
        <4>4. tokens[t].account \in Accounts
          BY <4>3 DEF FamiliesInv
        <4> QED
          BY <1>4, <4>1, <4>2, <4>4 DEF NoSessionPredatesReset
      <3> QED
        BY <3>1, <3>2
    <2>3. ASSUME NEW q \in Requests \ {r} PROVE AloneInv(q)'
      <3>1. HandlerInv(q) /\ AloneInv(q) /\ req'[q] = req[q]
        BY <1>4
      <3>2. Busy(q) => req[q].account \in Accounts \ {a}
        BY <1>4, <3>1 DEF OneRequestPerAccount, HandlerInv
      <3>3. CASE req[q].step = "rotate"
        <4>1. req[q].token \in Tokens /\ tokens[req[q].token].account \in Accounts \ {a}
          BY <3>1, <3>2, <3>3 DEF HandlerInv, Holding, Busy
        <4>2. tokens'[req[q].token] = tokens[req[q].token]
          BY <4>1, NoTokenHasNoAccount
        <4> QED
          BY <3>1, <3>3, <4>2 DEF AloneInv, Unrevoked
      <3>4. CASE req[q].step = "issue"
        BY <3>1, <3>2, <3>4 DEF AloneInv, Busy
      <3> QED
        BY <3>1, <3>3, <3>4 DEF AloneInv
    <2> QED
      BY <1>4, <2>1, <2>2, <2>3
  <1> QED
    BY <1>1, <1>2, <1>3, <1>4

\* What every step keeps, and shows of the sessions' lives.
Keeps == SessionsInv' /\ (OneTab => Life!Next \/ UNCHANGED Stages)

(***************************************************************************)
(* The ways a handler's step ends                                          *)
(***************************************************************************)
LEMMA GotoKeeps ==
    ASSUME SessionsInv, NEW r \in Requests, NEW s \in Steps \ {"idle"}, Busy(r), Goto(r, s),
           UNCHANGED <<account, tokens, jar, calls, failures>>,
           s \in Holding => req[r].step \in Holding,
           s \in {"findEmail", "create"} => req[r].since = 0,
           OneTab => /\ s = "rotate" => Unrevoked(req[r].token)
                     /\ s = "issue" => req[r].since = account[req[r].account].password
    PROVE  Keeps
  <1>1. /\ req' \in [Requests -> Request]
        /\ req'[r].step = s /\ req'[r].account = req[r].account
        /\ req'[r].token = req[r].token /\ req'[r].since = req[r].since
        /\ \A q \in Requests \ {r} : req'[q] = req[q]
    BY GotoTypes DEF SessionsInv, TokensTypeOK
  <1>2. TokensTypeOK' /\ JarInv'
    BY <1>1 DEF SessionsInv, TokensTypeOK, JarInv
  <1>3. HandlerInv(r)'
    BY <1>1 DEF SessionsInv, HandlerInv, Busy
  <1>4. OneTab => AloneInv(r)'
    BY <1>1 DEF AloneInv, Unrevoked
  <1>5. ASSUME OneTab, NEW q \in Requests \ {r}, Busy(q)
        PROVE  req[q].account # req'[r].account
    BY <1>1, <1>5 DEF SessionsInv, OneRequestPerAccount
  <1>6. SessionsInv' /\ UNCHANGED Stages
    BY <1>1, <1>2, <1>3, <1>4, <1>5, QuietKeeps
  <1> QED
    BY <1>6 DEF Keeps

LEMMA FinishKeeps ==
    ASSUME SessionsInv, NEW r \in Requests, Finish(r), UNCHANGED <<account, tokens>>,
           jar' \in [Accounts -> Tokens \cup {0}], calls' \in Nat, failures' \in Nat,
           \A a \in Accounts : jar'[a] \notin {0, jar[a]} => tokens[jar'[a]].account = a
    PROVE  Keeps
  <1>1. /\ req' \in [Requests -> Request]
        /\ req'[r].step = "idle"
        /\ \A q \in Requests \ {r} : req'[q] = req[q]
    BY FinishTypes DEF SessionsInv, TokensTypeOK
  <1>2. TokensTypeOK'
    BY <1>1 DEF SessionsInv, TokensTypeOK
  <1>3. JarInv'
    BY DEF SessionsInv, JarInv
  <1>4. HandlerInv(r)' /\ AloneInv(r)' /\ ~Busy(r)'
    BY <1>1 DEF HandlerInv, AloneInv, Busy, Holding
  <1>5. SessionsInv' /\ UNCHANGED Stages
    BY <1>1, <1>2, <1>3, <1>4, QuietKeeps
  <1> QED
    BY <1>5 DEF Keeps

LEMMA RefuseKeeps ==
    ASSUME SessionsInv, NEW r \in Requests, Refuse(r)
    PROVE  Keeps
  BY FinishKeeps DEF Refuse, SessionsInv, TokensTypeOK

LEMMA AcceptKeeps ==
    ASSUME SessionsInv, NEW r \in Requests, NEW state \in Request, Accept(r, state),
           state.step \notin {"idle", "rotate", "issue"}, state.account \in Accounts,
           state.since = 0,
           state.step \in Holding =>
              state.token \in Tokens /\ tokens[state.token].account = state.account
    PROVE  Keeps
  <1>1. /\ req' \in [Requests -> Request] /\ req'[r] = state
        /\ \A q \in Requests \ {r} : req'[q] = req[q]
    BY DEF Accept, SessionsInv, TokensTypeOK
  <1>2. TokensTypeOK' /\ JarInv'
    BY <1>1 DEF SessionsInv, TokensTypeOK, JarInv, Accept, Spend
  <1>3. HandlerInv(r)' /\ AloneInv(r)'
    BY <1>1 DEF HandlerInv, AloneInv, Accept
  <1>4. ASSUME OneTab, NEW q \in Requests \ {r}, Busy(q)
        PROVE  req[q].account # req'[r].account
    BY <1>1, <1>4 DEF Accept
  <1>5. SessionsInv' /\ UNCHANGED Stages
    BY <1>1, <1>2, <1>3, <1>4, QuietKeeps DEF Accept
  <1> QED
    BY <1>5 DEF Keeps

(***************************************************************************)
(* The sessions' lives                                                     *)
(***************************************************************************)
\* Revoking tokens ends the sessions they were the last of.
LEMMA LifeShrinks ==
    ASSUME \A t \in Tokens : tokens'[t].family = tokens[t].family,
           \A t \in Tokens : Unrevoked(t)' => Unrevoked(t)
    PROVE  Life!Next
  <1> DEFINE ending == {f \in Tokens : Stage(f) = "open" /\ Stage(f)' = "ended"}
  <1>1. ASSUME NEW f \in Tokens
        PROVE  Stage(f)' = IF f \in ending THEN "ended" ELSE Stage(f)
    <2>1. Family(f)' = Family(f)
      BY DEF Family
    <2>2. \A t \in Family(f) : Unrevoked(t)' => Unrevoked(t)
      BY DEF Family
    <2>3. CASE \E t \in Family(f) : Unrevoked(t)'
      BY <2>1, <2>2, <2>3 DEF Stage
    <2>4. CASE \A t \in Family(f) : ~Unrevoked(t)'
      BY <2>1, <2>4 DEF Stage
    <2> QED
      BY <2>3, <2>4
  <1>2. Stages' = [f \in Tokens |-> IF f \in ending THEN "ended" ELSE Stages[f]]
    BY <1>1 DEF Stages
  <1>3. \A f \in ending : Stages[f] = "open"
    BY DEF Stages
  <1>4. Life!End(ending)
    BY <1>2, <1>3 DEF Life!End
  <1>5. ending \in SUBSET Tokens
    OBVIOUS
  <1> HIDE DEF ending
  <1> QED
    BY <1>4, <1>5 DEF Life!Next

\* A login founds a family that nothing has belonged to.
LEMMA LifeBegins ==
    ASSUME TokensTypeOK, FamiliesInv, NEW t \in Tokens, Fresh(t), NEW row,
           row.family = t, row.status = "valid", tokens' = [tokens EXCEPT ![t] = row]
    PROVE  Life!Next
  <1> USE DEF TokensTypeOK
  <1>1. tokens'[t] = row /\ \A u \in Tokens \ {t} : tokens'[u] = tokens[u]
    OBVIOUS
  <1>2. \A u \in Tokens : tokens[u].family # t
    <2> SUFFICES ASSUME NEW u \in Tokens, tokens[u].family = t PROVE FALSE
      OBVIOUS
    <2>1. tokens[u] # NoToken
      BY ZeroIsNoToken DEF NoToken
    <2>2. tokens[t].account \in Accounts
      BY <2>1 DEF FamiliesInv
    <2> QED
      BY <2>2, NoTokenHasNoAccount DEF Fresh
  <1>3. Stage(t) = "none"
    BY <1>2 DEF Stage, Family
  <1>4. Stage(t)' = "open"
    BY <1>1 DEF Stage, Family, Unrevoked
  <1>5. ASSUME NEW f \in Tokens \ {t} PROVE Stage(f)' = Stage(f)
    <2>1. Family(f)' = Family(f)
      BY <1>1, <1>2, ZeroIsNoToken DEF Family, Fresh, NoToken
    <2>2. \A u \in Family(f) : u # t /\ tokens'[u] = tokens[u]
      BY <2>1, <1>1 DEF Family
    <2> QED
      BY <2>1, <2>2 DEF Stage, Unrevoked
  <1>6. Stages[t] = "none" /\ Stages' = [Stages EXCEPT ![t] = "open"]
    BY <1>3, <1>4, <1>5 DEF Stages
  <1> QED
    BY <1>6 DEF Life!Next, Life!Begin

\* An exchange leaves the session open: one unrevoked token for another.
LEMMA LifeRotates ==
    ASSUME NEW u \in Tokens, NEW t \in Tokens, u # t, Unrevoked(u),
           tokens[t].family \notin Tokens,
           tokens'[t].family = tokens[u].family, tokens'[t].status = "valid",
           tokens'[u].family = tokens[u].family,
           \A v \in Tokens \ {t, u} : tokens'[v] = tokens[v]
    PROVE  UNCHANGED Stages
  <1>1. ASSUME NEW f \in Tokens, tokens[u].family = f PROVE Stage(f)' = Stage(f)
    <2>1. u \in Family(f) /\ t \in Family(f)' /\ Unrevoked(t)'
      BY <1>1 DEF Family, Unrevoked
    <2>2. Stage(f) = "open"
      BY <2>1 DEF Stage
    <2>3. Stage(f)' = "open"
      BY <2>1 DEF Stage
    <2> QED
      BY <2>2, <2>3
  <1>2. ASSUME NEW f \in Tokens, tokens[u].family # f PROVE Stage(f)' = Stage(f)
    <2>1. Family(f)' = Family(f)
      BY <1>2 DEF Family
    <2>2. \A v \in Family(f) : tokens'[v] = tokens[v]
      BY <1>2 DEF Family
    <2> QED
      BY <2>1, <2>2 DEF Stage, Unrevoked
  <1> QED
    BY <1>1, <1>2 DEF Stages

(***************************************************************************)
(* The actions on tokens                                                   *)
(***************************************************************************)
LEMMA LoginStarts ==
    ASSUME SessionsInv, NEW r \in Requests, StartLogin(r)
    PROVE  Keeps
  <1> PICK a \in Accounts :
        Accept(r, [Idle EXCEPT !.op = "login", !.step = "check", !.account = a])
    BY DEF StartLogin
  <1> DEFINE new == [Idle EXCEPT !.op = "login", !.step = "check", !.account = a]
  <1>1. /\ new \in Request /\ new.step = "check" /\ new.account = a /\ new.since = 0
    BY DEF Accept, Spend, Idle, Request, Steps
  <1>2. Accept(r, new)
    OBVIOUS
  <1> HIDE DEF new
  <1> QED
    BY <1>1, <1>2, AcceptKeeps DEF Holding

LEMMA RefreshStarts ==
    ASSUME SessionsInv, NEW r \in Requests, StartRefresh(r)
    PROVE  Keeps
  <1> PICK a \in Accounts :
        /\ jar[a] # 0
        /\ Accept(r, [Idle EXCEPT !.op = "refresh", !.step = "find", !.account = a,
                                  !.token = jar[a]])
    BY DEF StartRefresh
  <1> DEFINE new == [Idle EXCEPT !.op = "refresh", !.step = "find", !.account = a,
                                 !.token = jar[a]]
  <1>0. jar[a] \in Tokens /\ tokens[jar[a]].account = a
    BY DEF SessionsInv, TokensTypeOK, JarInv
  <1>1. /\ new \in Request /\ new.step = "find" /\ new.account = a /\ new.since = 0
        /\ new.token = jar[a]
    BY <1>0 DEF Accept, Spend, Idle, Request, Steps
  <1>2. Accept(r, new)
    OBVIOUS
  <1> HIDE DEF new
  <1> QED
    BY <1>0, <1>1, <1>2, AcceptKeeps

LEMMA LogoutStarts ==
    ASSUME SessionsInv, NEW r \in Requests, StartLogout(r)
    PROVE  Keeps
  <1> PICK a \in Accounts :
        Accept(r, [Idle EXCEPT !.op = "logout", !.account = a, !.token = jar[a],
                               !.step = IF jar[a] = 0 THEN "clear" ELSE "revoke"])
    BY DEF StartLogout
  <1> DEFINE new == [Idle EXCEPT !.op = "logout", !.account = a, !.token = jar[a],
                                 !.step = IF jar[a] = 0 THEN "clear" ELSE "revoke"]
  <1>0. jar[a] \in Tokens \cup {0} /\ (jar[a] # 0 => tokens[jar[a]].account = a)
    BY DEF SessionsInv, TokensTypeOK, JarInv
  <1>1. /\ new \in Request /\ new.step = (IF jar[a] = 0 THEN "clear" ELSE "revoke")
        /\ new.account = a /\ new.since = 0 /\ new.token = jar[a]
    BY <1>0 DEF Accept, Spend, Idle, Request, Steps
  <1>2. Accept(r, new)
    OBVIOUS
  <1> HIDE DEF new
  <1> QED
    BY <1>0, <1>1, <1>2, AcceptKeeps DEF Holding

LEMMA SessionStarts ==
    ASSUME SessionsInv, NEW r \in Requests, StartSession(r)
    PROVE  Keeps
  BY LoginStarts, RefreshStarts, LogoutStarts DEF StartSession

\* A request that has the password of its account is about to open a session.
LEMMA PasswordKeeps ==
    ASSUME SessionsInv, NEW r \in Requests, Busy(r),
           req' = [req EXCEPT ![r].step = "issue",
                              ![r].since = account[req[r].account].password],
           UNCHANGED <<account, tokens, jar, calls, failures>>
    PROVE  Keeps
  <1> DEFINE a == req[r].account
  <1>1. a \in Accounts /\ account[a].password \in Nat
    BY DEF SessionsInv, HandlerInv, TokensTypeOK, AccountRow
  <1>2. /\ req' \in [Requests -> Request]
        /\ req'[r].step = "issue" /\ req'[r].account = a
        /\ req'[r].since = account[a].password
        /\ \A q \in Requests \ {r} : req'[q] = req[q]
    BY <1>1, PasswordTypes DEF SessionsInv, TokensTypeOK
  <1>3. TokensTypeOK' /\ JarInv'
    BY <1>2 DEF SessionsInv, TokensTypeOK, JarInv
  <1>4. HandlerInv(r)' /\ AloneInv(r)'
    BY <1>1, <1>2 DEF HandlerInv, AloneInv, Busy, Holding
  <1>5. ASSUME OneTab, NEW q \in Requests \ {r}, Busy(q)
        PROVE  req[q].account # req'[r].account
    BY <1>1, <1>2, <1>5 DEF SessionsInv, OneRequestPerAccount
  <1>6. SessionsInv' /\ UNCHANGED Stages
    BY <1>2, <1>3, <1>4, <1>5, QuietKeeps
  <1> QED
    BY <1>6 DEF Keeps

LEMMA PasswordChecked ==
    ASSUME SessionsInv, NEW r \in Requests, NEW allowed, CheckPassword(r, allowed)
    PROVE  Keeps
  BY PasswordKeeps, RefuseKeeps DEF CheckPassword, Busy

LEMMA CookieSet ==
    ASSUME SessionsInv, NEW r \in Requests, SetCookie(r)
    PROVE  Keeps
  <1>1. /\ req[r].account \in Accounts /\ req[r].token \in Tokens
        /\ tokens[req[r].token].account = req[r].account
    BY DEF SetCookie, SessionsInv, HandlerInv, Busy, Holding
  <1>2. jar' \in [Accounts -> Tokens \cup {0}]
    BY <1>1 DEF SetCookie, SessionsInv, TokensTypeOK
  <1>3. ASSUME NEW a \in Accounts, jar'[a] \notin {0, jar[a]} PROVE tokens[jar'[a]].account = a
    BY <1>1, <1>3 DEF SetCookie, SessionsInv, TokensTypeOK
  <1> QED
    BY <1>2, <1>3, FinishKeeps DEF SetCookie, SessionsInv, TokensTypeOK

LEMMA CookieCleared ==
    ASSUME SessionsInv, NEW r \in Requests, ClearCookie(r)
    PROVE  Keeps
  <1>1. jar' \in [Accounts -> Tokens \cup {0}]
    BY DEF ClearCookie, SessionsInv, TokensTypeOK
  <1>2. \A a \in Accounts : jar'[a] \in {0, jar[a]}
    BY DEF ClearCookie, SessionsInv, TokensTypeOK
  <1> QED
    BY <1>1, <1>2, FinishKeeps DEF ClearCookie, SessionsInv, TokensTypeOK

LEMMA TokenFound ==
    ASSUME SessionsInv, NEW r \in Requests, FindToken(r)
    PROVE  Keeps
  <1>1. CASE Refuse(r)
    BY <1>1, RefuseKeeps
  <1>2. CASE /\ tokens[req[r].token].status = "revoked" /\ Goto(r, "revokeFamily")
             /\ UNCHANGED <<account, tokens, jar, calls, failures>>
    BY <1>2, GotoKeeps DEF FindToken, Busy, Holding, Steps
  <1>3. CASE /\ tokens[req[r].token].status = "valid" /\ Goto(r, "rotate")
             /\ UNCHANGED <<account, tokens, jar, calls, failures>>
    BY <1>3, GotoKeeps DEF FindToken, Busy, Holding, Steps, Unrevoked
  <1> QED
    BY <1>1, <1>2, <1>3 DEF FindToken

LEMMA RequestLost ==
    ASSUME SessionsInv, NEW r \in Requests, Fail(r)
    PROVE  Keeps
  BY FinishKeeps DEF Fail, SessionsInv, TokensTypeOK

\* What revoking tokens writes.
LEMMA RevokeTypes ==
    ASSUME tokens \in [Tokens -> TokenRow], NEW revoked \in SUBSET Tokens, RevokeAll(revoked)
    PROVE  /\ tokens' \in [Tokens -> TokenRow]
           /\ \A t \in Tokens :
                 /\ tokens'[t].account = tokens[t].account
                 /\ tokens'[t].family = tokens[t].family
                 /\ tokens'[t].since = tokens[t].since
                 /\ tokens'[t].link = tokens[t].link
                 /\ Unrevoked(t)' => Unrevoked(t) /\ t \notin revoked
                 /\ (t \notin revoked \/ tokens[t] = NoToken) => tokens'[t] = tokens[t]
  <1>1. ASSUME NEW t \in Tokens
        PROVE  LET new == [tokens[t] EXCEPT !.status = "revoked"] IN
               /\ new \in TokenRow /\ new.status = "revoked"
               /\ new.account = tokens[t].account /\ new.family = tokens[t].family
               /\ new.since = tokens[t].since /\ new.link = tokens[t].link
    BY DEF TokenRow
  <1>2. ASSUME NEW t \in Tokens, t \in revoked, Unrevoked(t)
        PROVE  tokens'[t] = [tokens[t] EXCEPT !.status = "revoked"] /\ tokens[t] # NoToken
    BY <1>2 DEF RevokeAll, Unrevoked, NoToken
  <1>3. ASSUME NEW t \in Tokens, ~(t \in revoked /\ Unrevoked(t))
        PROVE  tokens'[t] = tokens[t]
    BY <1>3 DEF RevokeAll
  <1>4. ASSUME NEW t \in Tokens PROVE tokens'[t] \in TokenRow
    BY <1>1, <1>2, <1>3
  <1>5. tokens' = [t \in Tokens |-> tokens'[t]]
    BY DEF RevokeAll
  <1>6. tokens' \in [Tokens -> TokenRow]
    BY <1>4, <1>5
  <1>7. ASSUME NEW t \in Tokens
        PROVE  /\ tokens'[t].account = tokens[t].account
               /\ tokens'[t].family = tokens[t].family
               /\ tokens'[t].since = tokens[t].since
               /\ tokens'[t].link = tokens[t].link
               /\ Unrevoked(t)' => Unrevoked(t) /\ t \notin revoked
               /\ (t \notin revoked \/ tokens[t] = NoToken) => tokens'[t] = tokens[t]
    <2>1. CASE t \in revoked /\ Unrevoked(t)
      BY <1>1, <1>2, <2>1 DEF Unrevoked
    <2>2. CASE ~(t \in revoked /\ Unrevoked(t))
      BY <1>3, <2>2 DEF Unrevoked
    <2> QED
      BY <2>1, <2>2
  <1> QED
    BY <1>6, <1>7

\* Revoking tokens of the account a request is for, which goes on or ends.
LEMMA RevokeKeeps ==
    ASSUME SessionsInv, NEW r \in Requests, Busy(r), NEW revoked \in SUBSET Tokens,
           \A t \in revoked : tokens[t].account = req[r].account,
           RevokeAll(revoked), Goto(r, "clear") \/ Finish(r),
           UNCHANGED <<account, jar, calls, failures>>
    PROVE  Keeps
  <1> DEFINE a == req[r].account
  <1>1. a \in Accounts
    BY DEF SessionsInv, HandlerInv
  <1>2. /\ tokens' \in [Tokens -> TokenRow]
        /\ \A t \in Tokens :
              /\ tokens'[t].account = tokens[t].account
              /\ tokens'[t].family = tokens[t].family
              /\ tokens'[t].since = tokens[t].since
              /\ Unrevoked(t)' => Unrevoked(t)
              /\ (t \notin revoked \/ tokens[t] = NoToken) => tokens'[t] = tokens[t]
    BY RevokeTypes DEF SessionsInv, TokensTypeOK
  <1>3. /\ req' \in [Requests -> Request]
        /\ req'[r].step = "idle" \/ (req'[r].step = "clear" /\ req'[r].account = a)
        /\ \A q \in Requests \ {r} : req'[q] = req[q]
    BY GotoTypes, FinishTypes DEF SessionsInv, TokensTypeOK, Steps
  <1>4. TokensTypeOK'
    BY <1>2, <1>3 DEF SessionsInv, TokensTypeOK
  <1>5. HandlerInv(r)' /\ AloneInv(r)' /\ (Busy(r)' => req'[r].account = a)
    BY <1>1, <1>3 DEF HandlerInv, AloneInv, Busy, Holding
  <1>6. account'[a].state = "none" => account'[a].password = 0
    BY <1>1 DEF SessionsInv, AccountsInv
  <1>7. ASSUME OneTab, NEW t \in Tokens, tokens'[t].account = a, Unrevoked(t)'
        PROVE  tokens'[t].since = account'[a].password
    BY <1>2, <1>7 DEF SessionsInv, NoSessionPredatesReset
  <1>8. SessionsInv'
    <2>1. \A t \in Tokens : tokens[t].account # a =>
             tokens'[t] = tokens[t] \/ (tokens[t] = NoToken /\ tokens'[t].account = a)
      BY <1>2
    <2>2. \A t \in Tokens : tokens[t] = NoToken => tokens'[t] = NoToken
      BY <1>2
    <2> HIDE DEF a
    <2> QED
      BY <1>1, <1>2, <1>3, <1>4, <1>5, <1>6, <1>7, <2>1, <2>2, WriteKeeps DEF a
  <1>9. Life!Next
    BY <1>2, LifeShrinks
  <1> QED
    BY <1>8, <1>9 DEF Keeps

\* The tokens of a family are of one account.
LEMMA FamilyHasOneAccount ==
    ASSUME SessionsInv, NEW u \in Tokens, tokens[u].account \in Accounts,
           NEW t \in Family(tokens[u].family)
    PROVE  tokens[t].account = tokens[u].account
  <1>1. tokens[u] # NoToken /\ tokens[u].family \in Tokens
    BY NoTokenHasNoAccount DEF SessionsInv, FamiliesInv
  <1>2. tokens[t] # NoToken
    BY <1>1, ZeroIsNoToken DEF Family, NoToken
  <1> QED
    BY <1>1, <1>2 DEF SessionsInv, FamiliesInv, Family

LEMMA FamilyRevoked ==
    ASSUME SessionsInv, NEW r \in Requests, RevokeFamily(r)
    PROVE  Keeps
  <1> DEFINE u == req[r].token
  <1>1. Busy(r) /\ u \in Tokens /\ tokens[u].account = req[r].account /\ req[r].account \in Accounts
    BY DEF RevokeFamily, SessionsInv, HandlerInv, Busy, Holding
  <1>2. \A t \in Family(tokens[u].family) : tokens[t].account = req[r].account
    BY <1>1, FamilyHasOneAccount
  <1>3. Family(tokens[u].family) \in SUBSET Tokens
    BY DEF Family
  <1> QED
    BY <1>1, <1>2, <1>3, RevokeKeeps DEF RevokeFamily

LEMMA TokenRevoked ==
    ASSUME SessionsInv, NEW r \in Requests, RevokeToken(r)
    PROVE  Keeps
  <1>1. /\ Busy(r) /\ req[r].token \in Tokens
        /\ tokens[req[r].token].account = req[r].account
    BY DEF RevokeToken, SessionsInv, HandlerInv, Busy, Holding
  <1>2. {req[r].token} \in SUBSET Tokens
    BY <1>1
  <1> QED
    BY <1>1, <1>2, RevokeKeeps DEF RevokeToken

LEMMA TokenIssued ==
    ASSUME SessionsInv, NEW r \in Requests, IssueToken(r)
    PROVE  Keeps
  <1> DEFINE a == req[r].account
             row(t) == [account |-> a, family |-> t, status |-> "valid",
                        since |-> req[r].since, link |-> req[r].link]
  <1>1. CASE Refuse(r)
    BY <1>1, RefuseKeeps
  <1>2. ASSUME NEW t \in Tokens, req[r].step = "issue", Fresh(t),
               tokens' = [tokens EXCEPT ![t] = row(t)],
               req' = [req EXCEPT ![r].step = "respond", ![r].token = t],
               UNCHANGED <<account, jar, calls, failures>>
        PROVE  Keeps
    <2>1. a \in Accounts /\ Busy(r) /\ tokens[t] = NoToken
      BY <1>2 DEF SessionsInv, HandlerInv, Busy, Fresh
    <2>2. /\ row(t) \in TokenRow /\ row(t).account = a /\ row(t).family = t
          /\ row(t).status = "valid" /\ row(t).since = req[r].since
      BY <2>1 DEF TokenRow, SessionsInv, TokensTypeOK, Request
    <2> HIDE DEF row
    <2>3. tokens'[t] = row(t) /\ \A u \in Tokens \ {t} : tokens'[u] = tokens[u]
      BY <1>2 DEF SessionsInv, TokensTypeOK
    <2>4. /\ req' \in [Requests -> Request] /\ req'[r].step = "respond"
          /\ req'[r].account = a /\ req'[r].token = t
          /\ \A q \in Requests \ {r} : req'[q] = req[q]
      BY <1>2, RespondTypes DEF SessionsInv, TokensTypeOK
    <2>5. TokensTypeOK'
      BY <1>2, <2>2, <2>4 DEF SessionsInv, TokensTypeOK
    <2>6. HandlerInv(r)' /\ AloneInv(r)'
      BY <2>1, <2>2, <2>3, <2>4 DEF HandlerInv, AloneInv, Busy, Holding
    <2>7. account'[a].state = "none" => account'[a].password = 0
      BY <1>2, <2>1 DEF SessionsInv, AccountsInv
    <2>8. ASSUME OneTab, NEW u \in Tokens, tokens'[u].account = a, Unrevoked(u)'
          PROVE  tokens'[u].since = account'[a].password
      <3>1. CASE u = t
        BY <1>2, <2>2, <2>3, <2>8, <3>1 DEF SessionsInv, AloneInv
      <3>2. CASE u # t
        BY <1>2, <2>3, <2>8, <3>2 DEF SessionsInv, NoSessionPredatesReset, Unrevoked
      <3> QED
        BY <3>1, <3>2
    <2>9. /\ \A u \in Tokens : tokens[u] # NoToken =>
                tokens'[u].account = tokens[u].account /\ tokens'[u].family = tokens[u].family
          /\ \A u \in Tokens : tokens[u].account # a =>
                tokens'[u] = tokens[u] \/ (tokens[u] = NoToken /\ tokens'[u].account = a)
          /\ \A u \in Tokens : (tokens[u] = NoToken /\ tokens'[u] # NoToken) =>
                /\ tokens'[u].account = a /\ tokens'[u].family \in Tokens
                /\ tokens'[tokens'[u].family].account = a
      BY <2>1, <2>2, <2>3
    <2>10. SessionsInv'
      <3> HIDE DEF a
      <3> QED
        BY <1>2, <2>1, <2>4, <2>5, <2>6, <2>7, <2>8, <2>9, WriteKeeps DEF a
    <2>11. Life!Next
      BY <1>2, <2>2, LifeBegins DEF SessionsInv
    <2> QED
      BY <2>10, <2>11 DEF Keeps
  <1> QED
    BY <1>1, <1>2 DEF IssueToken

LEMMA TokenRotated ==
    ASSUME SessionsInv, NEW r \in Requests, Rotate(r)
    PROVE  Keeps
  <1> DEFINE a == req[r].account
             u == req[r].token
             new == [tokens[u] EXCEPT !.status = "valid"]
             old == [tokens[u] EXCEPT !.status = "revoked"]
  <1>1. CASE Refuse(r)
    BY <1>1, RefuseKeeps
  <1>2. ASSUME NEW t \in Tokens, req[r].step = "rotate", Fresh(t),
               tokens' = [tokens EXCEPT ![t] = new, ![u].status = "revoked"],
               req' = [req EXCEPT ![r].step = "respond", ![r].token = t],
               UNCHANGED <<account, jar, calls, failures>>
        PROVE  Keeps
    <2>1. /\ a \in Accounts /\ Busy(r) /\ tokens[t] = NoToken
          /\ u \in Tokens /\ tokens[u].account = a
      BY <1>2 DEF SessionsInv, HandlerInv, Busy, Holding, Fresh
    <2>2. u # t /\ tokens[u] # NoToken
      BY <2>1, NoTokenHasNoAccount
    <2>3. /\ tokens[u].family \in Tokens /\ tokens[tokens[u].family].account = a
          /\ tokens[u] \in TokenRow
      BY <2>1, <2>2 DEF SessionsInv, FamiliesInv, TokensTypeOK
    <2>4. /\ new \in TokenRow /\ new.status = "valid" /\ new.account = a
          /\ new.family = tokens[u].family /\ new.since = tokens[u].since
          /\ old \in TokenRow /\ old.status = "revoked" /\ old.account = a
          /\ old.family = tokens[u].family /\ old.since = tokens[u].since
      BY <2>1, <2>3 DEF TokenRow
    <2>5. tokens' = [tokens EXCEPT ![t] = new, ![u] = old]
      BY <1>2, <2>1, <2>2 DEF SessionsInv, TokensTypeOK
    <2> HIDE DEF new, old
    <2>6. /\ tokens'[t] = new /\ tokens'[u] = old
          /\ \A v \in Tokens \ {t, u} : tokens'[v] = tokens[v]
      BY <2>1, <2>2, <2>5 DEF SessionsInv, TokensTypeOK
    <2>7. /\ req' \in [Requests -> Request] /\ req'[r].step = "respond"
          /\ req'[r].account = a /\ req'[r].token = t
          /\ \A q \in Requests \ {r} : req'[q] = req[q]
      BY <1>2, RespondTypes DEF SessionsInv, TokensTypeOK
    <2>8. TokensTypeOK'
      BY <1>2, <2>1, <2>4, <2>5, <2>7 DEF SessionsInv, TokensTypeOK
    <2>9. HandlerInv(r)' /\ AloneInv(r)'
      BY <2>1, <2>4, <2>6, <2>7 DEF HandlerInv, AloneInv, Busy, Holding
    <2>10. account'[a].state = "none" => account'[a].password = 0
      BY <1>2, <2>1 DEF SessionsInv, AccountsInv
    <2>11. ASSUME OneTab, NEW v \in Tokens, tokens'[v].account = a, Unrevoked(v)'
           PROVE  tokens'[v].since = account'[a].password
      <3>1. CASE v = t
        <4>1. Unrevoked(u)
          BY <1>2, <2>11 DEF SessionsInv, AloneInv
        <4> QED
          BY <1>2, <2>1, <2>4, <2>6, <2>11, <3>1, <4>1 DEF SessionsInv, NoSessionPredatesReset
      <3>2. CASE v = u
        BY <2>4, <2>6, <2>11, <3>2 DEF Unrevoked
      <3>3. CASE v \notin {t, u}
        <4>1. tokens'[v] = tokens[v] /\ UNCHANGED account
          BY <1>2, <2>6, <3>3
        <4>2. Unrevoked(v) /\ tokens[v].account = a
          BY <2>11, <4>1 DEF Unrevoked
        <4> QED
          BY <2>11, <4>1, <4>2 DEF SessionsInv, NoSessionPredatesReset
      <3> QED
        BY <3>1, <3>2, <3>3
    <2>12. /\ \A v \in Tokens : tokens[v] # NoToken =>
                 tokens'[v].account = tokens[v].account /\ tokens'[v].family = tokens[v].family
           /\ \A v \in Tokens : tokens[v].account # a =>
                 tokens'[v] = tokens[v] \/ (tokens[v] = NoToken /\ tokens'[v].account = a)
           /\ \A v \in Tokens : (tokens[v] = NoToken /\ tokens'[v] # NoToken) =>
                 /\ tokens'[v].account = a /\ tokens'[v].family \in Tokens
                 /\ tokens'[tokens'[v].family].account = a
      <3>1. tokens'[tokens[u].family].account = a
        BY <2>3, <2>4, <2>6
      <3> QED
        BY <2>1, <2>2, <2>3, <2>4, <2>6, <3>1
    <2>13. SessionsInv'
      <3>1. UNCHANGED <<account, jar>>
        BY <1>2
      <3> HIDE DEF a, u
      <3>2. a = req[r].account
        BY DEF a
      <3> QED
        BY <2>1, <2>7, <2>8, <2>9, <2>10, <2>11, <2>12, <3>1, <3>2, WriteKeeps
    <2>14. ASSUME OneTab PROVE UNCHANGED Stages
      <3>1. Unrevoked(u)
        BY <1>2, <2>14 DEF SessionsInv, AloneInv
      <3>2. tokens[t].family \notin Tokens
        BY <2>1, ZeroIsNoToken DEF NoToken
      <3> HIDE DEF u
      <3> QED
        BY <2>1, <2>2, <2>4, <2>6, <3>1, <3>2, LifeRotates
    <2> QED
      BY <2>13, <2>14 DEF Keeps
  <1> QED
    BY <1>1, <1>2 DEF Rotate

\* An account goes with its tokens, and the request that deleted it clears the cookie.
LEMMA AccountDeleted ==
    ASSUME SessionsInv, NEW r \in Requests, Busy(r), DeleteAccount(req[r].account),
           Goto(r, "clear"), UNCHANGED <<jar, calls, failures>>,
           account[req[r].account].state = "active"
    PROVE  Keeps
  <1> DEFINE a == req[r].account
  <1>1. a \in Accounts
    BY DEF SessionsInv, HandlerInv
  <1>2. ASSUME NEW t \in Tokens
        PROVE  LET new == [tokens[t] EXCEPT !.status = "deleted"] IN
               /\ new \in TokenRow /\ new.status = "deleted"
               /\ new.account = tokens[t].account /\ new.family = tokens[t].family
    BY DEF TokenRow, SessionsInv, TokensTypeOK
  <1>3. ASSUME NEW t \in Tokens
        PROVE  /\ tokens'[t] \in TokenRow
               /\ tokens'[t].account = tokens[t].account
               /\ tokens'[t].family = tokens[t].family
               /\ Unrevoked(t)' => Unrevoked(t) /\ tokens[t].account # a
               /\ tokens[t].account # a => tokens'[t] = tokens[t]
    <2>1. CASE tokens[t].account = a
      BY <1>2, <2>1 DEF DeleteAccount, Unrevoked
    <2>2. CASE tokens[t].account # a
      BY <2>2 DEF DeleteAccount, Unrevoked, SessionsInv, TokensTypeOK
    <2> QED
      BY <2>1, <2>2
  <1>4. /\ account' \in [Accounts -> AccountRow] /\ account'[a].state = "deleted"
        /\ \A b \in Accounts \ {a} : account'[b] = account[b]
    BY <1>1 DEF DeleteAccount, SessionsInv, TokensTypeOK, AccountRow
  <1>5. /\ req' \in [Requests -> Request] /\ req'[r].step = "clear" /\ req'[r].account = a
        /\ \A q \in Requests \ {r} : req'[q] = req[q]
    BY GotoTypes DEF SessionsInv, TokensTypeOK, Steps
  <1>6. TokensTypeOK'
    <2>1. tokens' \in [Tokens -> TokenRow]
      BY <1>3 DEF DeleteAccount
    <2> QED
      BY <1>4, <1>5, <2>1 DEF SessionsInv, TokensTypeOK
  <1>7. HandlerInv(r)' /\ AloneInv(r)'
    BY <1>1, <1>5 DEF HandlerInv, AloneInv, Busy, Holding
  <1>8. \A t \in Tokens : tokens[t] = NoToken => tokens'[t] = NoToken
    BY <1>1, <1>3, NoTokenHasNoAccount
  <1>9. SessionsInv'
    <2>1. account'[a].state # "none"
      BY <1>4
    <2>2. \A t \in Tokens : tokens'[t].account = a => ~Unrevoked(t)'
      BY <1>3
    <2> HIDE DEF a
    <2> QED
      BY <1>1, <1>3, <1>4, <1>5, <1>6, <1>7, <1>8, <2>1, <2>2, WriteKeeps DEF a
  <1>10. Life!Next
    BY <1>3, LifeShrinks
  <1> QED
    BY <1>9, <1>10 DEF Keeps

LEMMA TokenExpires ==
    ASSUME SessionsInv, NEW t \in Tokens, Expire(t)
    PROVE  Keeps
  <1> USE DEF SessionsInv
  <1> DEFINE new == [tokens[t] EXCEPT !.status = "expired"]
  <1>1. /\ new \in TokenRow /\ new.status = "expired" /\ new.account = tokens[t].account
        /\ new.family = tokens[t].family /\ new.since = tokens[t].since
    BY DEF TokenRow, TokensTypeOK
  <1>2. tokens' = [tokens EXCEPT ![t] = new]
    BY DEF Expire
  <1> HIDE DEF new
  <1>3. tokens[t] # NoToken /\ Unrevoked(t)
    BY DEF Expire, NoToken, Unrevoked
  <1>4. ASSUME NEW u \in Tokens
        PROVE  /\ tokens'[u].account = tokens[u].account /\ tokens'[u].family = tokens[u].family
               /\ tokens'[u].since = tokens[u].since /\ (Unrevoked(u)' <=> Unrevoked(u))
               /\ tokens[u] = NoToken => tokens'[u] = NoToken
    BY <1>1, <1>2, <1>3 DEF Unrevoked, TokensTypeOK
  <1>5. /\ UNCHANGED <<account, req>>
        /\ \A a \in Accounts : jar'[a] \in {0, jar[a]}
    BY DEF Expire
  <1>6. TokensTypeOK'
    <2>1. jar' \in [Accounts -> Tokens \cup {0}]
      BY DEF Expire, TokensTypeOK
    <2>2. tokens' \in [Tokens -> TokenRow]
      BY <1>1, <1>2 DEF TokensTypeOK
    <2> QED
      BY <2>1, <2>2 DEF Expire, Spend, TokensTypeOK
  <1>7. FamiliesInv'
    BY <1>4 DEF FamiliesInv
  <1>8. JarInv' /\ AccountsInv'
    BY <1>4, <1>5 DEF JarInv, AccountsInv, TokensTypeOK
  <1>9. \A r \in Requests : HandlerInv(r)'
    BY <1>4, <1>5 DEF HandlerInv, Busy
  <1>10. ASSUME OneTab
         PROVE  OneRequestPerAccount' /\ NoSessionPredatesReset' /\ \A r \in Requests : AloneInv(r)'
    <2>1. OneRequestPerAccount'
      BY <1>5, <1>10 DEF OneRequestPerAccount, Busy
    <2>2. NoSessionPredatesReset'
      BY <1>4, <1>5, <1>10 DEF NoSessionPredatesReset
    <2>3. ASSUME NEW r \in Requests PROVE AloneInv(r)'
      BY <1>4, <1>5, <1>10 DEF AloneInv, HandlerInv, Holding
    <2> QED
      BY <2>1, <2>2, <2>3
  <1>11. SessionsInv'
    BY <1>6, <1>7, <1>8, <1>9, <1>10
  <1>12. Life!Next
    BY <1>4, LifeShrinks
  <1> QED
    BY <1>11, <1>12 DEF Keeps

LEMMA SessionProceeds ==
    ASSUME SessionsInv, NEW r \in Requests, ProceedSession(r)
    PROVE  Keeps
  BY TokenIssued, CookieSet, TokenFound, FamilyRevoked, TokenRotated, TokenRevoked,
     CookieCleared DEF ProceedSession

(***************************************************************************)
(* The actions on accounts                                                 *)
(***************************************************************************)
LEMMA CallStarts ==
    ASSUME SessionsInv, NEW r \in Requests, NEW a \in Accounts, NEW op,
           NEW s \in Steps \ ({"idle", "rotate", "issue"} \cup Holding), NEW l \in Nat,
           Accept(r, [Idle EXCEPT !.op = op, !.step = s, !.account = a, !.link = l])
    PROVE  Keeps
  <1> DEFINE new == [Idle EXCEPT !.op = op, !.step = s, !.account = a, !.link = l]
  <1>1. new.op = op /\ new.step = s /\ new.account = a /\ new.since = 0
    BY DEF Idle
  <1>2. new \in Request
    BY <1>1 DEF Accept, Spend, Idle, Request
  <1>3. Accept(r, new)
    OBVIOUS
  <1> HIDE DEF new
  <1> QED
    BY <1>1, <1>2, <1>3, AcceptKeeps

\* The account is created, and the request ends or opens a session.
LEMMA AccountCreated ==
    ASSUME SessionsInv, NEW r \in Requests, req[r].step = "create",
           account[req[r].account].state = "none",
           account' = [account EXCEPT ![req[r].account].state = "active"],
           Goto(r, "issue") \/ Finish(r), UNCHANGED <<tokens, jar, calls, failures>>
    PROVE  Keeps
  <1> DEFINE a == req[r].account
  <1>1. /\ a \in Accounts /\ Busy(r) /\ req[r].since = 0 /\ account[a].password = 0
        /\ account[a] \in AccountRow
    BY DEF SessionsInv, HandlerInv, AccountsInv, Busy, TokensTypeOK
  <1>2. /\ account' \in [Accounts -> AccountRow]
        /\ account'[a].state = "active" /\ account'[a].password = 0
        /\ \A b \in Accounts \ {a} : account'[b] = account[b]
    BY <1>1 DEF SessionsInv, TokensTypeOK, AccountRow
  <1>3. /\ req' \in [Requests -> Request]
        /\ \/ req'[r].step = "idle"
           \/ req'[r].step = "issue" /\ req'[r].account = a /\ req'[r].since = 0
        /\ \A q \in Requests \ {r} : req'[q] = req[q]
    BY <1>1, GotoTypes, FinishTypes DEF SessionsInv, TokensTypeOK, Steps
  <1>4. TokensTypeOK'
    BY <1>2, <1>3 DEF SessionsInv, TokensTypeOK
  <1>5. HandlerInv(r)' /\ AloneInv(r)' /\ (Busy(r)' => req'[r].account = a)
    BY <1>1, <1>2, <1>3 DEF HandlerInv, AloneInv, Busy, Holding
  <1>6. ASSUME OneTab, NEW t \in Tokens, tokens'[t].account = a, Unrevoked(t)'
        PROVE  tokens'[t].since = account'[a].password
    BY <1>1, <1>2, <1>6 DEF SessionsInv, NoSessionPredatesReset, Unrevoked
  <1>7. SessionsInv'
    <2> HIDE DEF a
    <2>1. a = req[r].account /\ UNCHANGED <<jar, tokens>> /\ account'[a].state # "none"
      BY <1>2 DEF a
    <2> QED
      BY <1>1, <1>2, <1>3, <1>4, <1>5, <1>6, <2>1, WriteKeeps
  <1>8. UNCHANGED Stages
    BY DEF Stages, Stage, Family, Unrevoked
  <1> QED
    BY <1>7, <1>8 DEF Keeps

\* A new password closes the sessions the old one opened.
LEMMA PasswordReset ==
    ASSUME SessionsInv, NEW r \in Requests, Busy(r), Active(req[r].account),
           account' = [account EXCEPT ![req[r].account].password = @ + 1],
           RevokeAll({t \in Tokens : tokens[t].account = req[r].account}),
           Finish(r), UNCHANGED <<jar, calls, failures>>
    PROVE  Keeps
  <1> DEFINE a == req[r].account
             revoked == {t \in Tokens : tokens[t].account = a}
  <1>1. a \in Accounts /\ account[a] \in AccountRow /\ account[a].state = "active"
    BY DEF SessionsInv, HandlerInv, TokensTypeOK, Active
  <1>2. /\ account' \in [Accounts -> AccountRow] /\ account'[a].state = "active"
        /\ \A b \in Accounts \ {a} : account'[b] = account[b]
    BY <1>1 DEF SessionsInv, TokensTypeOK, AccountRow
  <1>3. /\ tokens' \in [Tokens -> TokenRow]
        /\ \A t \in Tokens :
              /\ tokens'[t].account = tokens[t].account
              /\ tokens'[t].family = tokens[t].family
              /\ Unrevoked(t)' => Unrevoked(t) /\ t \notin revoked
              /\ (t \notin revoked \/ tokens[t] = NoToken) => tokens'[t] = tokens[t]
    BY RevokeTypes DEF SessionsInv, TokensTypeOK
  <1>4. /\ req' \in [Requests -> Request] /\ req'[r].step = "idle"
        /\ \A q \in Requests \ {r} : req'[q] = req[q]
    BY FinishTypes DEF SessionsInv, TokensTypeOK
  <1>5. TokensTypeOK'
    BY <1>2, <1>3, <1>4 DEF SessionsInv, TokensTypeOK
  <1>6. HandlerInv(r)' /\ AloneInv(r)' /\ ~Busy(r)'
    BY <1>4 DEF HandlerInv, AloneInv, Busy, Holding
  <1>7. \A t \in Tokens : tokens'[t].account = a => ~Unrevoked(t)'
    BY <1>3
  <1>8. \A t \in Tokens : tokens[t].account # a => tokens'[t] = tokens[t]
    BY <1>3
  <1>9. SessionsInv'
    <2> HIDE DEF a, revoked
    <2>1. a = req[r].account /\ UNCHANGED jar /\ account'[a].state # "none"
      BY <1>2 DEF a
    <2> QED
      BY <1>1, <1>2, <1>3, <1>4, <1>5, <1>6, <1>7, <1>8, <2>1, WriteKeeps
  <1>10. Life!Next
    BY <1>3, LifeShrinks
  <1> QED
    BY <1>9, <1>10 DEF Keeps

\* Nothing but the count of calls changes.
LEMMA OutsideKeeps ==
    ASSUME SessionsInv, UNCHANGED <<account, tokens, jar, req, failures>>, calls' \in Nat
    PROVE  Keeps
  <1>1. TokensTypeOK' /\ FamiliesInv' /\ JarInv' /\ AccountsInv'
    BY DEF SessionsInv, TokensTypeOK, FamiliesInv, JarInv, AccountsInv
  <1>2. \A r \in Requests : HandlerInv(r)'
    BY DEF SessionsInv, HandlerInv, Busy
  <1>3. ASSUME OneTab
        PROVE  OneRequestPerAccount' /\ NoSessionPredatesReset' /\ \A r \in Requests : AloneInv(r)'
    BY <1>3 DEF SessionsInv, OneRequestPerAccount, NoSessionPredatesReset, AloneInv, Busy, Unrevoked
  <1>4. UNCHANGED Stages
    BY DEF Stages, Stage, Family, Unrevoked
  <1> QED
    BY <1>1, <1>2, <1>3, <1>4 DEF Keeps, SessionsInv

(***************************************************************************)
(* The organizers' service                                                 *)
(***************************************************************************)
\* The tables of the mailed links, which only this service has.
MailsInv ==
    /\ verified \subseteq Accounts
    /\ verifyLink \in [Accounts -> Nat] /\ resetLink \in [Accounts -> Nat]
    /\ mailed \in [Accounts -> Nat]

LEMMA OrganizerCallStarts ==
    ASSUME SessionsInv, NEW r \in Requests, NEW a \in Accounts, NEW op,
           NEW s \in Steps \ ({"idle", "rotate", "issue"} \cup Holding), Call(r, a, op, s)
    PROVE  Keeps
  <1> DEFINE new == [Idle EXCEPT !.op = op, !.step = s, !.account = a]
  <1>1. new.op = op /\ new.step = s /\ new.account = a /\ new.since = 0
    BY DEF Idle
  <1>2. Accept(r, new)
    BY DEF Call
  <1>3. new \in Request
    BY <1>1, <1>2 DEF Accept, Spend, Idle, Request
  <1> HIDE DEF new
  <1> QED
    BY <1>1, <1>2, <1>3, AcceptKeeps

LEMMA OrganizerStarts ==
    ASSUME SessionsInv, MailsInv, NEW r \in Requests, Start(r)
    PROVE  Keeps /\ MailsInv'
  <1>1. MailsInv'
    BY DEF Start, StartRegister, StartVerify, StartSupportVerify, StartResend,
           StartRequestReset, StartReset, StartDelete, mailVars, MailsInv
  <1>2. CASE StartSession(r)
    BY <1>1, <1>2, SessionStarts
  <1>3. CASE StartRegister(r)
    BY <1>1, <1>3, OrganizerCallStarts DEF StartRegister, Steps, Holding
  <1>4. CASE StartSupportVerify(r) \/ StartResend(r) \/ StartRequestReset(r)
    BY <1>1, <1>4, OrganizerCallStarts
       DEF StartSupportVerify, StartResend, StartRequestReset, Steps, Holding
  <1>5. CASE StartDelete(r)
    BY <1>1, <1>5, OrganizerCallStarts DEF StartDelete, Steps, Holding
  <1>6. CASE StartVerify(r) \/ StartReset(r)
    <2>1. \A a \in Accounts : 1 .. mailed[a] \subseteq Nat
      BY DEF MailsInv
    <2> QED
      BY <1>1, <1>6, <2>1, CallStarts DEF StartVerify, StartReset, Steps, Holding
  <1> QED
    BY <1>2, <1>3, <1>4, <1>5, <1>6 DEF Start

\* A step that goes on, or that is refused.
LEMMA ContinueKeeps ==
    ASSUME SessionsInv, MailsInv, NEW r \in Requests, Busy(r),
           NEW s \in Steps \ ({"idle", "rotate", "issue", "findEmail"} \cup Holding),
           s = "create" => req[r].since = 0, Continue(r, s) \/ Reject(r)
    PROVE  Keeps /\ MailsInv'
  <1>1. MailsInv'
    BY DEF Continue, Reject, mailVars, MailsInv
  <1>2. CASE Continue(r, s)
    BY <1>1, <1>2, GotoKeeps DEF Continue
  <1>3. CASE Reject(r)
    BY <1>1, <1>3, RefuseKeeps DEF Reject
  <1> QED
    BY <1>2, <1>3

LEMMA LookupsKeep ==
    ASSUME SessionsInv, MailsInv, NEW r \in Requests,
           \/ FindEmail(r) \/ FindVerification(r) \/ FindUnverified(r) \/ FindAccount(r)
           \/ FindReset(r)
    PROVE  Keeps /\ MailsInv'
  <1>1. CASE FindEmail(r)
    <2>1. req[r].since = 0 /\ Busy(r)
      BY <1>1 DEF FindEmail, SessionsInv, HandlerInv, Busy
    <2> QED
      BY <1>1, <2>1, ContinueKeeps DEF FindEmail, Steps, Holding
  <1>2. CASE FindVerification(r) \/ FindUnverified(r) \/ FindAccount(r) \/ FindReset(r)
    BY <1>2, ContinueKeeps
       DEF FindVerification, FindUnverified, FindAccount, FindReset, Awaits, Busy, Steps, Holding
  <1> QED
    BY <1>1, <1>2

LEMMA WritesKeepMails ==
    ASSUME MailsInv, SessionsInv, NEW r \in Requests,
           \/ CreateAccount(r) \/ Verify(r) \/ SupportVerify(r) \/ Resend(r) \/ RequestReset(r)
           \/ ResetPassword(r) \/ Delete(r)
    PROVE  MailsInv'
  <1> DEFINE a == req[r].account
  <1>1. a \in Accounts
    BY DEF CreateAccount, Verify, SupportVerify, Resend, RequestReset, ResetPassword, Delete,
           Awaits, SessionsInv, HandlerInv, Busy
  <1>2. /\ verified' \subseteq verified \cup {a}
        /\ verifyLink' \in {verifyLink, [verifyLink EXCEPT ![a] = 0],
                            [verifyLink EXCEPT ![a] = mailed[a] + 1]}
        /\ resetLink' \in {resetLink, [resetLink EXCEPT ![a] = 0],
                           [resetLink EXCEPT ![a] = mailed[a] + 1]}
        /\ mailed' \in {mailed, [mailed EXCEPT ![a] = @ + 1]}
    BY DEF CreateAccount, Verify, SupportVerify, Resend, RequestReset, ResetPassword, Delete,
           Reject, mailVars
  <1> HIDE DEF a
  <1>3. mailed[a] \in Nat /\ mailed[a] + 1 \in Nat
    BY <1>1 DEF MailsInv
  <1> QED
    BY <1>1, <1>2, <1>3 DEF MailsInv

LEMMA WritesKeepSessions ==
    ASSUME SessionsInv, NEW r \in Requests,
           \/ CreateAccount(r) \/ Verify(r) \/ SupportVerify(r) \/ Resend(r) \/ RequestReset(r)
           \/ ResetPassword(r) \/ Delete(r)
    PROVE  Keeps
  <1>1. CASE Reject(r)
    BY <1>1, RefuseKeeps DEF Reject
  <1>2. CASE CreateAccount(r) /\ ~Reject(r)
    BY <1>2, AccountCreated DEF CreateAccount
  <1>3. CASE Verify(r) /\ ~Reject(r)
    BY <1>3, PasswordKeeps DEF Verify, Awaits, Busy
  <1>4. CASE (SupportVerify(r) \/ Resend(r) \/ RequestReset(r)) /\ ~Reject(r)
    BY <1>4, FinishKeeps DEF SupportVerify, Resend, RequestReset, SessionsInv, TokensTypeOK
  <1>5. CASE ResetPassword(r) /\ ~Reject(r)
    BY <1>5, PasswordReset DEF ResetPassword, Awaits, Busy
  <1>6. CASE Delete(r) /\ ~Reject(r)
    BY <1>6, AccountDeleted DEF Delete, Awaits, Busy, Active
  <1> QED
    BY <1>1, <1>2, <1>3, <1>4, <1>5, <1>6

LEMMA LinkExpires ==
    ASSUME SessionsInv, MailsInv, NEW a \in Accounts, ExpireLink(a)
    PROVE  Keeps /\ MailsInv'
  <1>1. MailsInv'
    BY DEF ExpireLink, MailsInv
  <1>2. calls' \in Nat
    BY DEF ExpireLink, Spend, SessionsInv, TokensTypeOK
  <1> QED
    BY <1>1, <1>2, OutsideKeeps DEF ExpireLink

LEMMA OrganizerProceeds ==
    ASSUME SessionsInv, MailsInv, NEW r \in Requests, Proceed(r)
    PROVE  Keeps /\ MailsInv'
  <1>1. CASE ProceedSession(r) /\ UNCHANGED mailVars
    BY <1>1, SessionProceeds DEF mailVars, MailsInv
  <1>2. CASE Login(r)
    BY <1>2, PasswordChecked DEF Login, mailVars, MailsInv
  <1> QED
    BY <1>1, <1>2, LookupsKeep, WritesKeepMails, WritesKeepSessions DEF Proceed

LEMMA TokenInitKeeps ==
    ASSUME NEW states, \A s \in states : s \in {"none", "active", "deleted"}, TokenInit(states)
    PROVE  SessionsInv /\ Life!Init
  <1>1. TokensTypeOK
    <2>1. NoToken \in TokenRow
      BY DEF NoToken, TokenRow
    <2>2. ASSUME NEW row \in [state : states, password : {0}] PROVE row \in AccountRow
      <3>1. /\ row = [state |-> row.state, password |-> row.password]
            /\ row.state \in states /\ row.password = 0
        OBVIOUS
      <3>2. row.state \in {"none", "active", "deleted"} /\ row.password \in Nat
        BY <3>1
      <3> QED
        BY <3>1, <3>2 DEF AccountRow
    <2>3. account \in [Accounts -> AccountRow]
      BY <2>2 DEF TokenInit
    <2>4. tokens \in [Tokens -> TokenRow]
      BY <2>1 DEF TokenInit
    <2>5. req \in [Requests -> Request]
      BY IdleIsRequest DEF TokenInit
    <2> QED
      BY <2>3, <2>4, <2>5, Bounds DEF TokenInit, TokensTypeOK
  <1>2. FamiliesInv /\ JarInv /\ AccountsInv
    BY DEF TokenInit, FamiliesInv, JarInv, AccountsInv
  <1>3. \A r \in Requests : req[r] = Idle
    BY DEF TokenInit
  <1>4. \A r \in Requests : HandlerInv(r) /\ AloneInv(r) /\ ~Busy(r)
    BY <1>3, IdleIsRequest DEF HandlerInv, AloneInv, Busy, Holding
  <1>5. \A t \in Tokens : tokens[t] = NoToken /\ ~Unrevoked(t)
    BY DEF TokenInit, Unrevoked, NoToken
  <1>6. OneRequestPerAccount /\ NoSessionPredatesReset
    BY <1>4, <1>5 DEF OneRequestPerAccount, NoSessionPredatesReset
  <1>7. ASSUME NEW f \in Tokens PROVE Stage(f) = "none"
    <2>1. Family(f) = {}
      BY <1>5, ZeroIsNoToken DEF Family, NoToken
    <2> QED
      BY <2>1 DEF Stage
  <1> QED
    BY <1>1, <1>2, <1>4, <1>6, <1>7 DEF SessionsInv, Life!Init, Stages

LEMMA OrganizerInit ==
    ASSUME Init
    PROVE  SessionsInv /\ MailsInv /\ Life!Init
  <1>1. SessionsInv /\ Life!Init
    BY TokenInitKeeps DEF Init
  <1>2. MailsInv
    BY DEF Init, MailsInv
  <1> QED
    BY <1>1, <1>2

LEMMA OrganizerNext ==
    ASSUME SessionsInv, MailsInv, Next
    PROVE  Keeps /\ MailsInv'
  <1>1. ASSUME NEW r \in Requests, Fail(r), UNCHANGED mailVars
        PROVE  Keeps /\ MailsInv'
    BY <1>1, RequestLost DEF mailVars, MailsInv
  <1>2. ASSUME NEW t \in Tokens, Expire(t), UNCHANGED mailVars
        PROVE  Keeps /\ MailsInv'
    BY <1>2, TokenExpires DEF mailVars, MailsInv
  <1> QED
    BY <1>1, <1>2, OrganizerStarts, OrganizerProceeds, LinkExpires DEF Next

LEMMA StutterKeeps ==
    ASSUME SessionsInv, UNCHANGED tokenVars
    PROVE  SessionsInv' /\ UNCHANGED Stages
  <1>1. /\ TokensTypeOK' /\ FamiliesInv' /\ JarInv' /\ AccountsInv'
        /\ \A r \in Requests : HandlerInv(r)'
    BY DEF tokenVars, SessionsInv, TokensTypeOK, FamiliesInv, JarInv, AccountsInv, HandlerInv, Busy
  <1>2. ASSUME OneTab
        PROVE  OneRequestPerAccount' /\ NoSessionPredatesReset' /\ \A r \in Requests : AloneInv(r)'
    BY <1>2 DEF tokenVars, SessionsInv, OneRequestPerAccount, NoSessionPredatesReset, AloneInv,
                Busy, Unrevoked
  <1>3. UNCHANGED Stages
    BY DEF tokenVars, Stages, Stage, Family, Unrevoked
  <1> QED
    BY <1>1, <1>2, <1>3 DEF SessionsInv

\* The types, and what every step keeps, of the organizers' accounts and sessions.
THEOREM SessionsHold == Spec => [](SessionsInv /\ MailsInv)
  <1>1. Init => SessionsInv /\ MailsInv
    BY OrganizerInit
  <1>2. SessionsInv /\ MailsInv /\ [Next]_vars => (SessionsInv /\ MailsInv)'
    <2>1. CASE Next
      BY <2>1, OrganizerNext DEF Keeps
    <2>2. CASE UNCHANGED vars
      BY <2>2, StutterKeeps DEF vars, mailVars, MailsInv
    <2> QED
      BY <2>1, <2>2
  <1> QED
    BY <1>1, <1>2, PTL DEF Spec

\* Every account, token, cookie and request is what its table or its handler says it may
\* be, whatever the browsers do and whatever is lost (AuthService).
THEOREM SessionTypes == Spec => []TypeOK
  <1>1. SessionsInv /\ MailsInv => TypeOK
    BY DEF SessionsInv, MailsInv, TypeOK
  <1> QED
    BY <1>1, SessionsHold, PTL

\* Where a browser waits for its answers, the sessions of an account were opened with the
\* password it has now: a reset closed the others, and none was open half-way (resetPassword).
THEOREM ResetClosesSessions ==
    ASSUME OneTab
    PROVE  Spec => []NoSessionPredatesReset
  <1>1. SessionsInv => NoSessionPredatesReset
    BY DEF SessionsInv
  <1> QED
    BY <1>1, SessionsHold, PTL

\* Where a browser waits for its answers, the tokens implement the life of a session: it
\* begins once, and nothing issues a token of it when it has ended (refresh, logout).
THEOREM TokensKeepSessionLife ==
    ASSUME OneTab
    PROVE  Spec => KeepsSessionLife
  <1>1. Init => Life!Init
    BY OrganizerInit
  <1>2. SessionsInv /\ MailsInv /\ [Next]_vars => [Life!Next]_Stages
    <2>1. CASE Next
      BY <2>1, OrganizerNext DEF Keeps
    <2>2. CASE UNCHANGED vars
      BY <2>2, StutterKeeps DEF vars
    <2> QED
      BY <2>1, <2>2
  <1> QED
    BY <1>1, <1>2, SessionsHold, PTL DEF Spec, KeepsSessionLife, Life!Spec

(***************************************************************************)
(* What a step does to the mailed links, the tokens and the requests       *)
(***************************************************************************)
\* Accounts stay verified, and a link is forgotten or replaced by a later one.
MailsGrow ==
    /\ verified \subseteq verified'
    /\ \A a \in Accounts :
          /\ mailed'[a] >= mailed[a]
          /\ \/ verifyLink'[a] \in {0, verifyLink[a]}
             \/ verifyLink'[a] > mailed[a] /\ verifyLink'[a] <= mailed'[a]

SameOrigin(t) ==
    /\ tokens'[t].account = tokens[t].account
    /\ tokens'[t].family = tokens[t].family
    /\ tokens'[t].link = tokens[t].link

\* Token t is the first of a login of request r.
Issued(r, t) ==
    /\ req[r].step = "issue" /\ req[r].account \in Accounts /\ req'[r].step = "respond"
    /\ tokens[t] = NoToken
    /\ tokens'[t].account = req[r].account /\ tokens'[t].family = t
    /\ tokens'[t].link = req[r].link
    /\ \A u \in Tokens \ {t} : tokens'[u] = tokens[u]

\* Token t replaces the one request r presented.
Exchanged(r, t) ==
    LET u == req[r].token IN
    /\ req[r].step = "rotate" /\ req'[r].step = "respond" /\ tokens[t] = NoToken
    /\ u \in Tokens /\ tokens[u].account \in Accounts
    /\ tokens'[t].account = tokens[u].account /\ tokens'[t].family = tokens[u].family
    /\ tokens'[t].link = tokens[u].link
    /\ \A v \in Tokens \ {t} : SameOrigin(v)

TokensWritten ==
    \/ \A t \in Tokens : SameOrigin(t)
    \/ \E r \in Requests, t \in Tokens : Issued(r, t) \/ Exchanged(r, t)

\* Request r is not on its way to opening a session.
Aside(r) ==
    /\ req[r].step \notin {"check", "findEmail", "create", "issue"}
    /\ ~(req[r].op = "verifyEmail" /\ req[r].step \in {"findLink", "write"})

\* Request r has just been accepted.
Comes(r) ==
    \/ req[r].step \in {"check", "findEmail"} /\ req[r].op # "verifyEmail" /\ req[r].link = 0
    \/ /\ req[r].op = "verifyEmail" /\ req[r].step = "findLink"
       /\ req[r].account \in Accounts /\ req[r].link \in 1 .. mailed[req[r].account]

\* Request r goes on, for the account and with the link it has.
Advances(r) ==
    LET a == req[r].account IN
    /\ req'[r].account = a /\ req'[r].link = req[r].link /\ req'[r].op = req[r].op
    /\ \/ req[r].step = "findEmail" /\ req'[r].step = "create"
       \/ /\ req[r].op = "verifyEmail" /\ req[r].step = "findLink" /\ req'[r].step = "write"
          /\ verifyLink[a] = req[r].link
       \/ req[r].step = "check" /\ req'[r].step = "issue" /\ a \in verified
       \/ req[r].step = "create" /\ req'[r].step = "issue" /\ req[r].op = "acceptInvitation"
       \/ /\ req[r].op = "verifyEmail" /\ req[r].step = "write" /\ req'[r].step = "issue"
          /\ a \in verified' /\ verifyLink'[a] = 0

RequestsMove ==
    \A r \in Requests : \/ req'[r] = req[r] \/ Aside(r)'
                        \/ Comes(r)' \/ (Advances(r) /\ UNCHANGED tokens)

Effects == MailsGrow /\ TokensWritten /\ RequestsMove

LEMMA QuietMails ==
    ASSUME MailsInv, UNCHANGED mailVars
    PROVE  MailsGrow
  BY DEF MailsInv, MailsGrow, mailVars

LEMMA QuietTokens ==
    ASSUME UNCHANGED tokens
    PROVE  TokensWritten
  BY DEF TokensWritten, SameOrigin

\* One request moves.
LEMMA OneMoves ==
    ASSUME NEW r \in Requests, \A q \in Requests \ {r} : req'[q] = req[q],
           Aside(r)' \/ Comes(r)'
    PROVE  RequestsMove
  <1>1. ASSUME NEW q \in Requests PROVE req'[q] = req[q] \/ Aside(q)' \/ Comes(q)'
    BY DEF Aside, Comes
  <1> QED
    BY <1>1 DEF RequestsMove

LEMMA OneAdvances ==
    ASSUME NEW r \in Requests, \A q \in Requests \ {r} : req'[q] = req[q],
           Advances(r), UNCHANGED tokens
    PROVE  RequestsMove
  <1>1. ASSUME NEW q \in Requests
        PROVE  req'[q] = req[q] \/ (Advances(q) /\ UNCHANGED tokens)
    BY DEF Advances
  <1> QED
    BY <1>1 DEF RequestsMove

LEMMA FinishSteps ==
    ASSUME SessionsInv, NEW r \in Requests, Finish(r)
    PROVE  RequestsMove
  <1>1. req'[r] = Idle /\ \A q \in Requests \ {r} : req'[q] = req[q]
    BY DEF Finish, SessionsInv, TokensTypeOK
  <1>2. Aside(r)'
    BY <1>1 DEF Aside, Idle
  <1> QED
    BY <1>1, <1>2, OneMoves

LEMMA RefuseSteps ==
    ASSUME SessionsInv, MailsInv, NEW r \in Requests, Refuse(r), UNCHANGED mailVars
    PROVE  Effects
  BY FinishSteps, QuietMails, QuietTokens DEF Refuse, Effects

LEMMA GotoAside ==
    ASSUME SessionsInv, NEW r \in Requests, NEW s \in Steps, Goto(r, s),
           s \notin {"check", "findEmail", "create", "issue"},
           req[r].op # "verifyEmail" \/ s \notin {"findLink", "write"}
    PROVE  RequestsMove
  <1>1. /\ req'[r].step = s /\ req'[r].op = req[r].op
        /\ \A q \in Requests \ {r} : req'[q] = req[q]
    BY GotoTypes DEF SessionsInv, TokensTypeOK
  <1>2. Aside(r)'
    BY <1>1 DEF Aside
  <1> QED
    BY <1>1, <1>2, OneMoves

LEMMA AcceptSteps ==
    ASSUME SessionsInv, MailsInv, NEW r \in Requests, NEW state, Accept(r, state),
           UNCHANGED mailVars,
           \/ /\ state.step \in {"check", "findEmail"} /\ state.op # "verifyEmail"
              /\ state.link = 0
           \/ /\ state.step = "findLink" /\ state.account \in Accounts
              /\ state.op = "verifyEmail" => state.link \in 1 .. mailed[state.account]
           \/ /\ state.step \notin {"check", "findEmail", "create", "issue"}
              /\ state.op # "verifyEmail"
    PROVE  Effects
  <1>1. req'[r] = state /\ \A q \in Requests \ {r} : req'[q] = req[q]
    BY DEF Accept, SessionsInv, TokensTypeOK
  <1>2. Aside(r)' \/ Comes(r)'
    BY <1>1 DEF Aside, Comes, mailVars
  <1> QED
    BY <1>1, <1>2, OneMoves, QuietMails, QuietTokens DEF Accept, Effects

(***************************************************************************)
(* The same, action by action                                              *)
(***************************************************************************)
LEMMA CallEffects ==
    ASSUME SessionsInv, MailsInv, NEW r \in Requests, NEW a \in Accounts, NEW op, NEW s,
           Call(r, a, op, s), UNCHANGED mailVars, op # "verifyEmail",
           s \notin {"create", "issue"}
    PROVE  Effects
  <1> DEFINE new == [Idle EXCEPT !.op = op, !.step = s, !.account = a]
  <1>1. new.op = op /\ new.step = s /\ new.account = a /\ new.link = 0
    BY DEF Idle
  <1>2. Accept(r, new)
    BY DEF Call
  <1> HIDE DEF new
  <1> QED
    BY <1>1, <1>2, AcceptSteps

LEMMA LinkCallEffects ==
    ASSUME SessionsInv, MailsInv, NEW r \in Requests, NEW a \in Accounts, NEW op,
           NEW l \in 1 .. mailed[a], UNCHANGED mailVars,
           Accept(r, [Idle EXCEPT !.op = op, !.step = "findLink", !.account = a, !.link = l])
    PROVE  Effects
  <1> DEFINE new == [Idle EXCEPT !.op = op, !.step = "findLink", !.account = a, !.link = l]
  <1>1. new.op = op /\ new.step = "findLink" /\ new.account = a /\ new.link = l
    BY DEF Idle
  <1>2. Accept(r, new)
    OBVIOUS
  <1> HIDE DEF new
  <1> QED
    BY <1>1, <1>2, AcceptSteps

LEMMA StartEffects ==
    ASSUME SessionsInv, MailsInv, NEW r \in Requests, Start(r)
    PROVE  Effects
  <1>1. CASE StartLogin(r) /\ UNCHANGED mailVars
    <2>1. PICK a \in Accounts : Call(r, a, "login", "check")
      BY <1>1 DEF StartLogin, Call
    <2> QED
      BY <1>1, <2>1, CallEffects
  <1>2. CASE StartRefresh(r) /\ UNCHANGED mailVars
    <2>1. PICK a \in Accounts :
            Accept(r, [Idle EXCEPT !.op = "refresh", !.step = "find", !.account = a,
                                   !.token = jar[a]])
      BY <1>2 DEF StartRefresh
    <2> DEFINE new == [Idle EXCEPT !.op = "refresh", !.step = "find", !.account = a,
                                   !.token = jar[a]]
    <2>2. new.op = "refresh" /\ new.step = "find" /\ Accept(r, new)
      BY <2>1 DEF Idle
    <2> HIDE DEF new
    <2> QED
      BY <1>2, <2>2, AcceptSteps
  <1>3. CASE StartLogout(r) /\ UNCHANGED mailVars
    <2>1. PICK a \in Accounts :
            Accept(r, [Idle EXCEPT !.op = "logout", !.account = a, !.token = jar[a],
                                   !.step = IF jar[a] = 0 THEN "clear" ELSE "revoke"])
      BY <1>3 DEF StartLogout
    <2> DEFINE new == [Idle EXCEPT !.op = "logout", !.account = a, !.token = jar[a],
                                   !.step = IF jar[a] = 0 THEN "clear" ELSE "revoke"]
    <2>2. new.op = "logout" /\ new.step \in {"clear", "revoke"} /\ Accept(r, new)
      BY <2>1 DEF Idle
    <2> HIDE DEF new
    <2> QED
      BY <1>3, <2>2, AcceptSteps
  <1>4. CASE \/ StartRegister(r) \/ StartSupportVerify(r) \/ StartResend(r)
             \/ StartRequestReset(r) \/ StartDelete(r)
    BY <1>4, CallEffects
       DEF StartRegister, StartSupportVerify, StartResend, StartRequestReset, StartDelete
  <1>5. CASE StartVerify(r) \/ StartReset(r)
    BY <1>5, LinkCallEffects DEF StartVerify, StartReset
  <1> QED
    BY <1>1, <1>2, <1>3, <1>4, <1>5 DEF Start, StartSession

\* A handler goes on to another step, and nothing else changes.
LEMMA GotoEffects ==
    ASSUME SessionsInv, MailsInv, NEW r \in Requests, NEW s \in Steps, Goto(r, s),
           UNCHANGED <<tokens, mailVars>>,
           s \notin {"check", "findEmail", "create", "issue"},
           req[r].op # "verifyEmail" \/ s \notin {"findLink", "write"}
    PROVE  Effects
  BY GotoAside, QuietMails, QuietTokens DEF Effects

LEMMA SameOriginStays ==
    ASSUME UNCHANGED mailVars, MailsInv, RequestsMove, \A t \in Tokens : SameOrigin(t)
    PROVE  Effects
  BY QuietMails DEF Effects, TokensWritten

LEMMA RevokeEffects ==
    ASSUME SessionsInv, NEW revoked \in SUBSET Tokens, RevokeAll(revoked)
    PROVE  \A t \in Tokens : SameOrigin(t)
  BY RevokeTypes DEF SameOrigin, SessionsInv, TokensTypeOK

LEMMA IssueEffects ==
    ASSUME SessionsInv, MailsInv, NEW r \in Requests, IssueToken(r), UNCHANGED mailVars
    PROVE  Effects
  <1>1. CASE Refuse(r)
    BY <1>1, RefuseSteps
  <1>2. CASE ~Refuse(r)
    <2>1. PICK t \in Tokens :
            /\ Fresh(t)
            /\ tokens' = [tokens EXCEPT ![t] =
                  [account |-> req[r].account, family |-> t, status |-> "valid",
                   since |-> req[r].since, link |-> req[r].link]]
            /\ req' = [req EXCEPT ![r].step = "respond", ![r].token = t]
      BY <1>2 DEF IssueToken
    <2>2. req'[r].step = "respond" /\ \A q \in Requests \ {r} : req'[q] = req[q]
      BY <2>1, RespondTypes DEF SessionsInv, TokensTypeOK
    <2>3. Issued(r, t)
      BY <2>1, <2>2
         DEF IssueToken, Issued, Fresh, SessionsInv, TokensTypeOK, HandlerInv, Busy
    <2>4. RequestsMove
      BY <2>2, OneMoves DEF Aside
    <2> QED
      BY <2>3, <2>4, QuietMails DEF Effects, TokensWritten
  <1> QED
    BY <1>1, <1>2

LEMMA RotateEffects ==
    ASSUME SessionsInv, MailsInv, NEW r \in Requests, Rotate(r), UNCHANGED mailVars
    PROVE  Effects
  <1> DEFINE u == req[r].token
             old == [tokens[u] EXCEPT !.status = "revoked"]
             new == [tokens[u] EXCEPT !.status = "valid"]
  <1>1. CASE Refuse(r)
    BY <1>1, RefuseSteps
  <1>2. CASE ~Refuse(r)
    <2>1. PICK t \in Tokens :
            /\ Fresh(t)
            /\ tokens' = [tokens EXCEPT ![t] = new, ![u].status = "revoked"]
            /\ req' = [req EXCEPT ![r].step = "respond", ![r].token = t]
      BY <1>2 DEF Rotate
    <2>2. /\ u \in Tokens /\ tokens[u].account \in Accounts /\ tokens[u] \in TokenRow
          /\ tokens[t] = NoToken
      BY <2>1 DEF Rotate, SessionsInv, HandlerInv, Busy, Holding, TokensTypeOK, Fresh
    <2>3. u # t
      BY <2>2, NoTokenHasNoAccount
    <2>4. /\ new.account = tokens[u].account /\ new.family = tokens[u].family
          /\ new.link = tokens[u].link
          /\ old.account = tokens[u].account /\ old.family = tokens[u].family
          /\ old.link = tokens[u].link
      BY <2>2 DEF TokenRow
    <2>5. tokens' = [tokens EXCEPT ![t] = new, ![u] = old]
      BY <2>1, <2>2, <2>3 DEF SessionsInv, TokensTypeOK
    <2> HIDE DEF new, old
    <2>6. /\ tokens'[t] = new /\ tokens'[u] = old
          /\ \A v \in Tokens \ {t, u} : tokens'[v] = tokens[v]
      BY <2>2, <2>3, <2>5 DEF SessionsInv, TokensTypeOK
    <2>7. req'[r].step = "respond" /\ \A q \in Requests \ {r} : req'[q] = req[q]
      BY <2>1, RespondTypes DEF SessionsInv, TokensTypeOK
    <2>8. Exchanged(r, t)
      BY <2>2, <2>4, <2>6, <2>7 DEF Rotate, Exchanged, SameOrigin
    <2>9. RequestsMove
      BY <2>7, OneMoves DEF Aside
    <2> QED
      BY <2>8, <2>9, QuietMails DEF Effects, TokensWritten
  <1> QED
    BY <1>1, <1>2

LEMMA SessionEffects ==
    ASSUME SessionsInv, MailsInv, NEW r \in Requests, ProceedSession(r), UNCHANGED mailVars
    PROVE  Effects
  <1>1. CASE SetCookie(r) \/ ClearCookie(r)
    BY <1>1, FinishSteps, QuietMails, QuietTokens DEF SetCookie, ClearCookie, Effects
  <1>2. CASE FindToken(r)
    BY <1>2, RefuseSteps, GotoEffects DEF FindToken, Steps
  <1>3. CASE RevokeFamily(r)
    <2>1. Family(tokens[req[r].token].family) \in SUBSET Tokens
      BY DEF Family
    <2> QED
      BY <1>3, <2>1, FinishSteps, RevokeEffects, SameOriginStays DEF RevokeFamily
  <1>4. CASE RevokeToken(r)
    <2>1. {req[r].token} \in SUBSET Tokens
      BY <1>4 DEF RevokeToken, SessionsInv, HandlerInv, Busy, Holding
    <2>2. RequestsMove
      BY <1>4, GotoAside DEF RevokeToken, Steps
    <2> QED
      BY <1>4, <2>1, <2>2, RevokeEffects, SameOriginStays DEF RevokeToken
  <1> QED
    BY <1>1, <1>2, <1>3, <1>4, IssueEffects, RotateEffects DEF ProceedSession

\* A step that writes the mails and ends its request.
LEMMA FinishEffects ==
    ASSUME SessionsInv, NEW r \in Requests, Finish(r), UNCHANGED tokens, MailsGrow
    PROVE  Effects
  BY FinishSteps, QuietTokens DEF Effects

LEMMA RejectEffects ==
    ASSUME SessionsInv, MailsInv, NEW r \in Requests, Reject(r)
    PROVE  Effects
  BY RefuseSteps DEF Reject

LEMMA LookupEffects ==
    ASSUME SessionsInv, MailsInv, NEW r \in Requests,
           \/ FindEmail(r) \/ FindVerification(r) \/ FindUnverified(r) \/ FindAccount(r)
           \/ FindReset(r)
    PROVE  Effects
  <1> DEFINE a == req[r].account
  <1>1. CASE Reject(r)
    BY <1>1, RejectEffects
  <1>2. ASSUME NEW s \in {"create", "write"}, Continue(r, s), Advances(r) PROVE Effects
    <2>1. \A q \in Requests \ {r} : req'[q] = req[q]
      BY <1>2, GotoTypes DEF Continue, SessionsInv, TokensTypeOK, Steps
    <2>2. UNCHANGED <<tokens, mailVars>>
      BY <1>2 DEF Continue
    <2> QED
      BY <1>2, <2>1, <2>2, OneAdvances, QuietMails, QuietTokens DEF Effects
  <1>3. CASE FindEmail(r) /\ Continue(r, "create")
    <2>1. /\ req'[r].step = "create" /\ req'[r].account = a
          /\ req'[r].op = req[r].op /\ req'[r].link = req[r].link
      BY <1>3, GotoTypes DEF Continue, SessionsInv, TokensTypeOK, Steps
    <2>2. Advances(r)
      BY <1>3, <2>1 DEF Advances, FindEmail
    <2> QED
      BY <1>2, <1>3, <2>2
  <1>4. CASE FindVerification(r) /\ Continue(r, "write") /\ verifyLink[a] = req[r].link
    <2>1. /\ req'[r].step = "write" /\ req'[r].account = a
          /\ req'[r].op = req[r].op /\ req'[r].link = req[r].link
      BY <1>4, GotoTypes DEF Continue, SessionsInv, TokensTypeOK, Steps
    <2>2. Advances(r)
      BY <1>4, <2>1 DEF Advances, FindVerification, Awaits
    <2> QED
      BY <1>2, <1>4, <2>2
  <1>5. CASE (FindUnverified(r) \/ FindAccount(r) \/ FindReset(r)) /\ Continue(r, "write")
    <2>1. Goto(r, "write") /\ UNCHANGED <<tokens, mailVars>>
      BY <1>5 DEF Continue
    <2>2. req[r].op # "verifyEmail"
      BY <1>5 DEF FindUnverified, FindAccount, FindReset, Awaits
    <2> QED
      BY <2>1, <2>2, GotoEffects DEF Steps
  <1> QED
    BY <1>1, <1>3, <1>4, <1>5
       DEF FindEmail, FindVerification, FindUnverified, FindAccount, FindReset

\* One account's link is forgotten or replaced by the next.
LEMMA LinkWrites ==
    ASSUME MailsInv, NEW a \in Accounts, verified \subseteq verified',
           \/ UNCHANGED <<verifyLink, mailed>>
           \/ verifyLink' = [verifyLink EXCEPT ![a] = 0] /\ UNCHANGED mailed
           \/ /\ mailed' = [mailed EXCEPT ![a] = @ + 1]
              /\ verifyLink' = [verifyLink EXCEPT ![a] = mailed[a] + 1]
           \/ mailed' = [mailed EXCEPT ![a] = @ + 1] /\ UNCHANGED verifyLink
    PROVE  MailsGrow
  <1> SUFFICES ASSUME NEW b \in Accounts
               PROVE  /\ mailed'[b] >= mailed[b]
                      /\ \/ verifyLink'[b] \in {0, verifyLink[b]}
                         \/ verifyLink'[b] > mailed[b] /\ verifyLink'[b] <= mailed'[b]
    BY DEF MailsGrow
  <1>1. mailed[b] \in Nat /\ mailed[a] \in Nat
    BY DEF MailsInv
  <1> QED
    BY <1>1 DEF MailsInv

LEMMA WriteEffects ==
    ASSUME SessionsInv, MailsInv, NEW r \in Requests,
           \/ CreateAccount(r) \/ Verify(r) \/ SupportVerify(r) \/ Resend(r) \/ RequestReset(r)
           \/ ResetPassword(r) \/ Delete(r)
    PROVE  Effects
  <1> DEFINE a == req[r].account
  <1>0. a \in Accounts
    BY DEF CreateAccount, Verify, SupportVerify, Resend, RequestReset, ResetPassword, Delete,
           Awaits, SessionsInv, HandlerInv, Busy
  <1>1. CASE Reject(r)
    BY <1>1, RejectEffects
  <1>2. CASE CreateAccount(r) /\ ~Reject(r) /\ req[r].op = "register"
    BY <1>0, <1>2, LinkWrites, FinishEffects DEF CreateAccount
  <1>3. CASE CreateAccount(r) /\ ~Reject(r) /\ req[r].op # "register"
    <2>1. /\ Goto(r, "issue") /\ UNCHANGED <<tokens, mailVars>>
          /\ req[r].step = "create" /\ req[r].op = "acceptInvitation"
      BY <1>3 DEF CreateAccount, mailVars
    <2>2. /\ req'[r].step = "issue" /\ req'[r].account = a
          /\ req'[r].op = req[r].op /\ req'[r].link = req[r].link
          /\ \A q \in Requests \ {r} : req'[q] = req[q]
      BY <2>1, GotoTypes DEF SessionsInv, TokensTypeOK, Steps
    <2>3. Advances(r)
      BY <2>1, <2>2 DEF Advances
    <2> QED
      BY <2>1, <2>2, <2>3, OneAdvances, QuietMails, QuietTokens DEF Effects
  <1>4. CASE Verify(r) /\ ~Reject(r)
    <2>1. /\ verified' = verified \cup {a} /\ UNCHANGED <<tokens, mailed>>
          /\ verifyLink' = [verifyLink EXCEPT ![a] = 0]
          /\ req[r].op = "verifyEmail" /\ req[r].step = "write"
          /\ req' = [req EXCEPT ![r].step = "issue", ![r].since = account[a].password]
      BY <1>4 DEF Verify, Awaits
    <2>2. account[a].password \in Nat
      BY <1>0 DEF SessionsInv, TokensTypeOK, AccountRow
    <2>3. /\ req'[r].step = "issue" /\ req'[r].account = a /\ req'[r].link = req[r].link
          /\ req'[r].op = req[r].op
          /\ \A q \in Requests \ {r} : req'[q] = req[q]
      BY <2>1, <2>2, PasswordTypes DEF SessionsInv, TokensTypeOK
    <2>4. Advances(r)
      BY <1>0, <2>1, <2>3 DEF Advances, MailsInv
    <2> QED
      BY <1>0, <2>1, <2>3, <2>4, OneAdvances, LinkWrites, QuietTokens DEF Effects
  <1>5. CASE (SupportVerify(r) \/ Resend(r) \/ RequestReset(r)) /\ ~Reject(r)
    <2>1. /\ Finish(r) /\ UNCHANGED tokens /\ verified \subseteq verified'
          /\ \/ verifyLink' = [verifyLink EXCEPT ![a] = 0] /\ UNCHANGED mailed
             \/ /\ mailed' = [mailed EXCEPT ![a] = @ + 1]
                /\ verifyLink' = [verifyLink EXCEPT ![a] = mailed[a] + 1]
             \/ mailed' = [mailed EXCEPT ![a] = @ + 1] /\ UNCHANGED verifyLink
      BY <1>5 DEF SupportVerify, Resend, RequestReset
    <2> HIDE DEF a
    <2> QED
      BY <1>0, <2>1, LinkWrites, FinishEffects
  <1>6. CASE ResetPassword(r) /\ ~Reject(r)
    <2>1. /\ RevokeAll({t \in Tokens : tokens[t].account = a})
          /\ Finish(r) /\ UNCHANGED <<verified, verifyLink, mailed>>
      BY <1>6 DEF ResetPassword
    <2>2. {t \in Tokens : tokens[t].account = a} \in SUBSET Tokens
      OBVIOUS
    <2>3. \A t \in Tokens : SameOrigin(t)
      BY <2>1, <2>2, RevokeEffects
    <2>4. MailsGrow
      BY <1>0, <2>1, LinkWrites
    <2> QED
      BY <2>1, <2>3, <2>4, FinishSteps DEF Effects, TokensWritten
  <1>7. CASE Delete(r) /\ ~Reject(r)
    <2>1. DeleteAccount(a) /\ Goto(r, "clear") /\ UNCHANGED mailVars
      BY <1>7 DEF Delete
    <2>2. ASSUME NEW t \in Tokens PROVE SameOrigin(t)
      <3>1. tokens[t] \in TokenRow
        BY DEF SessionsInv, TokensTypeOK
      <3> QED
        BY <2>1, <3>1 DEF DeleteAccount, SameOrigin, TokenRow
    <2>3. RequestsMove
      BY <2>1, GotoAside DEF Steps
    <2> QED
      BY <2>1, <2>2, <2>3, SameOriginStays
  <1> QED
    BY <1>1, <1>2, <1>3, <1>4, <1>5, <1>6, <1>7

LEMMA LoginEffects ==
    ASSUME SessionsInv, MailsInv, NEW r \in Requests, Login(r)
    PROVE  Effects
  <1> DEFINE a == req[r].account
  <1>1. CASE Refuse(r)
    BY <1>1, RefuseSteps DEF Login
  <1>2. CASE ~Refuse(r)
    <2>1. /\ req[r].step = "check" /\ a \in verified /\ UNCHANGED <<tokens, mailVars>>
          /\ req' = [req EXCEPT ![r].step = "issue", ![r].since = account[a].password]
      BY <1>2 DEF Login, CheckPassword
    <2>2. account[a].password \in Nat
      BY <2>1 DEF SessionsInv, HandlerInv, Busy, TokensTypeOK, AccountRow
    <2>3. /\ req'[r].step = "issue" /\ req'[r].account = a /\ req'[r].link = req[r].link
          /\ req'[r].op = req[r].op
          /\ \A q \in Requests \ {r} : req'[q] = req[q]
      BY <2>1, <2>2, PasswordTypes DEF SessionsInv, TokensTypeOK
    <2>4. Advances(r)
      BY <2>1, <2>3 DEF Advances
    <2> QED
      BY <2>1, <2>3, <2>4, OneAdvances, QuietMails, QuietTokens DEF Effects
  <1> QED
    BY <1>1, <1>2

LEMMA NextEffects ==
    ASSUME SessionsInv, MailsInv, Next
    PROVE  Effects
  <1>1. ASSUME NEW r \in Requests, Proceed(r) PROVE Effects
    BY <1>1, SessionEffects, LoginEffects, LookupEffects, WriteEffects DEF Proceed
  <1>2. ASSUME NEW r \in Requests, Fail(r), UNCHANGED mailVars PROVE Effects
    BY <1>2, FinishEffects, QuietMails DEF Fail
  <1>3. ASSUME NEW t \in Tokens, Expire(t), UNCHANGED mailVars PROVE Effects
    <2>1. ASSUME NEW u \in Tokens PROVE SameOrigin(u)
      <3>1. tokens[u] \in TokenRow /\ tokens[t] \in TokenRow
        BY DEF SessionsInv, TokensTypeOK
      <3> QED
        BY <1>3, <3>1 DEF Expire, SameOrigin, TokenRow, SessionsInv, TokensTypeOK
    <2>2. RequestsMove
      BY <1>3 DEF Expire, RequestsMove
    <2> QED
      BY <1>3, <2>1, <2>2, SameOriginStays
  <1>4. ASSUME NEW a \in Accounts, ExpireLink(a) PROVE Effects
    <2>1. MailsGrow
      BY <1>4, LinkWrites DEF ExpireLink
    <2>2. RequestsMove
      BY <1>4 DEF ExpireLink, RequestsMove
    <2> QED
      BY <1>4, <2>1, <2>2, QuietTokens DEF ExpireLink, Effects
  <1> QED
    BY <1>1, <1>2, <1>3, <1>4, StartEffects DEF Next

(***************************************************************************)
(* A session takes a proven address                                        *)
(***************************************************************************)
\* Who has a token, or is about to, is verified.
VerifiedInv ==
    /\ \A t \in Tokens : tokens[t].account \in Accounts => tokens[t].account \in verified
    /\ \A r \in Requests : req[r].step = "issue" => req[r].account \in verified

LEMMA VerifiedStep ==
    ASSUME "acceptInvitation" \notin Operations, SessionsInv, VerifiedInv, Effects
    PROVE  VerifiedInv'
  <1>1. verified \subseteq verified'
    BY DEF Effects, MailsGrow
  <1>2. ASSUME NEW t \in Tokens, tokens'[t].account \in Accounts
        PROVE  tokens'[t].account \in verified'
    BY <1>1, <1>2 DEF Effects, TokensWritten, SameOrigin, Issued, Exchanged, VerifiedInv
  <1>3. ASSUME NEW r \in Requests, req'[r].step = "issue"
        PROVE  req'[r].account \in verified'
    <2>1. req[r].op # "acceptInvitation"
      BY DEF SessionsInv, TokensTypeOK, Request
    <2> QED
      BY <1>1, <1>3, <2>1
         DEF Effects, RequestsMove, Aside, Comes, Advances, VerifiedInv
  <1> QED
    BY <1>2, <1>3 DEF VerifiedInv

\* Without the account an invitation creates, whose address the invitation was sent to,
\* an account with a session has proven its address, whatever requests interleave (login,
\* verifyEmail).
THEOREM SessionsAlwaysVerified ==
    ASSUME "acceptInvitation" \notin Operations
    PROVE  Spec => []SessionsAreVerified
  <1>1. Init => VerifiedInv
    BY NoTokenHasNoAccount DEF Init, TokenInit, VerifiedInv, Idle
  <1>2. SessionsInv /\ MailsInv /\ VerifiedInv /\ [Next]_vars => VerifiedInv'
    <2>1. CASE Next
      BY <2>1, NextEffects, VerifiedStep
    <2>2. CASE UNCHANGED vars
      BY <2>2 DEF vars, tokenVars, mailVars, VerifiedInv
    <2> QED
      BY <2>1, <2>2
  <1>3. SessionsInv /\ VerifiedInv => SessionsAreVerified
    BY DEF SessionsInv, FamiliesInv, VerifiedInv, SessionsAreVerified, Unrevoked, NoToken
  <1> QED
    BY <1>1, <1>2, <1>3, SessionsHold, PTL DEF Spec

(***************************************************************************)
(* A mailed link opens one session                                         *)
(***************************************************************************)
Unused(a, l) == \A t \in Tokens : tokens[t].account = a => tokens[t].link # l

\* What a request that may open a session knows of its link.
LinkInv(r) ==
    LET a == req[r].account
        l == req[r].link
    IN
    /\ req[r].step \in {"check", "findEmail", "create"} => l = 0
    /\ (req[r].op = "verifyEmail" /\ req[r].step \in {"findLink", "write"}) =>
          l \in 1 .. mailed[a]
    /\ (req[r].op = "verifyEmail" /\ req[r].step = "write") => Unused(a, l)
    /\ (req[r].step = "issue" /\ l # 0) =>
          l <= mailed[a] /\ l # verifyLink[a] /\ Unused(a, l)

\* A link that has opened a session was mailed, and is not the one that still counts.
LinksInv ==
    /\ \A a \in Accounts : verifyLink[a] <= mailed[a]
    /\ \A t \in Tokens : (tokens[t].account \in Accounts /\ tokens[t].link # 0) =>
          /\ tokens[t].link <= mailed[tokens[t].account]
          /\ tokens[t].link # verifyLink[tokens[t].account]
    /\ LinkOpensOneSession
    /\ \A r \in Requests : LinkInv(r)

\* A link used stays used, or unknown, whatever is mailed later.
LEMMA OldLinksStayOld ==
    ASSUME MailsInv, MailsInv', MailsGrow, NEW a \in Accounts, NEW l \in Nat, l # 0,
           l <= mailed[a], l # verifyLink[a]
    PROVE  l <= mailed'[a] /\ l # verifyLink'[a]
  BY DEF MailsInv, MailsGrow

LEMMA LinkTokens ==
    ASSUME SessionsInv, MailsInv, MailsInv', LinksInv, Effects
    PROVE  /\ \A a \in Accounts : verifyLink'[a] <= mailed'[a]
           /\ \A t \in Tokens : (tokens'[t].account \in Accounts /\ tokens'[t].link # 0) =>
                 /\ tokens'[t].link <= mailed'[tokens'[t].account]
                 /\ tokens'[t].link # verifyLink'[tokens'[t].account]
           /\ LinkOpensOneSession'
  <1>1. ASSUME NEW a \in Accounts PROVE verifyLink'[a] <= mailed'[a]
    BY DEF MailsInv, LinksInv, Effects, MailsGrow
  <1>2. \A t \in Tokens : tokens[t].link \in Nat
    BY DEF SessionsInv, TokensTypeOK, TokenRow
  <1>3. CASE \A t \in Tokens : SameOrigin(t)
    <2>1. LinkOpensOneSession'
      BY <1>3 DEF SameOrigin, LinksInv, LinkOpensOneSession
    <2>2. ASSUME NEW t \in Tokens, tokens'[t].account \in Accounts, tokens'[t].link # 0
          PROVE  /\ tokens'[t].link <= mailed'[tokens'[t].account]
                 /\ tokens'[t].link # verifyLink'[tokens'[t].account]
      BY <1>2, <1>3, <2>2, OldLinksStayOld DEF SameOrigin, LinksInv, Effects
    <2> QED
      BY <1>1, <2>1, <2>2
  <1>4. ASSUME NEW r \in Requests, NEW t \in Tokens, Issued(r, t)
        PROVE  /\ \A u \in Tokens : (tokens'[u].account \in Accounts /\ tokens'[u].link # 0) =>
                     /\ tokens'[u].link <= mailed'[tokens'[u].account]
                     /\ tokens'[u].link # verifyLink'[tokens'[u].account]
               /\ LinkOpensOneSession'
    <2> DEFINE a == req[r].account
               l == req[r].link
    <2>1. /\ a \in Accounts /\ l \in Nat
          /\ l # 0 => l <= mailed[a] /\ l # verifyLink[a] /\ Unused(a, l)
      BY <1>4 DEF Issued, LinksInv, LinkInv, SessionsInv, TokensTypeOK, Request
    <2>2. ASSUME NEW u \in Tokens, tokens'[u].account \in Accounts, tokens'[u].link # 0
          PROVE  /\ tokens'[u].link <= mailed'[tokens'[u].account]
                 /\ tokens'[u].link # verifyLink'[tokens'[u].account]
      <3>1. CASE u = t
        BY <1>4, <2>1, <2>2, <3>1, OldLinksStayOld DEF Issued, Effects
      <3>2. CASE u # t
        <4>1. tokens'[u] = tokens[u]
          BY <1>4, <3>2 DEF Issued
        <4> QED
          BY <1>2, <2>2, <4>1, OldLinksStayOld DEF LinksInv, Effects
      <3> QED
        BY <3>1, <3>2
    <2>3. ASSUME NEW u \in Tokens, NEW v \in Tokens,
                 tokens'[u].link # 0, tokens'[u].link = tokens'[v].link,
                 tokens'[u].account = tokens'[v].account
          PROVE  tokens'[u].family = tokens'[v].family
      <3>1. CASE u = t /\ v # t
        BY <1>4, <2>1, <2>3, <3>1 DEF Issued, Unused
      <3>2. CASE u # t /\ v = t
        BY <1>4, <2>1, <2>3, <3>2 DEF Issued, Unused
      <3>3. CASE u # t /\ v # t
        BY <1>4, <2>3, <3>3 DEF Issued, LinksInv, LinkOpensOneSession
      <3> QED
        BY <3>1, <3>2, <3>3
    <2>4. LinkOpensOneSession'
      BY <2>3 DEF LinkOpensOneSession
    <2> QED
      BY <2>2, <2>4
  <1>5. ASSUME NEW r \in Requests, NEW t \in Tokens, Exchanged(r, t)
        PROVE  /\ \A u \in Tokens : (tokens'[u].account \in Accounts /\ tokens'[u].link # 0) =>
                     /\ tokens'[u].link <= mailed'[tokens'[u].account]
                     /\ tokens'[u].link # verifyLink'[tokens'[u].account]
               /\ LinkOpensOneSession'
    <2> DEFINE from(u) == IF u = t THEN req[r].token ELSE u
    <2>1. ASSUME NEW u \in Tokens
          PROVE  /\ from(u) \in Tokens
                 /\ tokens'[u].account = tokens[from(u)].account
                 /\ tokens'[u].family = tokens[from(u)].family
                 /\ tokens'[u].link = tokens[from(u)].link
      BY <1>5 DEF Exchanged, SameOrigin
    <2> HIDE DEF from
    <2>2. ASSUME NEW u \in Tokens, tokens'[u].account \in Accounts, tokens'[u].link # 0
          PROVE  /\ tokens'[u].link <= mailed'[tokens'[u].account]
                 /\ tokens'[u].link # verifyLink'[tokens'[u].account]
      BY <1>2, <2>1, <2>2, OldLinksStayOld DEF LinksInv, Effects
    <2>3. LinkOpensOneSession'
      BY <2>1 DEF LinksInv, LinkOpensOneSession
    <2> QED
      BY <2>2, <2>3
  <1> QED
    BY <1>1, <1>3, <1>4, <1>5 DEF Effects, TokensWritten

\* One request at a time: nothing is issued while it is on its way to a session.
LEMMA LinkRequests ==
    ASSUME NEW r, Requests = {r}, SessionsInv, MailsInv, MailsInv', LinksInv, Effects,
           req' \in [Requests -> Request]
    PROVE  LinkInv(r)'
  <1>1. CASE Aside(r)'
    BY <1>1 DEF Aside, LinkInv
  <1>2. CASE ~Aside(r)'
    <2>1. PICK q \in Request : q = req[r]
      BY DEF SessionsInv, TokensTypeOK
    <2> DEFINE a == q.account
               l == q.link
    <2>2. l \in Nat /\ (q.step # "idle" => a \in Accounts)
      BY <2>1 DEF Request, SessionsInv, HandlerInv, Busy
    <2>3. \A t \in Tokens : SameOrigin(t)
      BY <1>2 DEF Aside, Effects, TokensWritten, Issued, Exchanged
    <2>4. Unused(a, l) => Unused(a, l)'
      BY <2>3 DEF Unused, SameOrigin
    <2>5. a \in Accounts =>
             /\ mailed[a] \in Nat /\ mailed'[a] \in Nat /\ mailed'[a] >= mailed[a]
             /\ (l # 0 /\ l <= mailed[a] /\ l # verifyLink[a]) =>
                    l <= mailed'[a] /\ l # verifyLink'[a]
      BY <2>2, OldLinksStayOld DEF MailsInv, Effects, MailsGrow
    <2>6. /\ q.step \in {"check", "findEmail", "create"} => l = 0
          /\ (q.op = "verifyEmail" /\ q.step \in {"findLink", "write"}) => l \in 1 .. mailed[a]
          /\ (q.op = "verifyEmail" /\ q.step = "write") => Unused(a, l)
          /\ (q.step = "issue" /\ l # 0) =>
                l <= mailed[a] /\ l # verifyLink[a] /\ Unused(a, l)
      BY <2>1 DEF LinksInv, LinkInv
    <2>7. CASE Comes(r)'
      BY <2>7 DEF Comes, LinkInv
    <2>8. CASE req'[r] = q
      <3> HIDE DEF a, l
      <3>1. req'[r].step = q.step /\ req'[r].op = q.op /\ a = req'[r].account /\ l = req'[r].link
        BY <2>8 DEF a, l
      <3>2. q.step # "idle" => a \in Accounts
        BY <2>2
      <3> QED
        BY <2>2, <2>4, <2>5, <2>6, <3>1, <3>2 DEF LinkInv
    <2>9. CASE Advances(r)
      <3>1. /\ req'[r].account = a /\ req'[r].link = l /\ req'[r].op = q.op
            /\ \/ q.step = "findEmail" /\ req'[r].step = "create"
               \/ /\ q.op = "verifyEmail" /\ q.step = "findLink" /\ req'[r].step = "write"
                  /\ verifyLink[a] = l
               \/ q.step = "check" /\ req'[r].step = "issue"
               \/ q.step = "create" /\ req'[r].step = "issue"
               \/ /\ q.op = "verifyEmail" /\ q.step = "write" /\ req'[r].step = "issue"
                  /\ verifyLink'[a] = 0
        BY <2>1, <2>9 DEF Advances
      <3>2. a \in Accounts /\ mailed[a] \in Nat /\ mailed'[a] \in Nat /\ mailed'[a] >= mailed[a]
        BY <2>2, <2>5, <3>1
      <3>3. (l # 0 /\ verifyLink[a] = l) => Unused(a, l)
        BY <3>2 DEF LinksInv, Unused
      <3> HIDE DEF a, l
      <3>4. l \in 1 .. mailed[a] => l \in 1 .. mailed'[a] /\ l # 0 /\ l <= mailed'[a]
        BY <2>2, <3>2
      <3> QED
        BY <2>2, <2>4, <2>6, <3>1, <3>2, <3>3, <3>4 DEF LinkInv
    <2> QED
      BY <1>2, <2>1, <2>7, <2>8, <2>9 DEF Effects, RequestsMove
  <1> QED
    BY <1>1, <1>2

LEMMA LinksStep ==
    ASSUME NEW r, Requests = {r}, SessionsInv, MailsInv, LinksInv, Next
    PROVE  LinksInv'
  <1>1. Effects /\ MailsInv' /\ req' \in [Requests -> Request]
    BY NextEffects, OrganizerNext DEF Keeps, SessionsInv, TokensTypeOK
  <1>2. LinkInv(r)'
    BY <1>1, LinkRequests
  <1> QED
    BY <1>1, <1>2, LinkTokens DEF LinksInv

\* One request at a time: a mailed link opens at most one session, whatever is mailed,
\* forgotten, expired, lost or reset around it (verifyEmail).
THEOREM LinksOpenOneSession ==
    ASSUME \E r : Requests = {r}
    PROVE  Spec => []LinkOpensOneSession
  <1>1. Init => LinksInv
    <2>1. ASSUME Init, NEW r \in Requests PROVE LinkInv(r)
      BY <2>1 DEF Init, TokenInit, LinkInv, Idle
    <2>2. ASSUME Init, NEW t \in Tokens PROVE tokens[t].link = 0
      BY <2>2 DEF Init, TokenInit, NoToken
    <2> QED
      BY <2>1, <2>2 DEF Init, LinksInv, LinkOpensOneSession
  <1>2. SessionsInv /\ MailsInv /\ LinksInv /\ [Next]_vars => LinksInv'
    <2>1. CASE Next
      BY <2>1, LinksStep
    <2>2. CASE UNCHANGED vars
      BY <2>2 DEF vars, tokenVars, mailVars, LinksInv, LinkInv, Unused, LinkOpensOneSession
    <2> QED
      BY <2>1, <2>2
  <1>3. LinksInv => LinkOpensOneSession
    BY DEF LinksInv
  <1> QED
    BY <1>1, <1>2, <1>3, SessionsHold, PTL DEF Spec

(***************************************************************************)
(* The cookie of a session that goes on                                    *)
(***************************************************************************)
Live(f) == \E t \in Family(f) : Unrevoked(t)

\* The token request r answers with is known to nobody yet, and is good, or its session
\* has ended for good.
AnswerInv(r) ==
    req[r].step = "respond" =>
        LET t == req[r].token IN
        /\ \A a \in Accounts : jar[a] # t
        /\ \A q \in Requests \ {r} : req[q].step \in Holding => req[q].token # t
        /\ \/ Unrevoked(t)
           \/ /\ ~Live(tokens[t].family)
              /\ \A q \in Requests : req[q].step = "rotate" =>
                    tokens[req[q].token].family # tokens[t].family

\* A cookie is good, or its session has ended, or an answer is about to replace it.
CookieInv(a) ==
    jar[a] # 0 =>
        \/ Unrevoked(jar[a]) \/ ~Live(tokens[jar[a]].family)
        \/ \E r \in Requests : req[r].account = a /\ req[r].step \in {"respond", "clear"}

CookiesInv ==
    /\ failures = 0
    /\ \A r \in Requests : AnswerInv(r)
    /\ \A a \in Accounts : CookieInv(a)

\* What the invariant of the tokens says of the cookies and of the tokens in use.
LEMMA HeldTokens ==
    ASSUME SessionsInv
    PROVE  /\ \A a \in Accounts : jar[a] # 0 =>
                 /\ jar[a] \in Tokens /\ tokens[jar[a]].account = a
                 /\ tokens[jar[a]] # NoToken /\ tokens[jar[a]].family \in Tokens
           /\ \A r \in Requests : req[r].step \in Holding =>
                 /\ req[r].token \in Tokens /\ tokens[req[r].token].account = req[r].account
                 /\ req[r].account \in Accounts
                 /\ tokens[req[r].token] # NoToken /\ tokens[req[r].token].family \in Tokens
  <1>1. ASSUME NEW a \in Accounts, jar[a] # 0
        PROVE  jar[a] \in Tokens /\ tokens[jar[a]].account = a
    BY <1>1 DEF SessionsInv, TokensTypeOK, JarInv
  <1>2. ASSUME NEW r \in Requests, req[r].step \in Holding
        PROVE  /\ req[r].token \in Tokens /\ tokens[req[r].token].account = req[r].account
               /\ req[r].account \in Accounts
    BY <1>2 DEF SessionsInv, HandlerInv, Busy, Holding
  <1> QED
    BY <1>1, <1>2, NoTokenHasNoAccount DEF SessionsInv, FamiliesInv

\* A step that leaves the tokens and the cookies alone.
LEMMA CookiesQuiet ==
    ASSUME SessionsInv, CookiesInv, NEW r \in Requests, UNCHANGED <<tokens, jar, failures>>,
           \A q \in Requests \ {r} : req'[q] = req[q],
           req[r].step \notin {"respond", "clear"}, req'[r].step # "respond",
           req'[r].step \in Holding =>
              \/ req'[r].token = req[r].token /\ req[r].step \in Holding
              \/ \E a \in Accounts : jar[a] = req'[r].token,
           req'[r].step = "rotate" => Unrevoked(req'[r].token) /\ req'[r].token \in Tokens
    PROVE  CookiesInv'
  <1>1. /\ \A t : Unrevoked(t)' <=> Unrevoked(t)
        /\ \A f : Live(f)' <=> Live(f)
    BY DEF Unrevoked, Live, Family
  <1>2. ASSUME NEW q \in Requests PROVE AnswerInv(q)'
    <2>1. CASE q # r /\ req[q].step = "respond"
      <3> DEFINE t == req[q].token
      <3>1. AnswerInv(q) /\ req'[q] = req[q] /\ t \in Tokens
        BY <2>1, HeldTokens DEF CookiesInv, Holding
      <3>2. req'[r].step \in Holding => req'[r].token # t
        BY <2>1, <3>1 DEF AnswerInv, Holding
      <3>3. ASSUME ~Live(tokens[t].family), req'[r].step = "rotate"
            PROVE  tokens[req'[r].token].family # tokens[t].family
        BY <3>3 DEF Live, Family
      <3> QED
        BY <1>1, <2>1, <3>1, <3>2, <3>3 DEF AnswerInv
    <2>2. CASE ~(q # r /\ req[q].step = "respond")
      BY <2>2 DEF AnswerInv
    <2> QED
      BY <2>1, <2>2
  <1>3. ASSUME NEW a \in Accounts PROVE CookieInv(a)'
    BY <1>1 DEF CookiesInv, CookieInv
  <1> QED
    BY <1>2, <1>3 DEF CookiesInv

\* An answer reaches the browser, with a token or without.
LEMMA CookiesAnswered ==
    ASSUME SessionsInv, CookiesInv, NEW r \in Requests, UNCHANGED failures,
           SetCookie(r) \/ ClearCookie(r)
    PROVE  CookiesInv'
  <1> DEFINE a == req[r].account
             j == IF req[r].step = "respond" THEN req[r].token ELSE 0
  <1>1. /\ UNCHANGED tokens /\ jar' = [jar EXCEPT ![a] = j]
        /\ req'[r].step = "idle" /\ \A q \in Requests \ {r} : req'[q] = req[q]
        /\ req[r].step \in {"respond", "clear"} /\ a \in Accounts
    BY FinishTypes DEF SetCookie, ClearCookie, SessionsInv, TokensTypeOK, HandlerInv, Busy
  <1>2. /\ \A t : Unrevoked(t)' <=> Unrevoked(t)
        /\ \A f : Live(f)' <=> Live(f)
    BY <1>1 DEF Unrevoked, Live, Family
  <1>3. \A b \in Accounts : jar'[b] = IF b = a THEN j ELSE jar[b]
    BY <1>1 DEF SessionsInv, TokensTypeOK
  <1>4. ASSUME NEW q \in Requests PROVE AnswerInv(q)'
    <2>1. CASE q # r /\ req[q].step = "respond"
      <3>1. AnswerInv(q) /\ req'[q] = req[q] /\ req[q].token \in Tokens
        BY <1>1, <2>1, HeldTokens DEF CookiesInv, Holding
      <3>2. j # req[q].token
        BY <1>1, <2>1, <3>1, ZeroIsNoToken DEF AnswerInv, Holding
      <3> HIDE DEF a, j
      <3>3. \A b \in Accounts : jar'[b] # req[q].token
        BY <1>3, <2>1, <3>1, <3>2 DEF AnswerInv
      <3>4. \A x \in Requests \ {q} :
               req'[x].step \in Holding => req'[x] = req[x] /\ req[x].step \in Holding
        BY <1>1 DEF Holding
      <3>5. \A x \in Requests : req'[x].step = "rotate" => req'[x] = req[x]
        BY <1>1
      <3> QED
        BY <1>1, <1>2, <2>1, <3>1, <3>3, <3>4, <3>5 DEF AnswerInv
    <2>2. CASE ~(q # r /\ req[q].step = "respond")
      BY <1>1, <2>2 DEF AnswerInv
    <2> QED
      BY <2>1, <2>2
  <1>5. ASSUME NEW b \in Accounts PROVE CookieInv(b)'
    <2>1. CASE b = a
      <3>1. j # 0 => Unrevoked(j) \/ ~Live(tokens[j].family)
        BY DEF CookiesInv, AnswerInv
      <3> HIDE DEF a, j
      <3> QED
        BY <1>1, <1>2, <1>3, <2>1, <3>1 DEF CookieInv
    <2>2. CASE b # a
      BY <1>1, <1>2, <1>3, <2>2 DEF CookiesInv, CookieInv
    <2> QED
      BY <2>1, <2>2
  <1> QED
    BY <1>4, <1>5 DEF CookiesInv

\* A token and its cookie expire together.
LEMMA CookiesExpire ==
    ASSUME SessionsInv, CookiesInv, NEW t \in Tokens, Expire(t)
    PROVE  CookiesInv'
  <1>1. ASSUME NEW u \in Tokens
        PROVE  tokens'[u].family = tokens[u].family /\ (Unrevoked(u)' <=> Unrevoked(u))
    <2>1. tokens[u] \in TokenRow /\ tokens[t] \in TokenRow
      BY DEF SessionsInv, TokensTypeOK
    <2> QED
      BY <2>1 DEF Expire, Unrevoked, TokenRow, SessionsInv, TokensTypeOK
  <1>2. \A f : Live(f)' <=> Live(f)
    BY <1>1 DEF Live, Family
  <1>3. UNCHANGED <<req, failures>> /\ \A a \in Accounts : jar'[a] \in {0, jar[a]}
    BY DEF Expire
  <1>4. ASSUME NEW q \in Requests PROVE AnswerInv(q)'
    <2>1. CASE req[q].step = "respond"
      <3>1. PICK t1 \in Tokens, f \in Tokens : t1 = req[q].token /\ f = tokens[t1].family
        BY <2>1, HeldTokens DEF Holding
      <3>2. AnswerInv(q) /\ req'[q] = req[q] /\ tokens'[t1].family = f
        BY <1>1, <1>3, <3>1 DEF CookiesInv
      <3>3. \A x \in Requests : req[x].step = "rotate" =>
               req[x].token \in Tokens /\ tokens'[req'[x].token].family = tokens[req[x].token].family
        BY <1>1, <1>3, HeldTokens DEF Holding
      <3>4. ~Live(f) => ~Live(tokens[t1].family)'
        BY <1>2, <3>2 DEF Live, Family
      <3>5. \A a \in Accounts : jar'[a] # t1
        BY <1>3, <2>1, <3>1, <3>2, ZeroIsNoToken DEF AnswerInv
      <3>6. \/ Unrevoked(t1)'
            \/ /\ ~Live(tokens[t1].family)'
               /\ \A x \in Requests : req'[x].step = "rotate" =>
                     tokens'[req'[x].token].family # tokens'[t1].family
        BY <1>1, <1>3, <2>1, <3>1, <3>2, <3>3, <3>4 DEF AnswerInv
      <3>7. \A x \in Requests \ {q} : req'[x].step \in Holding => req'[x].token # t1
        BY <1>3, <2>1, <3>1, <3>2 DEF AnswerInv
      <3>8. t1 = req'[q].token
        BY <3>1, <3>2
      <3> QED
        BY <3>5, <3>6, <3>7, <3>8 DEF AnswerInv
    <2>2. CASE req[q].step # "respond"
      BY <1>3, <2>2 DEF AnswerInv
    <2> QED
      BY <2>1, <2>2
  <1>5. ASSUME NEW a \in Accounts PROVE CookieInv(a)'
    <2>1. CASE jar'[a] = 0
      BY <2>1 DEF CookieInv
    <2>2. CASE jar'[a] # 0
      <3>1. jar'[a] = jar[a] /\ jar[a] \in Tokens /\ CookieInv(a)
        BY <1>3, <2>2, HeldTokens DEF CookiesInv
      <3> QED
        BY <1>1, <1>2, <1>3, <2>2, <3>1 DEF CookieInv
    <2> QED
      BY <2>1, <2>2
  <1> QED
    BY <1>3, <1>4, <1>5 DEF CookiesInv

\* Tokens are revoked by a request that answers with none: the one it presented, and then
\* it clears the cookie, or what is left of whole sessions.
LEMMA CookiesRevoked ==
    ASSUME SessionsInv, CookiesInv, NEW r \in Requests, UNCHANGED <<jar, failures>>,
           \E q : Requests = {r, q},
           \A q \in Requests \ {r} : req'[q] = req[q],
           req[r].step \notin {"respond", "clear"}, req'[r].step \in {"idle", "clear"},
           \A t \in Tokens : /\ tokens'[t].family = tokens[t].family
                             /\ Unrevoked(t)' => Unrevoked(t),
           \A t \in Tokens : (Unrevoked(t) /\ ~Unrevoked(t)') =>
              \/ /\ req[r].step \in Holding /\ t = req[r].token /\ req'[r].step = "clear"
                 /\ req'[r].account = req[r].account
              \/ ~Live(tokens[t].family)'
    PROVE  CookiesInv'
  <1>1. \A f : Live(f)' => Live(f)
    BY DEF Live, Family
  <1>2. ASSUME NEW q \in Requests PROVE AnswerInv(q)'
    <2>1. CASE q # r /\ req[q].step = "respond"
      <3>1. PICK t \in Tokens, f \in Tokens : t = req[q].token /\ f = tokens[t].family
        BY <2>1, HeldTokens DEF Holding
      <3>0. AnswerInv(q) /\ req'[q] = req[q] /\ tokens'[t].family = f
        BY <2>1, <3>1 DEF CookiesInv
      <3>2. \A x \in Requests : req'[x].step # "rotate"
        BY <2>1
      <3>3. req'[r].step \notin Holding
        BY DEF Holding
      <3>4. Unrevoked(t)' \/ ~Live(f)'
        <4>1. CASE Unrevoked(t)
          <5>1. ~(req[r].step \in Holding /\ t = req[r].token)
            BY <2>1, <3>0, <3>1 DEF AnswerInv
          <5> QED
            BY <3>0, <3>1, <4>1, <5>1 DEF Live, Family
        <4>2. CASE ~Unrevoked(t)
          BY <1>1, <2>1, <3>0, <3>1, <4>2 DEF AnswerInv
        <4> QED
          BY <4>1, <4>2
      <3> QED
        <4>1. /\ \A a \in Accounts : jar'[a] # t
              /\ \A x \in Requests \ {q} : req'[x].step \in Holding => req'[x].token # t
          BY <2>1, <3>0, <3>1, <3>3 DEF AnswerInv
        <4>2. ~Live(f)' => ~Live(tokens[t].family)'
          BY <3>0 DEF Live, Family
        <4>3. req'[q].token = t
          BY <3>0, <3>1
        <4> QED
          BY <2>1, <3>0, <3>1, <3>2, <3>4, <4>1, <4>2, <4>3 DEF AnswerInv
    <2>2. CASE ~(q # r /\ req[q].step = "respond")
      BY <2>2 DEF AnswerInv
    <2> QED
      BY <2>1, <2>2
  <1>3. ASSUME NEW a \in Accounts PROVE CookieInv(a)'
    <2>1. CASE jar[a] = 0
      BY <2>1 DEF CookieInv
    <2>2. CASE jar[a] # 0
      <3>1. PICK j \in Tokens, f \in Tokens :
              j = jar[a] /\ tokens[j].account = a /\ f = tokens[j].family
        BY <2>2, HeldTokens
      <3>2. tokens'[j].family = f /\ CookieInv(a)
        BY <3>1 DEF CookiesInv
      <3>0. ~Live(f)' => CookieInv(a)'
        <4>1. ~Live(f)' => ~Live(tokens[j].family)'
          BY <3>2 DEF Live, Family
        <4> QED
          BY <3>1, <4>1 DEF CookieInv
      <3>3. CASE Unrevoked(j)
        <4>1. CASE Unrevoked(j)'
          BY <3>1, <4>1 DEF CookieInv
        <4>2. CASE ~Live(tokens[j].family)'
          <5>1. ~Live(f)'
            BY <3>2, <4>2 DEF Live, Family
          <5> QED
            BY <3>0, <5>1
        <4>3. CASE req[r].step \in Holding /\ j = req[r].token /\ req'[r].step = "clear"
                   /\ req'[r].account = req[r].account
          <5>1. req'[r].account = a
            BY <3>1, <4>3, HeldTokens
          <5> QED
            BY <4>3, <5>1 DEF CookieInv
        <4> QED
          BY <3>3, <4>1, <4>2, <4>3
      <3>4. CASE ~Live(tokens[j].family)
        BY <1>1, <3>0, <3>1, <3>4
      <3>5. ASSUME NEW q \in Requests, req[q].account = a, req[q].step \in {"respond", "clear"}
            PROVE  CookieInv(a)'
        <4>1. req'[q] = req[q]
          BY <3>5
        <4> QED
          BY <3>5, <4>1 DEF CookieInv
      <3> QED
        BY <2>2, <3>1, <3>2, <3>3, <3>4, <3>5 DEF CookieInv
    <2> QED
      BY <2>1, <2>2
  <1> QED
    BY <1>2, <1>3 DEF CookiesInv

\* A request gets a token nobody has: the first of a new session, or the next of one whose
\* token it presented.
LEMMA CookiesGrow ==
    ASSUME SessionsInv, CookiesInv, NEW r \in Requests, UNCHANGED <<jar, failures>>,
           NEW t \in Tokens, tokens[t] = NoToken, NEW f \in Tokens,
           req[r].step \in {"issue", "rotate"},
           req'[r].step = "respond", req'[r].token = t, req'[r].account = req[r].account,
           \A q \in Requests \ {r} : req'[q] = req[q],
           tokens'[t].family = f, tokens'[t].status = "valid",
           \A u \in Tokens \ {t} :
              /\ tokens'[u].family = tokens[u].family
              /\ (Unrevoked(u)' <=> Unrevoked(u)) \/ (req[r].step = "rotate" /\ u = req[r].token),
           \A u \in Tokens : (tokens[u] # NoToken /\ tokens[u].family = f) =>
              tokens[u].account = req[r].account /\ req[r].step = "rotate",
           req[r].step = "rotate" => tokens[req[r].token].family = f
    PROVE  CookiesInv'
  <1>1. ASSUME NEW g \in Tokens \ {f} PROVE Live(g)' <=> Live(g)
    <2>1. ASSUME NEW u \in Tokens
          PROVE  u \in Family(g)' <=> u \in Family(g)
      BY ZeroIsNoToken DEF Family, NoToken
    <2>2. ASSUME NEW u \in Family(g) PROVE Unrevoked(u)' <=> Unrevoked(u)
      BY <2>1, ZeroIsNoToken DEF Family, NoToken
    <2>3. Family(g)' = Family(g)
      BY <2>1 DEF Family
    <2> QED
      BY <2>2, <2>3 DEF Live
  <1>2. /\ \A a \in Accounts : jar[a] # t
        /\ \A q \in Requests : req[q].step \in Holding => req[q].token # t
    BY HeldTokens, ZeroIsNoToken
  <1>3. Unrevoked(t)'
    BY DEF Unrevoked
  <1>4. AnswerInv(r)'
    BY <1>2, <1>3 DEF AnswerInv
  <1>5. ASSUME NEW q \in Requests \ {r}, req[q].step = "respond" PROVE AnswerInv(q)'
    <2>1. PICK u \in Tokens, g \in Tokens :
            u = req[q].token /\ g = tokens[u].family /\ tokens[u] # NoToken
      BY <1>5, HeldTokens DEF Holding
    <2>2. AnswerInv(q) /\ req'[q] = req[q] /\ u # t
      BY <1>2, <1>5, <2>1 DEF CookiesInv, Holding
    <2>3. ~(req[r].step = "rotate" /\ u = req[r].token)
      BY <1>5, <2>1, <2>2 DEF AnswerInv, Holding
    <2>4. tokens'[u].family = g /\ (Unrevoked(u)' <=> Unrevoked(u))
      BY <2>1, <2>2, <2>3
    <2>5. CASE Unrevoked(u)
      BY <1>2, <1>5, <2>1, <2>2, <2>4, <2>5 DEF AnswerInv
    <2>6. CASE ~Unrevoked(u)
      <3>1. /\ ~Live(g)
            /\ \A x \in Requests : req[x].step = "rotate" => tokens[req[x].token].family # g
        BY <1>5, <2>1, <2>2, <2>6 DEF AnswerInv
      <3>2. g # f
        BY <2>1, <3>1
      <3>3. ~Live(tokens[u].family)'
        BY <1>1, <2>4, <3>1, <3>2 DEF Live, Family
      <3>4. ASSUME NEW x \in Requests, req'[x].step = "rotate"
            PROVE  tokens'[req'[x].token].family # g
        <4>1. x # r /\ req'[x] = req[x]
          BY <3>4
        <4>2. req[x].token \in Tokens \ {t}
          BY <1>2, <3>4, <4>1, HeldTokens DEF Holding
        <4> QED
          BY <3>1, <3>4, <4>1, <4>2
      <3>5. req'[q].token = u
        BY <2>1, <2>2
      <3>6. /\ \A a \in Accounts : jar'[a] # u
            /\ \A x \in Requests \ {q} : req'[x].step \in Holding => req'[x].token # u
        BY <1>5, <2>1, <2>2 DEF AnswerInv
      <3> QED
        BY <2>4, <3>3, <3>4, <3>5, <3>6 DEF AnswerInv
    <2> QED
      BY <2>5, <2>6
  <1>6. ASSUME NEW q \in Requests \ {r}, req[q].step # "respond" PROVE AnswerInv(q)'
    BY <1>6 DEF AnswerInv
  <1>7. ASSUME NEW a \in Accounts PROVE CookieInv(a)'
    <2>1. CASE jar[a] = 0
      BY <2>1 DEF CookieInv
    <2>2. CASE jar[a] # 0
      <3>1. PICK j \in Tokens, g \in Tokens :
              /\ j = jar[a] /\ tokens[j].account = a /\ g = tokens[j].family
              /\ tokens[j] # NoToken /\ j # t
        BY <1>2, <2>2, HeldTokens
      <3>2. tokens'[j].family = g /\ CookieInv(a) /\ jar'[a] = j
        BY <3>1 DEF CookiesInv
      <3>3. req[r].account = a => CookieInv(a)'
        BY DEF CookieInv
      <3>4. CASE g = f
        BY <3>1, <3>3, <3>4
      <3>5. CASE Unrevoked(j) /\ g # f
        <4>1. ~(req[r].step = "rotate" /\ j = req[r].token)
          BY <3>1, <3>5
        <4>2. Unrevoked(j)'
          BY <3>1, <3>5, <4>1
        <4> QED
          BY <3>2, <4>2 DEF CookieInv
      <3>6. CASE ~Live(g) /\ g # f
        <4>1. ~Live(tokens[j].family)'
          BY <1>1, <3>2, <3>6 DEF Live, Family
        <4> QED
          BY <3>1, <4>1 DEF CookieInv
      <3>7. ASSUME NEW q \in Requests, req[q].account = a, req[q].step \in {"respond", "clear"}
            PROVE  CookieInv(a)'
        <4>1. req'[q] = req[q]
          BY <3>7
        <4> QED
          BY <3>7, <4>1 DEF CookieInv
      <3> QED
        BY <2>2, <3>1, <3>2, <3>4, <3>5, <3>6, <3>7 DEF CookieInv
    <2> QED
      BY <2>1, <2>2
  <1> QED
    BY <1>4, <1>5, <1>6, <1>7 DEF CookiesInv

LEMMA CookiesIssued ==
    ASSUME SessionsInv, CookiesInv, NEW r \in Requests, IssueToken(r), ~Refuse(r)
    PROVE  CookiesInv'
  <1> DEFINE row(t) == [account |-> req[r].account, family |-> t, status |-> "valid",
                        since |-> req[r].since, link |-> req[r].link]
  <1>1. PICK t \in Tokens :
          /\ Fresh(t) /\ tokens' = [tokens EXCEPT ![t] = row(t)]
          /\ req' = [req EXCEPT ![r].step = "respond", ![r].token = t]
    BY DEF IssueToken
  <1>2. row(t).family = t /\ row(t).status = "valid"
    OBVIOUS
  <1> HIDE DEF row
  <1>3. /\ tokens[t] = NoToken /\ req[r].step = "issue" /\ UNCHANGED <<jar, failures>>
        /\ tokens'[t].family = t /\ tokens'[t].status = "valid"
        /\ \A u \in Tokens \ {t} : tokens'[u] = tokens[u]
    BY <1>1, <1>2 DEF IssueToken, Fresh, SessionsInv, TokensTypeOK
  <1>4. /\ req'[r].step = "respond" /\ req'[r].token = t /\ req'[r].account = req[r].account
        /\ \A q \in Requests \ {r} : req'[q] = req[q]
    BY <1>1, RespondTypes DEF SessionsInv, TokensTypeOK
  <1>5. \A u \in Tokens : tokens[u] # NoToken => tokens[u].family # t
    BY <1>3, NoTokenHasNoAccount DEF SessionsInv, FamiliesInv
  <1>6. \A u \in Tokens \ {t} : /\ tokens'[u].family = tokens[u].family
                                /\ Unrevoked(u)' <=> Unrevoked(u)
    BY <1>3 DEF Unrevoked
  <1> QED
    BY <1>3, <1>4, <1>5, <1>6, CookiesGrow

LEMMA CookiesRotated ==
    ASSUME SessionsInv, CookiesInv, NEW r \in Requests, Rotate(r), ~Refuse(r)
    PROVE  CookiesInv'
  <1> DEFINE new(u) == [tokens[u] EXCEPT !.status = "valid"]
             old(u) == [tokens[u] EXCEPT !.status = "revoked"]
  <1>1. PICK t \in Tokens :
          /\ Fresh(t)
          /\ tokens' = [tokens EXCEPT ![t] = new(req[r].token), ![req[r].token].status = "revoked"]
          /\ req' = [req EXCEPT ![r].step = "respond", ![r].token = t]
    BY DEF Rotate
  <1>2. PICK u \in Tokens, f \in Tokens :
          /\ u = req[r].token /\ f = tokens[u].family /\ tokens[u].account = req[r].account
          /\ tokens[u] # NoToken /\ tokens[u] \in TokenRow /\ req[r].account \in Accounts
    BY HeldTokens DEF Rotate, Holding, SessionsInv, TokensTypeOK
  <1>3. tokens[t] = NoToken /\ u # t
    BY <1>1, <1>2 DEF Fresh
  <1>4. /\ new(u).family = f /\ new(u).status = "valid"
        /\ old(u).family = f /\ old(u).status = "revoked"
    BY <1>2 DEF TokenRow
  <1>5. tokens' = [tokens EXCEPT ![t] = new(u), ![u] = old(u)]
    BY <1>1, <1>2, <1>3 DEF SessionsInv, TokensTypeOK
  <1> HIDE DEF new, old
  <1>6. /\ tokens'[t].family = f /\ tokens'[t].status = "valid" /\ tokens'[u].family = f
        /\ \A v \in Tokens \ {t, u} : tokens'[v] = tokens[v]
    BY <1>3, <1>4, <1>5 DEF SessionsInv, TokensTypeOK
  <1>7. /\ req'[r].step = "respond" /\ req'[r].token = t /\ req'[r].account = req[r].account
        /\ \A q \in Requests \ {r} : req'[q] = req[q]
    BY <1>1, RespondTypes DEF SessionsInv, TokensTypeOK
  <1>8. \A v \in Tokens : (tokens[v] # NoToken /\ tokens[v].family = f) =>
           tokens[v].account = req[r].account
    BY <1>2, FamilyHasOneAccount DEF Family
  <1>9. \A v \in Tokens \ {t} : /\ tokens'[v].family = tokens[v].family
                                /\ (Unrevoked(v)' <=> Unrevoked(v)) \/ v = u
    BY <1>2, <1>6 DEF Unrevoked
  <1>10. req[r].step = "rotate" /\ UNCHANGED <<jar, failures>>
    BY <1>1, <1>3 DEF Rotate
  <1> QED
    BY <1>2, <1>3, <1>6, <1>7, <1>8, <1>9, <1>10, CookiesGrow

\* A call comes in.
LEMMA CookiesCalled ==
    ASSUME SessionsInv, CookiesInv, NEW r \in Requests, NEW state, Accept(r, state),
           state.step \notin {"respond", "rotate"},
           state.step \in Holding => \E a \in Accounts : jar[a] = state.token
    PROVE  CookiesInv'
  <1>1. req'[r] = state /\ \A q \in Requests \ {r} : req'[q] = req[q]
    BY DEF Accept, SessionsInv, TokensTypeOK
  <1> QED
    BY <1>1, CookiesQuiet DEF Accept

LEMMA CookiesStart ==
    ASSUME SessionsInv, CookiesInv, NEW r \in Requests, Start(r)
    PROVE  CookiesInv'
  <1>1. ASSUME NEW op, NEW s \in {"check", "findEmail", "findLink", "delete"}, NEW a, NEW l,
               Accept(r, [Idle EXCEPT !.op = op, !.step = s, !.account = a, !.link = l])
        PROVE  CookiesInv'
    <2> DEFINE new == [Idle EXCEPT !.op = op, !.step = s, !.account = a, !.link = l]
    <2>1. new.step = s /\ Accept(r, new)
      BY <1>1 DEF Idle
    <2> HIDE DEF new
    <2> QED
      BY <2>1, CookiesCalled DEF Holding
  <1>2. ASSUME NEW op, NEW s \in {"check", "findEmail", "findLink", "delete"}, NEW a,
               Accept(r, [Idle EXCEPT !.op = op, !.step = s, !.account = a])
        PROVE  CookiesInv'
    <2> DEFINE new == [Idle EXCEPT !.op = op, !.step = s, !.account = a]
    <2>1. new.step = s /\ Accept(r, new)
      BY <1>2 DEF Idle
    <2> HIDE DEF new
    <2> QED
      BY <2>1, CookiesCalled DEF Holding
  <1>3. CASE StartRefresh(r)
    <2>1. PICK a \in Accounts :
            Accept(r, [Idle EXCEPT !.op = "refresh", !.step = "find", !.account = a,
                                   !.token = jar[a]])
      BY <1>3 DEF StartRefresh
    <2> DEFINE new == [Idle EXCEPT !.op = "refresh", !.step = "find", !.account = a,
                                   !.token = jar[a]]
    <2>2. new.step = "find" /\ new.token = jar[a] /\ Accept(r, new)
      BY <2>1 DEF Idle
    <2> HIDE DEF new
    <2> QED
      BY <2>2, CookiesCalled
  <1>4. CASE StartLogout(r)
    <2>1. PICK a \in Accounts :
            Accept(r, [Idle EXCEPT !.op = "logout", !.account = a, !.token = jar[a],
                                   !.step = IF jar[a] = 0 THEN "clear" ELSE "revoke"])
      BY <1>4 DEF StartLogout
    <2> DEFINE new == [Idle EXCEPT !.op = "logout", !.account = a, !.token = jar[a],
                                   !.step = IF jar[a] = 0 THEN "clear" ELSE "revoke"]
    <2>2. new.step \in {"clear", "revoke"} /\ new.token = jar[a] /\ Accept(r, new)
      BY <2>1 DEF Idle
    <2> HIDE DEF new
    <2> QED
      BY <2>2, CookiesCalled
  <1>5. CASE StartLogin(r)
    BY <1>2, <1>5 DEF StartLogin
  <1>6. CASE \/ StartRegister(r) \/ StartSupportVerify(r) \/ StartResend(r)
             \/ StartRequestReset(r) \/ StartDelete(r)
    BY <1>2, <1>6
       DEF StartRegister, StartSupportVerify, StartResend, StartRequestReset, StartDelete, Call
  <1>7. CASE StartVerify(r) \/ StartReset(r)
    BY <1>1, <1>7 DEF StartVerify, StartReset
  <1> QED
    BY <1>3, <1>4, <1>5, <1>6, <1>7 DEF Start, StartSession

\* A step that neither answers nor holds another token.
LEMMA CookiesGoOn ==
    ASSUME SessionsInv, CookiesInv, NEW r \in Requests, UNCHANGED <<tokens, jar, failures>>,
           req[r].step \notin {"respond", "clear"},
           \/ Finish(r)
           \/ \E s \in Steps : /\ Goto(r, s) /\ s # "respond"
                               /\ s \in Holding => req[r].step \in Holding
                               /\ s = "rotate" => Unrevoked(req[r].token)
           \/ \E p \in Nat : req' = [req EXCEPT ![r].step = "issue", ![r].since = p]
    PROVE  CookiesInv'
  <1>1. CASE Finish(r)
    <2>1. req'[r].step = "idle" /\ \A q \in Requests \ {r} : req'[q] = req[q]
      BY <1>1, FinishTypes DEF SessionsInv, TokensTypeOK
    <2> QED
      BY <2>1, CookiesQuiet DEF Holding
  <1>2. ASSUME NEW s \in Steps, Goto(r, s), s # "respond",
               s \in Holding => req[r].step \in Holding,
               s = "rotate" => Unrevoked(req[r].token)
        PROVE  CookiesInv'
    <2>1. /\ req'[r].step = s /\ req'[r].token = req[r].token
          /\ \A q \in Requests \ {r} : req'[q] = req[q]
      BY <1>2, GotoTypes DEF SessionsInv, TokensTypeOK
    <2>2. s = "rotate" => req[r].token \in Tokens
      BY <1>2, HeldTokens DEF Holding
    <2> QED
      BY <1>2, <2>1, <2>2, CookiesQuiet
  <1>3. ASSUME NEW p \in Nat, req' = [req EXCEPT ![r].step = "issue", ![r].since = p]
        PROVE  CookiesInv'
    <2>1. req'[r].step = "issue" /\ \A q \in Requests \ {r} : req'[q] = req[q]
      BY <1>3, PasswordTypes DEF SessionsInv, TokensTypeOK
    <2> QED
      BY <2>1, CookiesQuiet DEF Holding
  <1> QED
    BY <1>1, <1>2, <1>3

\* Whole sessions end.
LEMMA CookiesEnd ==
    ASSUME SessionsInv, CookiesInv, NEW r \in Requests, UNCHANGED <<jar, failures>>,
           \E q : Requests = {r, q}, Finish(r) \/ Goto(r, "clear"),
           req[r].step \notin {"respond", "clear"}, NEW ending \in SUBSET Tokens,
           \A t \in Tokens : /\ tokens'[t].family = tokens[t].family
                             /\ t \notin ending => tokens'[t] = tokens[t]
                             /\ t \in ending => ~Unrevoked(t)',
           \A t \in ending, u \in Tokens :
              (tokens[t] # NoToken /\ tokens[u].family = tokens[t].family) => u \in ending
    PROVE  CookiesInv'
  <1>1. /\ req'[r].step \in {"idle", "clear"}
        /\ \A q \in Requests \ {r} : req'[q] = req[q]
    BY FinishTypes, GotoTypes DEF SessionsInv, TokensTypeOK, Steps
  <1>2. \A t \in Tokens : Unrevoked(t)' => Unrevoked(t)
    BY DEF Unrevoked
  <1>3. ASSUME NEW t \in Tokens, Unrevoked(t), ~Unrevoked(t)'
        PROVE  ~Live(tokens[t].family)'
    <2>1. t \in ending /\ tokens[t] # NoToken
      BY <1>3 DEF Unrevoked, NoToken
    <2> QED
      BY <2>1 DEF Live, Family
  <1> QED
    BY <1>1, <1>2, <1>3, CookiesRevoked

LEMMA CookiesProceed ==
    ASSUME SessionsInv, CookiesInv, NEW r \in Requests, \E q : Requests = {r, q},
           ProceedSession(r)
    PROVE  CookiesInv'
  <1>1. CASE Refuse(r) /\ req[r].step \notin {"respond", "clear"}
    BY <1>1, CookiesGoOn DEF Refuse
  <1>2. CASE IssueToken(r) \/ Rotate(r)
    BY <1>1, <1>2, CookiesIssued, CookiesRotated DEF IssueToken, Rotate
  <1>3. CASE SetCookie(r) \/ ClearCookie(r)
    BY <1>3, CookiesAnswered DEF SetCookie, ClearCookie
  <1>4. CASE FindToken(r)
    BY <1>1, <1>4, CookiesGoOn DEF FindToken, Steps, Holding, Unrevoked
  <1>5. CASE RevokeFamily(r)
    <2> DEFINE ending == Family(tokens[req[r].token].family)
    <2>1. ending \in SUBSET Tokens /\ RevokeAll(ending) /\ Finish(r) /\ UNCHANGED <<jar, failures>>
      BY <1>5 DEF Family, RevokeFamily
    <2>2. \A t \in Tokens : /\ tokens'[t].family = tokens[t].family
                            /\ t \notin ending => tokens'[t] = tokens[t]
                            /\ t \in ending => ~Unrevoked(t)'
      <3> HIDE DEF ending
      <3> QED
        BY <2>1, RevokeTypes DEF SessionsInv, TokensTypeOK
    <2>3. \A t \in ending, u \in Tokens : tokens[u].family = tokens[t].family => u \in ending
      BY DEF Family
    <2>4. req[r].step = "revokeFamily"
      BY <1>5 DEF RevokeFamily
    <2> HIDE DEF ending
    <2> QED
      BY <2>1, <2>2, <2>3, <2>4, CookiesEnd
  <1>6. CASE RevokeToken(r)
    <2>1. PICK u \in Tokens : u = req[r].token
      BY <1>6, HeldTokens DEF RevokeToken, Holding
    <2>2. /\ {u} \in SUBSET Tokens /\ RevokeAll({u}) /\ UNCHANGED <<jar, failures>>
          /\ req[r].step = "revoke"
      BY <1>6, <2>1 DEF RevokeToken
    <2>3. /\ req'[r].step = "clear" /\ req'[r].account = req[r].account
          /\ \A q \in Requests \ {r} : req'[q] = req[q]
      BY <1>6, GotoTypes DEF RevokeToken, SessionsInv, TokensTypeOK, Steps
    <2>4. /\ \A t \in Tokens : /\ tokens'[t].family = tokens[t].family
                               /\ Unrevoked(t)' => Unrevoked(t)
          /\ \A t \in Tokens \ {u} : tokens'[t] = tokens[t]
      BY <2>2, RevokeTypes DEF SessionsInv, TokensTypeOK
    <2>5. \A t \in Tokens : (Unrevoked(t) /\ ~Unrevoked(t)') => t = req[r].token
      BY <2>1, <2>4 DEF Unrevoked
    <2> QED
      BY <2>2, <2>3, <2>4, <2>5, CookiesRevoked DEF Holding
  <1> QED
    BY <1>2, <1>3, <1>4, <1>5, <1>6 DEF ProceedSession

LEMMA CookiesWritten ==
    ASSUME SessionsInv, CookiesInv, NEW r \in Requests, \E q : Requests = {r, q},
           \/ Login(r) \/ FindEmail(r) \/ FindVerification(r) \/ FindUnverified(r)
           \/ FindAccount(r) \/ FindReset(r) \/ CreateAccount(r) \/ Verify(r)
           \/ SupportVerify(r) \/ Resend(r) \/ RequestReset(r) \/ ResetPassword(r) \/ Delete(r)
    PROVE  CookiesInv'
  <1> DEFINE a == req[r].account
  <1>0. req[r].step \notin {"respond", "clear"} /\ Busy(r) /\ a \in Accounts
    BY DEF Login, FindEmail, FindVerification, FindUnverified, FindAccount, FindReset,
           CreateAccount, Verify, SupportVerify, Resend, RequestReset, ResetPassword, Delete,
           Awaits, Busy, SessionsInv, HandlerInv
  <1>1. CASE Reject(r) \/ Refuse(r)
    BY <1>0, <1>1, CookiesGoOn DEF Reject, Refuse
  <1>2. CASE (Login(r) \/ Verify(r)) /\ ~Reject(r) /\ ~Refuse(r)
    <2>1. /\ req' = [req EXCEPT ![r].step = "issue", ![r].since = account[a].password]
          /\ UNCHANGED <<tokens, jar, failures>>
      BY <1>2 DEF Login, CheckPassword, Verify
    <2>2. account[a].password \in Nat
      BY <1>0 DEF SessionsInv, TokensTypeOK, AccountRow
    <2> QED
      BY <1>0, <2>1, <2>2, CookiesGoOn
  <1>3. CASE \/ FindEmail(r) \/ FindVerification(r) \/ FindUnverified(r)
             \/ FindAccount(r) \/ FindReset(r)
    <2>1. CASE \E s \in {"create", "write"} : Continue(r, s)
      BY <1>0, <2>1, CookiesGoOn DEF Continue, Steps, Holding
    <2> QED
      BY <1>1, <1>3, <2>1
         DEF FindEmail, FindVerification, FindUnverified, FindAccount, FindReset
  <1>4. CASE (CreateAccount(r) \/ SupportVerify(r) \/ Resend(r) \/ RequestReset(r)) /\ ~Reject(r)
    <2>1. (Goto(r, "issue") \/ Finish(r)) /\ UNCHANGED <<tokens, jar, failures>>
      BY <1>4 DEF CreateAccount, SupportVerify, Resend, RequestReset
    <2> QED
      BY <1>0, <2>1, CookiesGoOn DEF Steps, Holding
  <1>5. CASE (ResetPassword(r) \/ Delete(r)) /\ ~Reject(r)
    <2> DEFINE ending == {t \in Tokens : tokens[t].account = a}
    <2>1. /\ Finish(r) \/ Goto(r, "clear")
          /\ UNCHANGED <<jar, failures>>
          /\ ending \in SUBSET Tokens
      BY <1>5 DEF ResetPassword, Delete
    <2>2. \A t \in Tokens : /\ tokens'[t].family = tokens[t].family
                            /\ t \notin ending => tokens'[t] = tokens[t]
                            /\ t \in ending => ~Unrevoked(t)'
      <3>1. CASE ResetPassword(r) /\ ~Reject(r)
        <4>1. RevokeAll(ending)
          BY <3>1 DEF ResetPassword
        <4> HIDE DEF ending
        <4> QED
          BY <2>1, <4>1, RevokeTypes DEF SessionsInv, TokensTypeOK
      <3>2. CASE Delete(r) /\ ~Reject(r)
        <4>1. \A t \in Tokens : tokens[t] \in TokenRow
          BY DEF SessionsInv, TokensTypeOK
        <4> QED
          BY <3>2, <4>1 DEF Delete, DeleteAccount, TokenRow, Unrevoked
      <3> QED
        BY <1>5, <3>1, <3>2
    <2>3. ASSUME NEW t \in ending, NEW u \in Tokens, tokens[t] # NoToken,
                 tokens[u].family = tokens[t].family
          PROVE  u \in ending
      <3>1. tokens[t].account = a /\ u \in Family(tokens[t].family)
        BY <2>3 DEF Family
      <3> QED
        BY <1>0, <3>1, FamilyHasOneAccount
    <2> HIDE DEF ending
    <2> QED
      BY <1>0, <2>1, <2>2, <2>3, CookiesEnd
  <1> QED
    BY <1>1, <1>2, <1>3, <1>4, <1>5

LEMMA CookiesStep ==
    ASSUME MaxFailures = 0, NEW p, NEW q, Requests = {p, q}, SessionsInv, CookiesInv, Next
    PROVE  CookiesInv'
  <1>1. ASSUME NEW r \in Requests PROVE \E x : Requests = {r, x}
    <2>1. CASE r = p
      BY <2>1
    <2>2. CASE r = q
      <3>1. Requests = {r, p}
        BY <2>2
      <3> QED
        BY <3>1
    <2> QED
      BY <1>1, <2>1, <2>2
  <1>2. ASSUME NEW r \in Requests, Proceed(r) PROVE CookiesInv'
    BY <1>1, <1>2, CookiesProceed, CookiesWritten DEF Proceed
  <1>3. ASSUME NEW r \in Requests PROVE ~Fail(r)
    BY DEF Fail, CookiesInv
  <1>4. ASSUME NEW a \in Accounts, ExpireLink(a) PROVE CookiesInv'
    BY <1>4 DEF ExpireLink, CookiesInv, AnswerInv, CookieInv, Unrevoked, Live, Family
  <1> QED
    BY <1>2, <1>3, <1>4, CookiesStart, CookiesExpire DEF Next

\* Two requests at a time, of tabs that share a cookie, and no answer lost: what a browser
\* at rest holds is the good token of its session, unless that session has ended, so a
\* refresh can not end it, whatever else is called (refresh, setRefreshCookie).
THEOREM CookieAlwaysUnrevoked ==
    ASSUME MaxFailures = 0, \E p, q : Requests = {p, q}
    PROVE  Spec => []CookieIsUnrevoked
  <1>1. Init => CookiesInv
    BY DEF Init, TokenInit, CookiesInv, AnswerInv, CookieInv, Idle
  <1>2. SessionsInv /\ CookiesInv /\ [Next]_vars => CookiesInv'
    <2>1. CASE Next
      BY <2>1, CookiesStep
    <2>2. CASE UNCHANGED vars
      BY <2>2 DEF vars, tokenVars, CookiesInv, AnswerInv, CookieInv, Unrevoked, Live, Family
    <2> QED
      BY <2>1, <2>2
  <1>3. SessionsInv /\ CookiesInv => CookieIsUnrevoked
    BY DEF CookiesInv, CookieInv, CookieIsUnrevoked, Live
  <1> QED
    BY <1>1, <1>2, <1>3, SessionsHold, PTL DEF Spec
================================================================================
