-------------------------- MODULE SubscriptionsProofs --------------------------
(***************************************************************************)
(* Proofs about Subscriptions, for every set of organizations, every       *)
(* price, every number of concurrent requests, of calls and of losses.     *)
(***************************************************************************)
EXTENDS MCPayments, TLAPS

(***************************************************************************)
(* The handlers' records                                                   *)
(***************************************************************************)
LEMMA IdleIsRequest == Idle \in Request /\ Idle.step = "idle"
  BY DEF Idle, Request, Ops, Steps

LEMMA NoneIsNoRow == None \notin Rows /\ None \notin Txns
  BY Parameters DEF None, Rows, Txns

LEMMA GotoTypes ==
    ASSUME NEW r \in Requests, NEW s \in Steps, req \in [Requests -> Request], Goto(r, s)
    PROVE  /\ req' \in [Requests -> Request]
           /\ req'[r].step = s /\ req'[r].row = req[r].row /\ req'[r].txn = req[r].txn
           /\ \A q \in Requests \ {r} : req'[q] = req[q]
  <1> DEFINE new == [req[r] EXCEPT !.step = s]
  <1>1. new \in Request /\ new.step = s /\ new.row = req[r].row /\ new.txn = req[r].txn
    BY DEF Request
  <1>2. req' = [req EXCEPT ![r] = new]
    BY DEF Goto
  <1> HIDE DEF new
  <1> QED
    BY <1>1, <1>2

LEMMA FinishTypes ==
    ASSUME NEW r \in Requests, req \in [Requests -> Request], Finish(r)
    PROVE  /\ req' \in [Requests -> Request]
           /\ req'[r].step = "idle"
           /\ \A q \in Requests \ {r} : req'[q] = req[q]
  BY IdleIsRequest DEF Finish

Opens(r) == req[r].step \in Opening

(***************************************************************************)
(* What a step may change without disturbing the claims of the handlers    *)
(* that do not take it.                                                    *)
(***************************************************************************)
\* A step that leaves the rows, the sessions and the periods alone.
LEMMA FrameKeeps ==
    ASSUME SubscriptionsInv, NEW r \in Requests,
           UNCHANGED <<subs, session, bought>>, due' \subseteq due, notices' \subseteq notices,
           \A q \in Requests \ {r} : req'[q] = req[q],
           ~Opens(r)', HandlerInv(r)'
    PROVE  HandlersInv' /\ OpeningsInv' /\ SessionsInv' /\ ActiveWasPaid'
  <1> USE DEF SubscriptionsInv
  <1>1. HandlersInv'
    <2> SUFFICES ASSUME NEW q \in Requests \ {r} PROVE HandlerInv(q)'
      BY DEF HandlersInv
    <2> QED
      BY DEF HandlersInv, HandlerInv, Pending, Stamped
  <1>2. OpeningsInv'
    BY DEF OpeningsInv, Opens
  <1>3. SessionsInv' /\ ActiveWasPaid'
    BY DEF SessionsInv, ActiveWasPaid, Stamped
  <1> QED
    BY <1>1, <1>2, <1>3

\* A step that writes a row nobody else is opening.
LEMMA WriteKeeps ==
    ASSUME SubscriptionsInv, NEW r \in Requests, NEW s \in Rows, NEW new \in Row,
           subs' = [subs EXCEPT ![s] = new],
           UNCHANGED <<session, bought, due, notices>>,
           \A q \in Requests \ {r} : req'[q] = req[q],
           new.status # "NONE", Stamped(s) => new.session # None,
           new.status = "ACTIVE" =>
              \/ Price = 0 \/ session[s] = "paid"
              \/ new.txn # None /\ bought[new.txn] # Nowhere,
           \A q \in Requests \ {r} : Opens(q) => req[q].row # s,
           HandlerInv(r)',
           Opens(r)' => req'[r].row = s
    PROVE  HandlersInv' /\ OpeningsInv' /\ SessionsInv' /\ ActiveWasPaid'
  <1> USE DEF SubscriptionsInv
  <1>0. subs'[s] = new /\ \A p \in Rows \ {s} : subs'[p] = subs[p]
    BY DEF TypeOK
  <1>1. HandlersInv'
    <2> SUFFICES ASSUME NEW q \in Requests \ {r} PROVE HandlerInv(q)'
      BY DEF HandlersInv
    <2>1. HandlerInv(q) /\ req'[q] = req[q]
      BY DEF HandlersInv
    <2>2. CASE Opens(q)
      BY <1>0, <2>1, <2>2 DEF HandlerInv, Pending, Stamped, Opens, Opening
    <2>3. CASE ~Opens(q)
      BY <1>0, <2>1, <2>3 DEF HandlerInv, Stamped, Opens, Opening
    <2> QED
      BY <2>2, <2>3
  <1>2. OpeningsInv'
    BY DEF OpeningsInv, Opens
  <1>3. SessionsInv'
    <2>1. new # NoRow
      BY DEF NoRow
    <2> QED
      BY <1>0, <2>1 DEF SessionsInv, Stamped
  <1>4. ActiveWasPaid'
    BY <1>0 DEF ActiveWasPaid
  <1> QED
    BY <1>1, <1>2, <1>3, <1>4

(***************************************************************************)
(* A call arrives, or an event is delivered.                               *)
(***************************************************************************)
LEMMA ArrivalKeeps ==
    ASSUME SubscriptionsInv, NEW r \in Requests, NEW new \in Request,
           req' = [req EXCEPT ![r] = new], calls' \in Nat,
           UNCHANGED <<subs, orgVars, stripeVars, storeVars, failures>>,
           new.step \in {"check", "retrieve", "findRow", "attribute"},
           new.step = "retrieve" => new.row \in Rows,
           new.step = "findRow" => new.row \in Rows /\ session[new.row] = "paid",
           new.step = "attribute" => new.txn \in Txns /\ bought[new.txn] # Nowhere
    PROVE  SubscriptionsInv'
  <1> USE DEF orgVars, stripeVars, storeVars
  <1>1. req' \in [Requests -> Request] /\ req'[r] = new
        /\ \A q \in Requests \ {r} : req'[q] = req[q]
    BY DEF SubscriptionsInv, TypeOK
  <1>2. TypeOK'
    BY <1>1 DEF SubscriptionsInv, TypeOK
  <1>3. ~Opens(r)' /\ HandlerInv(r)'
    BY <1>1 DEF Opens, Opening, HandlerInv
  <1>4. HandlersInv' /\ OpeningsInv' /\ SessionsInv' /\ ActiveWasPaid'
    BY <1>1, <1>3, FrameKeeps
  <1> QED
    BY <1>2, <1>4 DEF SubscriptionsInv

LEMMA ArrivalSteps ==
    ASSUME SubscriptionsInv, NEW r \in Requests,
           \/ Start(r)
           \/ \E s \in Rows : Deliver(r, s)
           \/ \E t \in Txns : Notify(r, t)
    PROVE  SubscriptionsInv' /\ UNCHANGED <<subs, session>>
  <1> DEFINE Arrives(new) ==
               /\ req' = [req EXCEPT ![r] = new] /\ calls' \in Nat
               /\ UNCHANGED <<subs, orgVars, stripeVars, storeVars, failures>>
  <1>0. ASSUME NEW op, NEW step, NEW state, Accept(r, op, step, state)
        PROVE  Arrives([state EXCEPT !.op = op, !.step = step])
    BY <1>0 DEF Accept, Spend, SubscriptionsInv, TypeOK
  <1>1. CASE StartSubscribe(r)
    <2>1. PICK o \in Organizations :
            Accept(r, "subscribe", "check", [Idle EXCEPT !.organization = o])
      BY <1>1 DEF StartSubscribe
    <2> DEFINE state == [Idle EXCEPT !.organization = o]
               new == [state EXCEPT !.op = "subscribe", !.step = "check"]
    <2>2. new \in Request /\ new.step = "check"
      BY DEF Idle, Request, Ops, Steps
    <2>3. Arrives(new)
      BY <1>0, <2>1
    <2> HIDE DEF new
    <2> QED
      BY <2>2, <2>3, ArrivalKeeps DEF stripeVars
  <1>2. CASE StartConfirm(r)
    <2>1. PICK s \in Rows : Accept(r, "confirm", "retrieve", [Idle EXCEPT !.row = s])
      BY <1>2 DEF StartConfirm
    <2> DEFINE state == [Idle EXCEPT !.row = s]
               new == [state EXCEPT !.op = "confirm", !.step = "retrieve"]
    <2>2. new \in Request /\ new.step = "retrieve" /\ new.row = s
      BY DEF Idle, Request, Ops, Steps
    <2>3. Arrives(new)
      BY <1>0, <2>1
    <2> HIDE DEF new
    <2> QED
      BY <2>2, <2>3, ArrivalKeeps DEF stripeVars
  <1>3. CASE StartConfirmIap(r)
    <2>1. PICK t \in Txns :
            /\ bought[t] # Nowhere
            /\ Accept(r, "confirmIap", "check", [Idle EXCEPT !.organization = bought[t]])
      BY <1>3 DEF StartConfirmIap, Latest
    <2> DEFINE state == [Idle EXCEPT !.organization = bought[t]]
               new == [state EXCEPT !.op = "confirmIap", !.step = "check"]
    <2>2. new \in Request /\ new.step = "check"
      BY DEF Idle, Request, Ops, Steps, SubscriptionsInv, TypeOK
    <2>3. Arrives(new)
      BY <1>0, <2>1
    <2> HIDE DEF new
    <2> QED
      BY <2>2, <2>3, ArrivalKeeps DEF stripeVars
  <1>4. CASE Redeliver(r)
    <2>1. PICK s \in Rows :
            /\ session[s] = "paid"
            /\ Accept(r, "webhook", "findRow", [Idle EXCEPT !.row = s])
      BY <1>4 DEF Redeliver
    <2> DEFINE state == [Idle EXCEPT !.row = s]
               new == [state EXCEPT !.op = "webhook", !.step = "findRow"]
    <2>2. new \in Request /\ new.step = "findRow" /\ new.row = s
      BY DEF Idle, Request, Ops, Steps
    <2>3. Arrives(new)
      BY <1>0, <2>1
    <2> HIDE DEF new
    <2> QED
      BY <2>1, <2>2, <2>3, ArrivalKeeps DEF stripeVars
  <1>5. ASSUME NEW s \in Rows, Deliver(r, s)
        PROVE  SubscriptionsInv' /\ UNCHANGED <<subs, session>>
    <2> DEFINE new == [Idle EXCEPT !.op = "webhook", !.step = "findRow", !.row = s]
    <2>1. new \in Request /\ new.step = "findRow" /\ new.row = s
      BY DEF Idle, Request, Ops, Steps
    <2>2. Arrives(new) /\ session[s] = "paid"
      BY <1>5 DEF Deliver, NoWrites, SubscriptionsInv, TypeOK, SessionsInv
    <2> HIDE DEF new
    <2> QED
      BY <2>1, <2>2, ArrivalKeeps DEF stripeVars
  <1>6. ASSUME NEW t \in Txns, Notify(r, t)
        PROVE  SubscriptionsInv' /\ UNCHANGED <<subs, session>>
    <2> DEFINE new == [Idle EXCEPT !.op = "notice", !.step = "attribute", !.txn = t]
    <2>1. new \in Request /\ new.step = "attribute" /\ new.txn = t
      BY DEF Idle, Request, Ops, Steps
    <2>2. Arrives(new) /\ bought[t] # Nowhere
      BY <1>6 DEF Notify, NoWrites, SubscriptionsInv, TypeOK, SessionsInv
    <2> HIDE DEF new
    <2> QED
      BY <2>1, <2>2, ArrivalKeeps DEF stripeVars
  <1> QED
    BY <1>1, <1>2, <1>3, <1>4, <1>5, <1>6 DEF Start

(***************************************************************************)
(* Steps that write no row and no session.                                 *)
(***************************************************************************)
LEMMA ReadingSteps ==
    ASSUME SubscriptionsInv, NEW r \in Requests,
           \/ CheckNotSubscribed(r) \/ RetrieveSession(r) \/ SendReceipt(r) \/ Fail(r)
           \/ FetchSubscriber(r) \/ Attribute(r) \/ FindTransaction(r) \/ FindRow(r)
    PROVE  SubscriptionsInv' /\ UNCHANGED <<subs, session>>
  <1> USE DEF NoWrites, orgVars, stripeVars, storeVars
  <1>0. /\ req[r] \in Request /\ HandlerInv(r) /\ TypeOK
        /\ req \in [Requests -> Request]
    BY DEF SubscriptionsInv, TypeOK, HandlersInv
  <1>1. /\ UNCHANGED <<subs, over, suspended, oldest, session, bought, calls>>
        /\ due' \subseteq due /\ notices' \subseteq notices /\ failures' \in Nat
    BY <1>0 DEF CheckNotSubscribed, RetrieveSession, SendReceipt, Fail, FetchSubscriber,
                Attribute, FindTransaction, FindRow, Answer, TypeOK
  <1> DEFINE Moves == /\ req' \in [Requests -> Request]
                      /\ \A q \in Requests \ {r} : req'[q] = req[q]
                      /\ ~Opens(r)' /\ HandlerInv(r)'
  <1>2. Moves
    <2>1. CASE Finish(r)
      <3>1. Moves
        BY <1>0, <2>1, FinishTypes DEF Opens, Opening, HandlerInv
      <3> QED
        BY <3>1
    <2>2. CASE CheckNotSubscribed(r) /\ ~Finish(r)
      <3>1. PICK step \in {"fetch", "createActive", "createPending"} :
              Goto(r, step) /\ (step = "createActive" => Price = 0)
        BY <2>2 DEF CheckNotSubscribed
      <3>2. step \in Steps
        BY DEF Steps
      <3>3. Moves
        BY <1>0, <3>1, <3>2, GotoTypes DEF Opens, Opening, HandlerInv
      <3> QED
        BY <3>3
    <2>3. CASE RetrieveSession(r) /\ ~Finish(r)
      <3>1. Goto(r, "findRow") /\ req[r].row \in Rows /\ session[req[r].row] = "paid"
        BY <1>0, <2>3 DEF RetrieveSession, HandlerInv
      <3>2. Moves
        BY <1>0, <1>1, <3>1, GotoTypes DEF Opens, Opening, HandlerInv, Steps
      <3> QED
        BY <3>2
    <2>4. CASE FindRow(r) /\ ~Finish(r)
      <3>1. /\ Goto(r, "record") /\ req[r].row \in Rows
            /\ session[req[r].row] = "paid" /\ Stamped(req[r].row)
        BY <1>0, <2>4 DEF FindRow, Answer, HandlerInv
      <3>2. Moves
        BY <1>0, <1>1, <3>1, GotoTypes DEF Opens, Opening, HandlerInv, Steps, Stamped
      <3> QED
        BY <3>2
    <2>5. CASE FetchSubscriber(r) /\ ~Finish(r)
      <3>1. PICK t \in Txns :
              /\ bought[t] # Nowhere
              /\ req' = [req EXCEPT ![r].step = "findTxn", ![r].txn = t]
        BY <2>5 DEF FetchSubscriber
      <3> DEFINE new == [req[r] EXCEPT !.step = "findTxn", !.txn = t]
      <3>2. new \in Request /\ new.step = "findTxn" /\ new.txn = t
        BY <1>0 DEF Request, Steps
      <3>3. req' = [req EXCEPT ![r] = new]
        BY <3>1
      <3> HIDE DEF new
      <3>4. /\ req' \in [Requests -> Request] /\ req'[r] = new
            /\ \A q \in Requests \ {r} : req'[q] = req[q]
        BY <1>0, <3>2, <3>3
      <3>5. ~Opens(r)' /\ HandlerInv(r)'
        BY <1>1, <3>1, <3>2, <3>4 DEF Opens, Opening, HandlerInv
      <3> QED
        BY <3>4, <3>5
    <2>6. CASE Attribute(r) /\ ~Finish(r)
      <3> DEFINE new == [req[r] EXCEPT !.step = "findTxn", !.organization = oldest]
      <3>1. req' = [req EXCEPT ![r] = new]
        BY <2>6 DEF Attribute, Answer
      <3>2. new \in Request /\ new.step = "findTxn" /\ new.txn = req[r].txn
        BY <1>0 DEF Request, Steps, TypeOK
      <3> HIDE DEF new
      <3>3. req[r].txn \in Txns /\ bought[req[r].txn] # Nowhere
        BY <1>0, <2>6 DEF Attribute, HandlerInv
      <3>4. Moves
        BY <1>0, <1>1, <3>1, <3>2, <3>3 DEF Opens, Opening, HandlerInv
      <3> QED
        BY <3>4
    <2>7. CASE FindTransaction(r) /\ ~Finish(r)
      <3>1. Goto(r, "recordIap") /\ req[r].txn \in Txns /\ bought[req[r].txn] # Nowhere
        BY <1>0, <2>7 DEF FindTransaction, Answer, HandlerInv
      <3>2. Moves
        BY <1>0, <1>1, <3>1, GotoTypes DEF Opens, Opening, HandlerInv, Steps
      <3> QED
        BY <3>2
    <2> QED
      BY <2>1, <2>2, <2>3, <2>4, <2>5, <2>6, <2>7 DEF SendReceipt, Answer, Fail
  <1>3. TypeOK'
    BY <1>0, <1>1, <1>2 DEF TypeOK
  <1>4. HandlersInv' /\ OpeningsInv' /\ SessionsInv' /\ ActiveWasPaid'
    BY <1>1, <1>2, FrameKeeps
  <1> QED
    BY <1>1, <1>3, <1>4 DEF SubscriptionsInv

(***************************************************************************)
(* Creating rows.                                                          *)
(***************************************************************************)
LEMMA FreshIsOne ==
    ASSUME NEW s \in Rows, NEW p \in Rows, Fresh(s), Fresh(p)
    PROVE  s = p
  <1>1. s \in Int /\ p \in Int
    BY DEF Rows
  <1>2. ~(s < p) /\ ~(p < s)
    BY DEF Fresh
  <1> QED
    BY <1>1, <1>2

\* Nobody works for a row that does not exist.
LEMMA FreshIsUnused ==
    ASSUME SubscriptionsInv, NEW s \in Rows, Fresh(s)
    PROVE  /\ subs[s] = NoRow /\ ~Stamped(s) /\ session[s] = "none"
           /\ \A q \in Requests : Opens(q) => req[q].row # s
           /\ \A q \in Requests : req[q].step = "record" => req[q].row # s
  <1>1. subs[s] = NoRow /\ ~Stamped(s) /\ session[s] = "none"
    BY DEF Fresh, NoRow, Stamped, SubscriptionsInv, SessionsInv
  <1>2. subs[s].status = "NONE"
    BY <1>1 DEF NoRow
  <1> QED
    BY <1>1, <1>2 DEF SubscriptionsInv, HandlersInv, HandlerInv, Opens, Pending

LEMMA CreateWrites ==
    ASSUME NEW status \in {"PENDING_PAYMENT", "ACTIVE"},
           NEW organization \in Organizations \cup {Nowhere}, NEW txn \in Txns \cup {None},
           Create(status, organization, txn)
    PROVE  \E s \in Rows, new \in Row :
             /\ Fresh(s) /\ subs' = [subs EXCEPT ![s] = new]
             /\ new.status = status /\ new.organization = organization
             /\ new.txn = txn /\ new.session = None
  <1>1. PICK s \in Rows :
          /\ Fresh(s)
          /\ subs' = [subs EXCEPT ![s] = [NoRow EXCEPT !.status = status, !.txn = txn,
                                                       !.organization = organization]]
    BY DEF Create
  <1> DEFINE new == [NoRow EXCEPT !.status = status, !.txn = txn,
                                  !.organization = organization]
  <1>2. /\ new \in Row /\ new.status = status /\ new.organization = organization
        /\ new.txn = txn /\ new.session = None
    BY DEF NoRow, Row
  <1> HIDE DEF new
  <1> QED
    BY <1>1, <1>2 DEF new

LEMMA CreateActiveStep ==
    ASSUME SubscriptionsInv, NEW r \in Requests, CreateActive(r)
    PROVE  SubscriptionsInv'
  <1>0. TypeOK /\ req[r] \in Request /\ HandlerInv(r)
    BY DEF SubscriptionsInv, TypeOK, HandlersInv
  <1>1. Price = 0 /\ req[r].organization \in Organizations \cup {Nowhere}
    BY <1>0 DEF CreateActive, HandlerInv, Request
  <1>2. PICK s \in Rows, new \in Row :
          /\ Fresh(s) /\ subs' = [subs EXCEPT ![s] = new]
          /\ new.status = "ACTIVE" /\ new.txn = None
    BY <1>1, CreateWrites DEF CreateActive
  <1>3. /\ UNCHANGED <<session, bought, due, notices, over, suspended, oldest, calls, failures>>
        /\ req' \in [Requests -> Request] /\ req'[r].step = "idle"
        /\ \A q \in Requests \ {r} : req'[q] = req[q]
    BY <1>0, FinishTypes DEF CreateActive, OnlyRows, orgVars, stripeVars, storeVars, TypeOK
  <1>4. TypeOK'
    BY <1>0, <1>2, <1>3 DEF TypeOK
  <1>5. HandlerInv(r)' /\ ~Opens(r)'
    BY <1>3 DEF HandlerInv, Opens, Opening
  <1>6. ~Stamped(s) /\ \A q \in Requests : Opens(q) => req[q].row # s
    BY <1>2, FreshIsUnused
  <1>7. HandlersInv' /\ OpeningsInv' /\ SessionsInv' /\ ActiveWasPaid'
    BY <1>1, <1>2, <1>3, <1>5, <1>6, WriteKeeps
  <1> QED
    BY <1>4, <1>7 DEF SubscriptionsInv

LEMMA CreatePendingStep ==
    ASSUME SubscriptionsInv, NEW r \in Requests, CreatePending(r)
    PROVE  SubscriptionsInv'
  <1>0. TypeOK /\ req[r] \in Request
    BY DEF SubscriptionsInv, TypeOK
  <1>1. req[r].organization \in Organizations \cup {Nowhere}
    BY <1>0 DEF Request
  <1>2. PICK s \in Rows, new \in Row :
          /\ Fresh(s) /\ subs' = [subs EXCEPT ![s] = new]
          /\ new.status = "PENDING_PAYMENT" /\ new.txn = None /\ new.session = None
    BY <1>1, CreateWrites DEF CreatePending
  <1> DEFINE first == CHOOSE p \in Rows : Fresh(p)
  <1>3. first = s
    BY <1>2, FreshIsOne
  <1> DEFINE mine == [req[r] EXCEPT !.step = "checkout", !.row = s]
  <1>4. mine \in Request /\ mine.step = "checkout" /\ mine.row = s
    BY <1>0 DEF Request, Steps
  <1>5. req' = [req EXCEPT ![r].step = "checkout", ![r].row = first]
    BY Zenon DEF CreatePending
  <1> HIDE DEF first
  <1>6. req' = [req EXCEPT ![r] = mine]
    BY <1>3, <1>5
  <1> HIDE DEF mine
  <1>7. /\ UNCHANGED <<session, bought, due, notices, over, suspended, oldest, calls, failures>>
        /\ req' \in [Requests -> Request] /\ req'[r] = mine
        /\ \A q \in Requests \ {r} : req'[q] = req[q]
    BY <1>0, <1>4, <1>6 DEF CreatePending, OnlyRows, orgVars, stripeVars, storeVars, TypeOK
  <1>8. TypeOK'
    BY <1>0, <1>2, <1>7 DEF TypeOK
  <1>9. subs'[s] = new
    BY <1>0, <1>2 DEF TypeOK
  <1>10. HandlerInv(r)' /\ (Opens(r)' => req'[r].row = s)
    BY <1>2, <1>4, <1>7, <1>9, FreshIsUnused
       DEF HandlerInv, Opens, Opening, Pending, Stamped
  <1>11. ~Stamped(s) /\ \A q \in Requests : Opens(q) => req[q].row # s
    BY <1>2, FreshIsUnused
  <1>12. HandlersInv' /\ OpeningsInv' /\ SessionsInv' /\ ActiveWasPaid'
    BY <1>2, <1>7, <1>10, <1>11, WriteKeeps
  <1> QED
    BY <1>8, <1>12 DEF SubscriptionsInv

LEMMA RecordPeriodStep ==
    ASSUME SubscriptionsInv, NEW r \in Requests, RecordPeriod(r)
    PROVE  SubscriptionsInv'
  <1> USE DEF OnlyRows, orgVars, stripeVars, storeVars
  <1>0. TypeOK /\ req[r] \in Request /\ HandlerInv(r) /\ req \in [Requests -> Request]
    BY DEF SubscriptionsInv, TypeOK, HandlersInv
  <1>1. /\ req[r].txn \in Txns /\ bought[req[r].txn] # Nowhere
        /\ req[r].organization \in Organizations \cup {Nowhere}
    BY <1>0 DEF RecordPeriod, HandlerInv, Request
  <1>2. UNCHANGED <<session, bought, due, notices, over, suspended, oldest, calls, failures>>
    BY DEF RecordPeriod
  <1>3. CASE Create("ACTIVE", req[r].organization, req[r].txn) /\ Goto(r, "receipt")
    <2>1. PICK s \in Rows, new \in Row :
            /\ Fresh(s) /\ subs' = [subs EXCEPT ![s] = new]
            /\ new.status = "ACTIVE" /\ new.txn = req[r].txn
      BY <1>1, <1>3, CreateWrites
    <2>2. /\ req' \in [Requests -> Request] /\ req'[r].step = "receipt"
          /\ \A q \in Requests \ {r} : req'[q] = req[q]
      BY <1>0, <1>3, GotoTypes DEF Steps
    <2>3. TypeOK'
      BY <1>0, <1>2, <2>1, <2>2 DEF TypeOK
    <2>4. HandlerInv(r)' /\ ~Opens(r)'
      BY <2>2 DEF HandlerInv, Opens, Opening
    <2>5. ~Stamped(s) /\ \A q \in Requests : Opens(q) => req[q].row # s
      BY <2>1, FreshIsUnused
    <2>6. new.txn # None /\ bought[new.txn] # Nowhere
      BY <1>1, <2>1, NoneIsNoRow
    <2>7. HandlersInv' /\ OpeningsInv' /\ SessionsInv' /\ ActiveWasPaid'
      BY <1>2, <2>1, <2>2, <2>4, <2>5, <2>6, WriteKeeps
    <2> QED
      BY <2>3, <2>7 DEF SubscriptionsInv
  <1>4. CASE Finish(r) /\ UNCHANGED subs
    <2>1. /\ req' \in [Requests -> Request] /\ req'[r].step = "idle"
          /\ \A q \in Requests \ {r} : req'[q] = req[q]
      BY <1>0, <1>4, FinishTypes
    <2>2. HandlerInv(r)' /\ ~Opens(r)'
      BY <2>1 DEF HandlerInv, Opens, Opening
    <2>3. TypeOK' /\ HandlersInv' /\ OpeningsInv' /\ SessionsInv' /\ ActiveWasPaid'
      BY <1>0, <1>2, <1>4, <2>1, <2>2, FrameKeeps DEF TypeOK
    <2> QED
      BY <2>3 DEF SubscriptionsInv
  <1> QED
    BY <1>3, <1>4 DEF RecordPeriod

(***************************************************************************)
(* The checkout of a row: its session is made, stamped, handed out, paid   *)
(* and recorded.                                                           *)
(***************************************************************************)
\* What the handler that opens a checkout knows of it, and nobody else does.
LEMMA OpeningRow ==
    ASSUME SubscriptionsInv, NEW r \in Requests, Opens(r)
    PROVE  /\ req[r].row \in Rows /\ Pending(req[r].row) /\ subs[req[r].row].txn = None
           /\ \A q \in Requests \ {r} : Opens(q) => req[q].row # req[r].row
           /\ session[req[r].row] \in {"none", "created"}
           /\ req[r].row \notin due
  <1>1. HandlerInv(r) /\ OpeningsInv /\ SessionsInv
    BY DEF SubscriptionsInv, HandlersInv
  <1>2. session[req[r].row] \in {"none", "created"}
    BY <1>1 DEF Opens, Opening, HandlerInv
  <1> QED
    BY <1>1, <1>2 DEF Opens, OpeningsInv, SessionsInv, HandlerInv

\* A step that changes one session, unpaid till then, whose row nobody else is opening.
LEMMA SessionKeeps ==
    ASSUME SubscriptionsInv, NEW s \in Rows, NEW x \in {"created", "offered", "paid"},
           session[s] # "paid", session' = [session EXCEPT ![s] = x],
           UNCHANGED <<subs, bought, notices>>,
           due' \subseteq due \cup {s}, x # "paid" => due' = due,
           subs[s] # NoRow, x # "created" => Stamped(s),
           NEW opener \in SUBSET Requests,
           \A q \in opener : HandlerInv(q)' /\ (Opens(q)' => req'[q].row = s),
           \A q \in Requests \ opener : req'[q] = req[q],
           \A q \in Requests \ opener : Opens(q) => req[q].row # s,
           \A p, q \in opener : p = q
    PROVE  HandlersInv' /\ OpeningsInv' /\ SessionsInv' /\ ActiveWasPaid'
  <1> USE DEF SubscriptionsInv
  <1>0. session'[s] = x /\ \A p \in Rows \ {s} : session'[p] = session[p]
    BY DEF TypeOK
  <1>1. HandlersInv'
    <2> SUFFICES ASSUME NEW q \in Requests \ opener PROVE HandlerInv(q)'
      BY DEF HandlersInv
    <2>1. HandlerInv(q) /\ req'[q] = req[q]
      BY DEF HandlersInv
    <2>2. CASE Opens(q)
      BY <1>0, <2>1, <2>2 DEF HandlerInv, Pending, Stamped, Opens, Opening
    <2>3. CASE ~Opens(q)
      BY <1>0, <2>1, <2>3 DEF HandlerInv, Stamped, Opens, Opening
    <2> QED
      BY <2>2, <2>3
  <1>2. OpeningsInv'
    BY DEF OpeningsInv, Opens
  <1>3. SessionsInv' /\ ActiveWasPaid'
    BY <1>0 DEF SessionsInv, Stamped, ActiveWasPaid
  <1> QED
    BY <1>1, <1>2, <1>3

LEMMA CreateCheckoutStep ==
    ASSUME SubscriptionsInv, NEW r \in Requests, CreateCheckout(r)
    PROVE  SubscriptionsInv'
  <1> USE DEF OnlySessions, orgVars, storeVars
  <1>0. TypeOK /\ Opens(r) /\ HandlerInv(r) /\ req \in [Requests -> Request]
    BY DEF CreateCheckout, Opens, Opening, SubscriptionsInv, TypeOK, HandlersInv
  <1>1. PICK s \in Rows :
          /\ s = req[r].row /\ Pending(s) /\ subs[s].txn = None
          /\ session[s] = "none" /\ ~Stamped(s)
    BY <1>0, OpeningRow DEF CreateCheckout, HandlerInv
  <1>2. \A q \in Requests \ {r} : Opens(q) => req[q].row # s
    BY <1>0, <1>1, OpeningRow
  <1>3. /\ session' = [session EXCEPT ![s] = "created"]
        /\ UNCHANGED <<subs, over, suspended, oldest, due, bought, notices, calls, failures>>
    BY <1>1 DEF CreateCheckout
  <1>4. /\ req' \in [Requests -> Request] /\ req'[r].step = "stamp" /\ req'[r].row = s
        /\ \A q \in Requests \ {r} : req'[q] = req[q]
    BY <1>0, <1>1, GotoTypes DEF CreateCheckout, Steps
  <1>5. TypeOK'
    BY <1>0, <1>1, <1>3, <1>4 DEF TypeOK
  <1>6. HandlerInv(r)' /\ (Opens(r)' => req'[r].row = s)
    BY <1>0, <1>1, <1>3, <1>4 DEF HandlerInv, Opens, Opening, Pending, Stamped, TypeOK
  <1>7. subs[s] # NoRow
    BY <1>1 DEF Pending, NoRow
  <1>8. HandlersInv' /\ OpeningsInv' /\ SessionsInv' /\ ActiveWasPaid'
    <2> DEFINE opener == {r}
    <2>1. /\ opener \in SUBSET Requests
          /\ \A q \in opener : HandlerInv(q)' /\ (Opens(q)' => req'[q].row = s)
          /\ \A q \in Requests \ opener : req'[q] = req[q]
          /\ \A q \in Requests \ opener : Opens(q) => req[q].row # s
          /\ \A p, q \in opener : p = q
      BY <1>2, <1>4, <1>6
    <2> HIDE DEF opener
    <2> QED
      BY <1>1, <1>3, <1>7, <2>1, SessionKeeps
  <1> QED
    BY <1>5, <1>8 DEF SubscriptionsInv

LEMMA RespondStep ==
    ASSUME SubscriptionsInv, NEW r \in Requests, Respond(r)
    PROVE  SubscriptionsInv'
  <1> USE DEF OnlySessions, orgVars, storeVars
  <1>0. TypeOK /\ Opens(r) /\ HandlerInv(r) /\ req \in [Requests -> Request]
    BY DEF Respond, Opens, Opening, SubscriptionsInv, TypeOK, HandlersInv
  <1>1. PICK s \in Rows :
          s = req[r].row /\ Pending(s) /\ session[s] = "created" /\ Stamped(s)
    BY <1>0, OpeningRow DEF Respond, HandlerInv
  <1>2. \A q \in Requests \ {r} : Opens(q) => req[q].row # s
    BY <1>0, <1>1, OpeningRow
  <1>3. /\ session' = [session EXCEPT ![s] = "offered"]
        /\ UNCHANGED <<subs, over, suspended, oldest, due, bought, notices, calls, failures>>
    BY <1>1 DEF Respond
  <1>4. /\ req' \in [Requests -> Request] /\ req'[r].step = "idle"
        /\ \A q \in Requests \ {r} : req'[q] = req[q]
    BY <1>0, FinishTypes DEF Respond
  <1>5. TypeOK'
    BY <1>0, <1>1, <1>3, <1>4 DEF TypeOK
  <1>6. HandlerInv(r)' /\ ~Opens(r)'
    BY <1>4 DEF HandlerInv, Opens, Opening
  <1>7. subs[s] # NoRow
    BY <1>1 DEF Pending, NoRow
  <1>8. HandlersInv' /\ OpeningsInv' /\ SessionsInv' /\ ActiveWasPaid'
    <2> DEFINE opener == {r}
    <2>1. /\ opener \in SUBSET Requests
          /\ \A q \in opener : HandlerInv(q)' /\ (Opens(q)' => req'[q].row = s)
          /\ \A q \in Requests \ opener : req'[q] = req[q]
          /\ \A q \in Requests \ opener : Opens(q) => req[q].row # s
          /\ \A p, q \in opener : p = q
      BY <1>2, <1>4, <1>6
    <2> HIDE DEF opener
    <2> QED
      BY <1>1, <1>3, <1>7, <2>1, SessionKeeps
  <1> QED
    BY <1>5, <1>8 DEF SubscriptionsInv

LEMMA PayStep ==
    ASSUME SubscriptionsInv, NEW s \in Rows, Pay(s)
    PROVE  SubscriptionsInv'
  <1> USE DEF orgVars, storeVars
  <1>1. /\ session[s] = "offered" /\ session' = [session EXCEPT ![s] = "paid"]
        /\ due' = due \cup {s}
        /\ UNCHANGED <<subs, over, suspended, oldest, bought, notices, req, calls, failures>>
    BY DEF Pay
  <1>2. TypeOK /\ TypeOK'
    BY <1>1 DEF SubscriptionsInv, TypeOK
  <1>3. Stamped(s) /\ subs[s] # NoRow
    BY <1>1 DEF SubscriptionsInv, SessionsInv, Stamped, NoRow
  <1>4. \A q \in Requests : Opens(q) => req[q].row # s
    BY <1>1, OpeningRow
  <1>5. HandlersInv' /\ OpeningsInv' /\ SessionsInv' /\ ActiveWasPaid'
    <2> DEFINE opener == {}
    <2>1. /\ opener \in SUBSET Requests
          /\ \A q \in opener : HandlerInv(q)' /\ (Opens(q)' => req'[q].row = s)
          /\ \A q \in Requests \ opener : req'[q] = req[q]
          /\ \A q \in Requests \ opener : Opens(q) => req[q].row # s
          /\ \A p, q \in opener : p = q
      BY <1>1, <1>4
    <2> HIDE DEF opener
    <2> QED
      BY <1>1, <1>3, <2>1, SessionKeeps
  <1> QED
    BY <1>2, <1>5 DEF SubscriptionsInv

LEMMA StampStep ==
    ASSUME SubscriptionsInv, NEW r \in Requests, StampSession(r)
    PROVE  SubscriptionsInv'
  <1> USE DEF OnlyRows, orgVars, stripeVars, storeVars
  <1>0. TypeOK /\ Opens(r) /\ HandlerInv(r) /\ req \in [Requests -> Request]
    BY DEF StampSession, Opens, Opening, SubscriptionsInv, TypeOK, HandlersInv
  <1>1. PICK s \in Rows : s = req[r].row /\ Pending(s) /\ session[s] = "created"
    BY <1>0, OpeningRow DEF StampSession, HandlerInv
  <1>2. \A q \in Requests \ {r} : Opens(q) => req[q].row # s
    BY <1>0, <1>1, OpeningRow
  <1> DEFINE new == [subs[s] EXCEPT !.session = s]
  <1>3. /\ new \in Row /\ new.status = "PENDING_PAYMENT" /\ new.session = s
        /\ new.txn = None
    BY <1>0, <1>1, OpeningRow DEF TypeOK, Row, Pending
  <1>4. /\ subs' = [subs EXCEPT ![s] = new]
        /\ UNCHANGED <<over, suspended, oldest, session, due, bought, notices, calls, failures>>
    BY <1>1 DEF StampSession
  <1> HIDE DEF new
  <1>5. /\ req' \in [Requests -> Request] /\ req'[r].step = "respond" /\ req'[r].row = s
        /\ \A q \in Requests \ {r} : req'[q] = req[q]
    BY <1>0, <1>1, GotoTypes DEF StampSession, Steps
  <1>6. TypeOK' /\ subs'[s] = new
    BY <1>0, <1>3, <1>4, <1>5 DEF TypeOK
  <1>7. HandlerInv(r)' /\ (Opens(r)' => req'[r].row = s)
    BY <1>1, <1>3, <1>4, <1>5, <1>6, NoneIsNoRow DEF HandlerInv, Opens, Opening, Pending, Stamped
  <1>8. s # None
    BY NoneIsNoRow
  <1>9. HandlersInv' /\ OpeningsInv' /\ SessionsInv' /\ ActiveWasPaid'
    BY <1>2, <1>3, <1>4, <1>5, <1>7, <1>8, WriteKeeps
  <1> QED
    BY <1>6, <1>9 DEF SubscriptionsInv

LEMMA RecordPaymentStep ==
    ASSUME SubscriptionsInv, NEW r \in Requests, RecordPayment(r)
    PROVE  SubscriptionsInv'
  <1> USE DEF stripeVars, storeVars
  <1>0. TypeOK /\ HandlerInv(r) /\ req \in [Requests -> Request]
    BY DEF SubscriptionsInv, TypeOK, HandlersInv
  <1>1. PICK s \in Rows : s = req[r].row /\ session[s] = "paid" /\ Stamped(s)
    BY <1>0 DEF RecordPayment, HandlerInv
  <1>2. \A q \in Requests : Opens(q) => req[q].row # s
    BY <1>1, OpeningRow
  <1> DEFINE new == [subs[s] EXCEPT !.status = "ACTIVE"]
  <1>3. new \in Row /\ new.status = "ACTIVE" /\ new.session = subs[s].session
    BY <1>0 DEF TypeOK, Row
  <1>4. /\ subs' = [subs EXCEPT ![s] = new] /\ over' \subseteq over
        /\ UNCHANGED <<suspended, oldest, session, due, bought, notices, calls, failures>>
    BY <1>1 DEF RecordPayment
  <1> HIDE DEF new
  <1>5. /\ req' \in [Requests -> Request] /\ req'[r].step = "receipt"
        /\ \A q \in Requests \ {r} : req'[q] = req[q]
    BY <1>0, GotoTypes DEF RecordPayment, Steps
  <1>6. TypeOK'
    BY <1>0, <1>3, <1>4, <1>5 DEF TypeOK
  <1>7. HandlerInv(r)' /\ ~Opens(r)'
    BY <1>5 DEF HandlerInv, Opens, Opening
  <1>8. new.session # None
    BY <1>1, <1>3 DEF Stamped
  <1>9. HandlersInv' /\ OpeningsInv' /\ SessionsInv' /\ ActiveWasPaid'
    BY <1>1, <1>2, <1>3, <1>4, <1>5, <1>7, <1>8, WriteKeeps
  <1> QED
    BY <1>6, <1>9 DEF SubscriptionsInv

(***************************************************************************)
(* Time, the store, the super admin and the buyer's memberships.           *)
(***************************************************************************)
LEMMA OutsideSteps ==
    ASSUME SubscriptionsInv, StartPeriod \/ Expire \/ ChangeSuspension \/ ChangeMembership
    PROVE  SubscriptionsInv' /\ UNCHANGED <<subs, session>>
  <1> USE DEF stripeVars, storeVars, orgVars
  <1>0. TypeOK
    BY DEF SubscriptionsInv
  <1>1. UNCHANGED <<subs, session, due, req, failures>> /\ calls' \in Nat
    BY <1>0 DEF StartPeriod, Expire, ChangeSuspension, ChangeMembership, Spend, TypeOK
  <1>2. /\ bought' \in [Txns -> Organizations \cup {Nowhere}]
        /\ \A t \in Txns : bought[t] # Nowhere => bought'[t] # Nowhere
        /\ notices' \subseteq Txns /\ \A t \in notices' : bought'[t] # Nowhere
    <2>1. CASE StartPeriod
      <3>1. PICK t \in Txns, o \in Organizations :
              bought' = [bought EXCEPT ![t] = o] /\ notices' = notices \cup {t}
        BY <2>1 DEF StartPeriod
      <3>2. o # Nowhere
        BY Parameters
      <3>3. /\ bought' \in [Txns -> Organizations \cup {Nowhere}] /\ bought'[t] = o
            /\ \A u \in Txns \ {t} : bought'[u] = bought[u]
        BY <1>0, <3>1 DEF TypeOK
      <3> QED
        BY <1>0, <3>1, <3>2, <3>3 DEF TypeOK, SubscriptionsInv, SessionsInv
    <2>2. CASE UNCHANGED <<bought, notices>>
      BY <1>0, <2>2 DEF TypeOK, SubscriptionsInv, SessionsInv
    <2> QED
      BY <2>1, <2>2 DEF Expire, ChangeSuspension, ChangeMembership
  <1>3. /\ over' \subseteq ({"row"} \X Rows) \cup ({"period"} \X Txns)
        /\ suspended' \subseteq Organizations /\ oldest' \in Organizations \cup {Nowhere}
    <2>1. CASE UNCHANGED <<over, suspended>> \/ UNCHANGED <<suspended, oldest>>
               \/ UNCHANGED <<over, oldest>>
      BY <1>0, <2>1 DEF StartPeriod, Expire, ChangeSuspension, ChangeMembership, TypeOK
    <2> QED
      BY <2>1 DEF StartPeriod, Expire, ChangeSuspension, ChangeMembership
  <1>4. TypeOK'
    BY <1>0, <1>1, <1>2, <1>3 DEF TypeOK
  <1>5. HandlersInv'
    BY <1>1, <1>2 DEF SubscriptionsInv, HandlersInv, HandlerInv, Pending, Stamped
  <1>6. OpeningsInv' /\ SessionsInv'
    BY <1>1, <1>2 DEF SubscriptionsInv, OpeningsInv, SessionsInv, Stamped
  <1>7. ActiveWasPaid'
    BY <1>0, <1>1, <1>2 DEF SubscriptionsInv, ActiveWasPaid, TypeOK, Row
  <1> QED
    BY <1>1, <1>4, <1>5, <1>6, <1>7 DEF SubscriptionsInv

(***************************************************************************)
(* The invariant                                                           *)
(***************************************************************************)
LEMMA SubscriptionsInitially == Init => SubscriptionsInv
  <1> SUFFICES ASSUME Init PROVE SubscriptionsInv
    OBVIOUS
  <1> USE DEF Init
  <1>0. \A s \in Rows : subs[s] = NoRow /\ NoRow.status = "NONE" /\ NoRow.session = None
    BY DEF NoRow
  <1>1. TypeOK
    BY Parameters, IdleIsRequest DEF TypeOK, NoRow, Row
  <1>2. HandlersInv /\ OpeningsInv
    BY IdleIsRequest DEF HandlersInv, HandlerInv, OpeningsInv, Opening
  <1>3. SessionsInv /\ ActiveWasPaid
    BY <1>0 DEF SessionsInv, ActiveWasPaid, Stamped
  <1> QED
    BY <1>1, <1>2, <1>3 DEF SubscriptionsInv

LEMMA SubscriptionsStep == SubscriptionsInv /\ [Next]_vars => SubscriptionsInv'
  <1> SUFFICES ASSUME SubscriptionsInv, [Next]_vars PROVE SubscriptionsInv'
    OBVIOUS
  <1>1. ASSUME NEW r \in Requests, Proceed(r) PROVE SubscriptionsInv'
    BY <1>1, ReadingSteps, CreateActiveStep, CreatePendingStep, RecordPeriodStep,
       CreateCheckoutStep, StampStep, RespondStep, RecordPaymentStep DEF Proceed
  <1>2. ASSUME NEW r \in Requests, Start(r) \/ Fail(r) PROVE SubscriptionsInv'
    BY <1>2, ArrivalSteps, ReadingSteps
  <1>3. ASSUME NEW r \in Requests,
               (\E s \in Rows : Deliver(r, s)) \/ (\E t \in Txns : Notify(r, t))
        PROVE  SubscriptionsInv'
    BY <1>3, ArrivalSteps
  <1>4. CASE Outside
    BY <1>4, OutsideSteps, PayStep DEF Outside
  <1>5. CASE UNCHANGED vars
    BY <1>5 DEF vars, orgVars, stripeVars, storeVars, SubscriptionsInv, TypeOK, HandlersInv,
                HandlerInv, OpeningsInv, SessionsInv, ActiveWasPaid, Pending, Stamped
  <1> QED
    BY <1>1, <1>2, <1>3, <1>4, <1>5 DEF Next

LEMMA SubscriptionsInvariant == Spec => []SubscriptionsInv
  BY SubscriptionsInitially, SubscriptionsStep, PTL DEF Spec

\* Every row, session, period and handler keeps its type.
THEOREM TypeCorrect == Spec => []TypeOK
  BY SubscriptionsInvariant, PTL DEF SubscriptionsInv

\* A subscription is ACTIVE only against a paid session, a period bought or a free price,
\* whatever interleaves and whatever is lost (applyPaidSubscriptionSession, recordIapPeriod).
THEOREM ActiveSubscriptionsArePaid == Spec => []ActiveWasPaid
  BY SubscriptionsInvariant, PTL DEF SubscriptionsInv

(***************************************************************************)
(* One row for one period                                                  *)
(***************************************************************************)
\* Only recording a period gives a row a transaction; the check and the row are one
\* step, that of the unique index.
LEMMA PeriodsStep ==
    ASSUME SubscriptionsInv, PeriodRecordedOnce, [Next]_vars
    PROVE  PeriodRecordedOnce'
  <1>0. TypeOK
    BY DEF SubscriptionsInv
  <1> DEFINE Kept == \A s \in Rows : subs'[s].txn \in {subs[s].txn, None}
  <1>1. CASE Kept
    BY <1>1 DEF PeriodRecordedOnce
  <1>2. CASE UNCHANGED subs
    BY <1>1, <1>2
  <1>3. ASSUME NEW r \in Requests, CreateActive(r) \/ CreatePending(r) PROVE Kept
    <2>1. PICK status \in {"PENDING_PAYMENT", "ACTIVE"} :
            Create(status, req[r].organization, None)
      BY <1>3 DEF CreateActive, CreatePending
    <2>2. req[r].organization \in Organizations \cup {Nowhere}
      BY <1>0 DEF TypeOK, Request
    <2>3. PICK s \in Rows, new \in Row :
            subs' = [subs EXCEPT ![s] = new] /\ new.txn = None
      BY <2>1, <2>2, CreateWrites
    <2> QED
      BY <1>0, <2>3 DEF TypeOK
  <1>4. ASSUME NEW r \in Requests, StampSession(r) \/ RecordPayment(r) PROVE Kept
    <2>1. PICK s \in Rows : s = req[r].row
      <3>1. HandlerInv(r)
        BY DEF SubscriptionsInv, HandlersInv
      <3> QED
        BY <1>4, <3>1 DEF StampSession, RecordPayment, HandlerInv, Opening
    <2>2. PICK new \in {[subs[s] EXCEPT !.session = s], [subs[s] EXCEPT !.status = "ACTIVE"]} :
            subs' = [subs EXCEPT ![s] = new]
      BY <1>4, <2>1 DEF StampSession, RecordPayment
    <2>3. new.txn = subs[s].txn
      BY <1>0 DEF TypeOK, Row
    <2> QED
      BY <1>0, <2>2, <2>3 DEF TypeOK
  <1>5. ASSUME NEW r \in Requests, RecordPeriod(r) PROVE PeriodRecordedOnce'
    <2>1. CASE UNCHANGED subs
      BY <1>2, <2>1
    <2>2. CASE ~Recorded(req[r].txn) /\ Create("ACTIVE", req[r].organization, req[r].txn)
      <3>1. /\ req[r].txn \in Txns \cup {None}
            /\ req[r].organization \in Organizations \cup {Nowhere}
        BY <1>0 DEF TypeOK, Request
      <3>2. PICK s \in Rows, new \in Row :
              subs' = [subs EXCEPT ![s] = new] /\ new.txn = req[r].txn
        BY <2>2, <3>1, CreateWrites
      <3>3. /\ subs'[s].txn = req[r].txn
            /\ \A p \in Rows \ {s} : subs'[p] = subs[p] /\ subs[p].txn # req[r].txn
        BY <1>0, <2>2, <3>2 DEF TypeOK, Recorded
      <3> QED
        BY <3>3 DEF PeriodRecordedOnce
    <2> QED
      BY <1>5, <2>1, <2>2 DEF RecordPeriod
  <1>6. ASSUME NEW r \in Requests, CreateCheckout(r) \/ Respond(r) PROVE UNCHANGED subs
    BY <1>6 DEF CreateCheckout, Respond, OnlySessions
  <1>7. ASSUME NEW r \in Requests, Proceed(r) PROVE PeriodRecordedOnce'
    BY <1>1, <1>2, <1>3, <1>4, <1>5, <1>6, <1>7, ReadingSteps DEF Proceed
  <1>8. ASSUME NEW r \in Requests,
               \/ Start(r) \/ Fail(r)
               \/ \E s \in Rows : Deliver(r, s)
               \/ \E t \in Txns : Notify(r, t)
        PROVE  UNCHANGED subs
    BY <1>8, ArrivalSteps, ReadingSteps
  <1>9. CASE Outside
    BY <1>2, <1>9, OutsideSteps DEF Outside, Pay
  <1>10. CASE UNCHANGED vars
    BY <1>2, <1>10 DEF vars
  <1> HIDE DEF Kept
  <1> QED
    BY <1>2, <1>7, <1>8, <1>9, <1>10 DEF Next

LEMMA PeriodsInitially == Init => PeriodRecordedOnce
  BY DEF Init, PeriodRecordedOnce, NoRow

\* One App Store period never makes two subscriptions, however confirmations and
\* notifications race (schema.prisma:903, recordIapPeriod).
THEOREM PeriodsAreRecordedOnce == Spec => []PeriodRecordedOnce
  BY PeriodsInitially, PeriodsStep, SubscriptionsInvariant, PTL DEF Spec

(***************************************************************************)
(* The promise of PaymentLedger                                            *)
(***************************************************************************)
\* A step that moves the stage of one checkout the way the ledger allows it.
LEMMA LedgerAdvances ==
    ASSUME NEW s \in Rows, \A p \in Rows \ {s} : Stage(p)' = Stage(p),
           \/ Stage(s) = "none" /\ Stage(s)' = "payable"
           \/ Stage(s) = "payable" /\ Stage(s)' = "paid"
           \/ Stage(s) = "paid" /\ Stage(s)' = "recorded"
    PROVE  Ledger!Next
  <1>1. \A p \in Rows : Stages[p] = Stage(p) /\ Stages'[p] = Stage(p)'
    BY DEF Stages
  <1>2. Stages' = [Stages EXCEPT ![s] = Stage(s)']
    BY DEF Stages
  <1>3. \/ Ledger!Advance(s, "none", "payable")
        \/ Ledger!Advance(s, "payable", "paid")
        \/ Ledger!Advance(s, "paid", "recorded")
    BY <1>1, <1>2 DEF Ledger!Advance
  <1> QED
    BY <1>3 DEF Ledger!Next, Ledger!Open, Ledger!Pay, Ledger!Record

LEMMA LedgerStutters ==
    ASSUME \A p \in Rows : Stage(p)' = Stage(p)
    PROVE  UNCHANGED Stages
  BY DEF Stages

LEMMA LedgerInitially == Init => Ledger!Init
  BY DEF Init, Ledger!Init, Stages, Stage, NoRow, Stamped

\* A row that has no session stays out of the ledger, and so does one just created.
LEMMA LedgerIgnoresCreation ==
    ASSUME SubscriptionsInv, NEW r \in Requests,
           CreateActive(r) \/ CreatePending(r) \/ RecordPeriod(r)
    PROVE  \A p \in Rows : Stage(p)' = Stage(p)
  <1>0. TypeOK /\ UNCHANGED session
    BY DEF SubscriptionsInv, CreateActive, CreatePending, RecordPeriod, OnlyRows, stripeVars
  <1>1. CASE UNCHANGED subs
    BY <1>0, <1>1 DEF Stage, Stamped, Pending
  <1>2. CASE \E status \in {"PENDING_PAYMENT", "ACTIVE"}, txn \in {None, req[r].txn} :
               Create(status, req[r].organization, txn)
    <2>1. /\ req[r].txn \in Txns \cup {None}
          /\ req[r].organization \in Organizations \cup {Nowhere}
      BY <1>0 DEF TypeOK, Request
    <2>2. PICK s \in Rows, new \in Row :
            Fresh(s) /\ subs' = [subs EXCEPT ![s] = new] /\ new.session = None
      BY <1>2, <2>1, CreateWrites
    <2>3. /\ subs'[s].session = None
          /\ \A p \in Rows \ {s} : subs'[p] = subs[p]
      BY <1>0, <2>2 DEF TypeOK
    <2>4. Stage(s) = "none"
      BY <2>2, FreshIsUnused DEF Stage
    <2>5. Stage(s)' = "none"
      BY <2>3 DEF Stage, Stamped
    <2>6. \A p \in Rows \ {s} : Stage(p)' = Stage(p)
      BY <1>0, <2>3 DEF Stage, Stamped, Pending
    <2> QED
      BY <2>4, <2>5, <2>6
  <1> QED
    BY <1>1, <1>2 DEF CreateActive, CreatePending, RecordPeriod

LEMMA LedgerKeptByOpening ==
    ASSUME SubscriptionsInv, NEW r \in Requests,
           CreateCheckout(r) \/ StampSession(r) \/ Respond(r)
    PROVE  Ledger!Next \/ \A p \in Rows : Stage(p)' = Stage(p)
  <1>0. TypeOK /\ HandlerInv(r) /\ Opens(r)
    BY DEF SubscriptionsInv, HandlersInv, CreateCheckout, StampSession, Respond, Opens, Opening
  <1>1. PICK s \in Rows : s = req[r].row /\ Pending(s)
    BY <1>0, OpeningRow
  <1>2. CASE CreateCheckout(r) \/ Respond(r)
    <2>1. PICK x \in {"created", "offered"} :
            session' = [session EXCEPT ![s] = x] /\ UNCHANGED subs
      BY <1>1, <1>2 DEF CreateCheckout, Respond, OnlySessions
    <2>2. session[s] # "paid" /\ session'[s] # "paid"
      BY <1>0, <1>1, <2>1, OpeningRow DEF TypeOK
    <2>3. \A p \in Rows \ {s} : session'[p] = session[p]
      BY <1>0, <2>1 DEF TypeOK
    <2>4. Stage(s)' = Stage(s)
      BY <2>1, <2>2 DEF Stage, Stamped, Pending
    <2>5. \A p \in Rows \ {s} : Stage(p)' = Stage(p)
      BY <2>1, <2>3 DEF Stage, Stamped, Pending
    <2> QED
      BY <2>4, <2>5
  <1>3. CASE StampSession(r)
    <2>1. ~Stamped(s) /\ session[s] = "created"
      BY <1>0, <1>1, <1>3 DEF StampSession, HandlerInv
    <2> DEFINE new == [subs[s] EXCEPT !.session = s]
    <2>2. new.status = "PENDING_PAYMENT" /\ new.session # None
      BY <1>0, <1>1, NoneIsNoRow DEF Pending, TypeOK, Row
    <2>3. subs' = [subs EXCEPT ![s] = new] /\ UNCHANGED session
      BY <1>1, <1>3 DEF StampSession, OnlyRows, stripeVars
    <2> HIDE DEF new
    <2>4. subs'[s] = new /\ \A p \in Rows \ {s} : subs'[p] = subs[p]
      BY <1>0, <2>3 DEF TypeOK
    <2>5. Stage(s) = "none"
      BY <2>1 DEF Stage
    <2>6. Stage(s)' = "payable"
      BY <2>1, <2>2, <2>3, <2>4 DEF Stage, Stamped, Pending
    <2>7. \A p \in Rows \ {s} : Stage(p)' = Stage(p)
      BY <2>3, <2>4 DEF Stage, Stamped, Pending
    <2> QED
      BY <2>5, <2>6, <2>7, LedgerAdvances
  <1> QED
    BY <1>2, <1>3

LEMMA LedgerKeptByPayment ==
    ASSUME SubscriptionsInv,
           (\E s \in Rows : Pay(s)) \/ (\E r \in Requests : RecordPayment(r))
    PROVE  Ledger!Next \/ \A p \in Rows : Stage(p)' = Stage(p)
  <1>0. TypeOK /\ SessionsInv
    BY DEF SubscriptionsInv
  <1>1. ASSUME NEW s \in Rows, Pay(s)
        PROVE  Ledger!Next \/ \A p \in Rows : Stage(p)' = Stage(p)
    <2>1. /\ session[s] = "offered" /\ session'[s] = "paid"
          /\ \A p \in Rows \ {s} : session'[p] = session[p]
          /\ UNCHANGED subs
      BY <1>0, <1>1 DEF Pay, TypeOK
    <2>2. Stamped(s) /\ subs[s].status \in {"PENDING_PAYMENT", "ACTIVE"}
      BY <1>0, <2>1 DEF SessionsInv, TypeOK, Row
    <2>3. \A p \in Rows \ {s} : Stage(p)' = Stage(p)
      BY <2>1 DEF Stage, Stamped, Pending
    <2>4. CASE Pending(s)
      <3>1. Stage(s) = "payable"
        BY <2>1, <2>2, <2>4 DEF Stage, Pending
      <3>2. Stage(s)' = "paid"
        BY <2>1, <2>2, <2>4 DEF Stage, Stamped, Pending
      <3> QED
        BY <2>3, <3>1, <3>2, LedgerAdvances
    <2>5. CASE subs[s].status = "ACTIVE"
      <3>1. Stage(s) = "recorded"
        BY <2>2, <2>5 DEF Stage, Pending
      <3>2. Stage(s)' = "recorded"
        BY <2>1, <2>2, <2>5 DEF Stage, Stamped, Pending
      <3> QED
        BY <2>3, <3>1, <3>2
    <2> QED
      BY <2>2, <2>4, <2>5 DEF Pending
  <1>2. ASSUME NEW r \in Requests, RecordPayment(r)
        PROVE  Ledger!Next \/ \A p \in Rows : Stage(p)' = Stage(p)
    <2>1. PICK s \in Rows : s = req[r].row /\ session[s] = "paid" /\ Stamped(s)
      BY <1>2 DEF RecordPayment, SubscriptionsInv, HandlersInv, HandlerInv
    <2> DEFINE new == [subs[s] EXCEPT !.status = "ACTIVE"]
    <2>2. new.status = "ACTIVE" /\ new.session = subs[s].session
      BY <1>0 DEF TypeOK, Row
    <2>3. subs' = [subs EXCEPT ![s] = new] /\ UNCHANGED session
      BY <1>2, <2>1 DEF RecordPayment, stripeVars
    <2> HIDE DEF new
    <2>4. subs'[s] = new /\ \A p \in Rows \ {s} : subs'[p] = subs[p]
      BY <1>0, <2>3 DEF TypeOK
    <2>5. \A p \in Rows \ {s} : Stage(p)' = Stage(p)
      BY <2>3, <2>4 DEF Stage, Stamped, Pending
    <2>6. Stage(s)' = "recorded"
      BY <2>1, <2>2, <2>4 DEF Stage, Stamped, Pending
    <2>7. subs[s].status \in {"PENDING_PAYMENT", "ACTIVE"}
      BY <1>0, <2>1 DEF SessionsInv, TypeOK, Row
    <2>8. Stage(s) \in {"paid", "recorded"}
      BY <2>1, <2>7 DEF Stage, Pending
    <2> QED
      BY <2>5, <2>6, <2>8, LedgerAdvances
  <1> QED
    BY <1>1, <1>2

LEMMA LedgerStep ==
    ASSUME SubscriptionsInv, [Next]_vars
    PROVE  Ledger!Next \/ UNCHANGED Stages
  <1>1. CASE UNCHANGED <<subs, session>>
    BY <1>1, LedgerStutters DEF Stage, Stamped, Pending
  <1>2. ASSUME NEW r \in Requests, Proceed(r) PROVE Ledger!Next \/ UNCHANGED Stages
    BY <1>1, <1>2, ReadingSteps, LedgerIgnoresCreation, LedgerKeptByOpening,
       LedgerKeptByPayment, LedgerStutters DEF Proceed
  <1>3. ASSUME NEW r \in Requests,
               \/ Start(r) \/ Fail(r)
               \/ \E s \in Rows : Deliver(r, s)
               \/ \E t \in Txns : Notify(r, t)
        PROVE  UNCHANGED <<subs, session>>
    BY <1>3, ArrivalSteps, ReadingSteps
  <1>4. CASE Outside
    BY <1>1, <1>4, OutsideSteps, LedgerKeptByPayment, LedgerStutters DEF Outside
  <1>5. CASE UNCHANGED vars
    BY <1>1, <1>5 DEF vars, stripeVars
  <1> QED
    BY <1>1, <1>2, <1>3, <1>4, <1>5 DEF Next

\* Subscriptions implements PaymentLedger: every checkout of a subscription is opened,
\* paid and recorded in that order and one way (subscribe, applyPaidSubscriptionSession).
THEOREM SubscriptionsKeepLedger == Spec => KeepsLedger
  <1>1. SubscriptionsInv /\ [Next]_vars => [Ledger!Next]_Stages
    BY LedgerStep
  <1> QED
    BY <1>1, LedgerInitially, SubscriptionsInvariant, PTL DEF Spec, KeepsLedger, Ledger!Spec

(***************************************************************************)
(* The scenario with a price, among those MCPayments composes.             *)
(***************************************************************************)
LEMMA PaidStep ==
    ASSUME PaidSubscriptionsHold, [MCNext]_allVars
    PROVE  PaidSubscriptionsHold'
  <1>1. UNCHANGED part /\ (part = "paid" => [Next]_vars)
    BY DEF MCNext, allVars
  <1> QED
    BY <1>1, SubscriptionsStep, PeriodsStep DEF PaidSubscriptionsHold, SubscriptionsInv

\* Where there is a price: what the handlers rely on between their steps, ActiveWasPaid
\* and PeriodRecordedOnce, in the composition that is model-checked
\* (applyPaidSubscriptionSession, recordIapPeriod).
THEOREM PaidSubscriptionsAlwaysHold == MCSpec => []PaidSubscriptionsHold
  <1>1. MCInit => PaidSubscriptionsHold
    BY SubscriptionsInitially, PeriodsInitially
       DEF MCInit, PaidSubscriptionsHold, SubscriptionsInv
  <1>2. PaidSubscriptionsHold /\ [MCNext]_allVars => PaidSubscriptionsHold'
    BY PaidStep
  <1> QED
    BY <1>1, <1>2, PTL DEF MCSpec

(***************************************************************************)
(* The scenario with a free price and one request at a time.               *)
(***************************************************************************)
\* Without a price nothing is sold: the outside services stay out of it, and every row
\* is made ACTIVE by subscribe.
NothingSold ==
    /\ \A s \in Free!Rows : session[s] = "none"
    /\ \A t \in Free!Txns : bought[t] = Nowhere
    /\ due = {} /\ notices = {}
    /\ \A s \in Free!Rows : subs[s].txn = None

\* What the only request read is still true when it writes.
StillUnsubscribed ==
    /\ req[r1].step \in {"idle", "check", "createActive"}
    /\ req[r1].step = "check" => req[r1].op = "subscribe"
    /\ req[r1].step = "createActive" => ~Free!Subscribed(req[r1].organization)

FreeInv ==
    /\ req \in [{r1} -> Free!Request] /\ DOMAIN subs = Free!Rows
    /\ NothingSold /\ StillUnsubscribed /\ Free!OneActiveRow

\* A step that makes no row run that did not.
LEMMA FewerRowsRun ==
    ASSUME FreeInv, UNCHANGED <<subs, session, bought, due, notices>>, over \subseteq over'
    PROVE  /\ NothingSold' /\ Free!OneActiveRow' /\ DOMAIN subs' = Free!Rows
           /\ \A o : Free!Subscribed(o)' => Free!Subscribed(o)
  <1>1. \A s \in Free!Rows : Free!Running(s)' => Free!Running(s)
    BY DEF Free!Running
  <1>2. Free!OneActiveRow'
    BY <1>1 DEF FreeInv, Free!OneActiveRow
  <1>3. \A o : Free!Subscribed(o)' => Free!Subscribed(o)
    BY <1>1 DEF Free!Subscribed
  <1> QED
    BY <1>2, <1>3 DEF FreeInv, NothingSold

LEMMA FreeIdle == Free!Idle \in Free!Request /\ Free!Idle.step = "idle"
  BY DEF Free!Idle, Free!Request, Free!Ops, Free!Steps

LEMMA FreeCallStep ==
    ASSUME FreeInv, Free!Start(r1)
    PROVE  FreeInv'
  <1>1. PICK o \in Organizations \cup {o2} :
          Free!Accept(r1, "subscribe", "check", [Free!Idle EXCEPT !.organization = o])
    BY DEF Free!Start, Free!StartSubscribe, Free!StartConfirm, Free!StartConfirmIap,
           Free!Redeliver, Free!Accept, Free!Spend
  <1> DEFINE state == [Free!Idle EXCEPT !.organization = o]
             new == [state EXCEPT !.op = "subscribe", !.step = "check"]
  <1>2. new \in Free!Request /\ new.step = "check" /\ new.op = "subscribe"
    BY DEF Free!Idle, Free!Request, Free!Ops, Free!Steps
  <1>3. req' = [req EXCEPT ![r1] = new]
    BY <1>1 DEF Free!Accept
  <1>4. UNCHANGED <<subs, over, session, bought, due, notices>>
    BY <1>1 DEF Free!Accept, Free!orgVars, Free!stripeVars, Free!storeVars
  <1> HIDE DEF new
  <1>5. req' \in [{r1} -> Free!Request] /\ StillUnsubscribed'
    BY <1>2, <1>3 DEF FreeInv, StillUnsubscribed
  <1> QED
    BY <1>4, <1>5, FewerRowsRun DEF FreeInv

LEMMA FreeCheckStep ==
    ASSUME FreeInv, Free!CheckNotSubscribed(r1) \/ Free!Fail(r1)
    PROVE  FreeInv'
  <1>1. UNCHANGED <<subs, over, session, bought, due, notices>>
    BY DEF Free!CheckNotSubscribed, Free!Fail, Free!NoWrites, Free!orgVars,
           Free!stripeVars, Free!storeVars
  <1>2. CASE Free!Finish(r1)
    <2>1. req' \in [{r1} -> Free!Request] /\ req'[r1].step = "idle"
      BY <1>2, FreeIdle DEF FreeInv, Free!Finish
    <2> QED
      BY <1>1, <2>1, FewerRowsRun DEF FreeInv, StillUnsubscribed
  <1>3. CASE Free!CheckNotSubscribed(r1) /\ ~Free!Finish(r1)
    <2>1. Free!Goto(r1, "createActive") /\ ~Free!Subscribed(req[r1].organization)
      BY <1>3 DEF FreeInv, StillUnsubscribed, Free!CheckNotSubscribed
    <2> DEFINE new == [req[r1] EXCEPT !.step = "createActive"]
    <2>2. PICK o : o = req[r1].organization
      OBVIOUS
    <2>3. new \in Free!Request /\ new.step = "createActive" /\ new.organization = o
      BY <2>2 DEF FreeInv, Free!Request, Free!Steps
    <2>4. req' = [req EXCEPT ![r1] = new]
      BY <2>1 DEF Free!Goto
    <2> HIDE DEF new
    <2>5. req' \in [{r1} -> Free!Request] /\ req'[r1] = new
      BY <2>3, <2>4 DEF FreeInv
    <2>6. ~Free!Subscribed(o)'
      BY <1>1, <2>1, <2>2, FewerRowsRun
    <2>7. StillUnsubscribed'
      BY <2>3, <2>5, <2>6 DEF StillUnsubscribed
    <2> QED
      BY <1>1, <2>5, <2>7, FewerRowsRun DEF FreeInv
  <1> QED
    BY <1>2, <1>3 DEF Free!Fail

LEMMA FreeCreateStep ==
    ASSUME FreeInv, Free!CreateActive(r1)
    PROVE  FreeInv'
  <1>1. PICK s \in Free!Rows :
          subs' = [subs EXCEPT ![s] = [Free!NoRow EXCEPT
                    !.status = "ACTIVE", !.txn = None, !.organization = req[r1].organization]]
    BY DEF Free!CreateActive, Free!Create, Free!None, None
  <1> DEFINE new == [Free!NoRow EXCEPT !.status = "ACTIVE", !.txn = None,
                                       !.organization = req[r1].organization]
  <1>2. new.txn = None /\ new.organization = req[r1].organization
    BY DEF Free!NoRow
  <1>3. subs' = [subs EXCEPT ![s] = new]
    BY <1>1
  <1> HIDE DEF new
  <1>4. /\ DOMAIN subs' = Free!Rows /\ subs'[s] = new
        /\ \A p \in Free!Rows \ {s} : subs'[p] = subs[p]
    BY <1>3 DEF FreeInv
  <1>5. UNCHANGED <<over, session, bought, due, notices>>
    BY DEF Free!CreateActive, Free!OnlyRows, Free!orgVars, Free!stripeVars, Free!storeVars
  <1>6. NothingSold'
    BY <1>2, <1>4, <1>5 DEF FreeInv, NothingSold
  <1>7. \A p \in Free!Rows \ {s} : Free!Running(p)' = Free!Running(p)
    BY <1>4, <1>5 DEF Free!Running
  <1>8. \A p \in Free!Rows : Free!Running(p) => subs[p].organization # req[r1].organization
    BY DEF FreeInv, StillUnsubscribed, Free!Subscribed, Free!CreateActive
  <1>9. Free!OneActiveRow'
    BY <1>2, <1>4, <1>7, <1>8 DEF FreeInv, Free!OneActiveRow
  <1>10. req' \in [{r1} -> Free!Request] /\ req'[r1].step = "idle"
    BY FreeIdle DEF FreeInv, Free!CreateActive, Free!Finish
  <1> QED
    BY <1>4, <1>6, <1>9, <1>10 DEF FreeInv, StillUnsubscribed

LEMMA FreeOutsideStep ==
    ASSUME FreeInv, Free!Outside
    PROVE  FreeInv'
  <1>1. CASE Free!Expire \/ Free!ChangeSuspension
    <2>1. UNCHANGED <<subs, session, bought, due, notices, req>> /\ over \subseteq over'
      BY <1>1 DEF Free!Expire, Free!ChangeSuspension, Free!stripeVars, Free!storeVars
    <2> QED
      BY <2>1, FewerRowsRun DEF FreeInv, StillUnsubscribed
  <1>2. ~Free!StartPeriod /\ ~Free!ChangeMembership
    BY DEF Free!StartPeriod, Free!ChangeMembership, Free!Spend
  <1>3. \A s \in Free!Rows : ~Free!Pay(s)
    BY DEF FreeInv, NothingSold, Free!Pay
  <1> QED
    BY <1>1, <1>2, <1>3 DEF Free!Outside

LEMMA FreeStep ==
    ASSUME FreeInv, Free!Next
    PROVE  FreeInv'
  <1>1. Free!Proceed(r1) => Free!CheckNotSubscribed(r1) \/ Free!CreateActive(r1)
    BY DEF FreeInv, StillUnsubscribed, Free!Proceed, Free!CreatePending,
           Free!CreateCheckout, Free!StampSession, Free!Respond, Free!RetrieveSession,
           Free!FindRow, Free!RecordPayment, Free!SendReceipt, Free!FetchSubscriber,
           Free!Attribute, Free!FindTransaction, Free!RecordPeriod
  <1>2. \A s \in Free!Rows, t \in Free!Txns : ~Free!Deliver(r1, s) /\ ~Free!Notify(r1, t)
    BY DEF FreeInv, NothingSold, Free!Deliver, Free!Notify
  <1>3. \/ Free!Start(r1) \/ Free!Proceed(r1) \/ Free!Fail(r1) \/ Free!Outside
    BY <1>2 DEF Free!Next, Free!Rows, Free!Txns
  <1> QED
    BY <1>1, <1>3, FreeCallStep, FreeCheckStep, FreeCreateStep, FreeOutsideStep

\* With a free price and one request at a time, no organization ever has two running
\* subscriptions, whatever expires and whoever is suspended (subscribe).
THEOREM OneActiveRowWithoutPrice == MCSpec => []OneActiveRowWhenFree
  <1> DEFINE Inv == part = "free" => FreeInv
  <1>1. MCInit => Inv
    <2> SUFFICES ASSUME Free!Init PROVE FreeInv
      BY DEF MCInit
    <2>1. \A s \in Free!Rows : subs[s].status = "NONE" /\ subs[s].txn = None
      BY DEF Free!Init, Free!NoRow, Free!None, None
    <2>2. NothingSold /\ Free!OneActiveRow
      BY <2>1 DEF Free!Init, NothingSold, Free!OneActiveRow, Free!Running
    <2>3. StillUnsubscribed
      BY DEF Free!Init, Free!Idle, StillUnsubscribed
    <2> QED
      BY <2>2, <2>3, FreeIdle DEF FreeInv, Free!Init
  <1>2. Inv /\ [MCNext]_allVars => Inv'
    <2> SUFFICES ASSUME part = "free", FreeInv, [MCNext]_allVars PROVE FreeInv'
      BY DEF MCNext, allVars
    <2>1. CASE Free!Next
      BY <2>1, FreeStep
    <2>2. CASE UNCHANGED vars
      BY <2>2, FewerRowsRun DEF vars, orgVars, stripeVars, storeVars, FreeInv,
         StillUnsubscribed
    <2> QED
      BY <2>1, <2>2 DEF MCNext, allVars, vars
  <1>3. Inv => OneActiveRowWhenFree
    BY DEF OneActiveRowWhenFree, FreeInv
  <1> QED
    BY <1>1, <1>2, <1>3, PTL DEF MCSpec
================================================================================
