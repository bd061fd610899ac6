--------------------------- MODULE PaymentProofs ---------------------------
(***************************************************************************)
(* Proofs about the two flows in which a tournament is paid for: its       *)
(* publication (Publication) and, in the second half, the registrations of *)
(* its players (Registrations, as Reg), for every price list, every number *)
(* of concurrent requests, of calls, of payments and of lost requests.     *)
(* The two are independent: where they have a variable of one name, each   *)
(* theorem is about one of them only.                                      *)
(***************************************************************************)
EXTENDS Publication, FiniteSetTheorems, WellFoundedInduction, TLAPS

(***************************************************************************)
(* The handlers' records                                                   *)
(***************************************************************************)
LEMMA IdleIsRequest == Idle \in Request
  BY DEF Idle, Request, Ops, Steps, Products, NoTxn

LEMMA GotoTypes ==
    ASSUME NEW r \in Requests, NEW s \in Steps, req \in [Requests -> Request], Goto(r, s)
    PROVE  /\ req' \in [Requests -> Request]
           /\ req'[r].step = s /\ req'[r].order = req[r].order
           /\ \A q \in Requests \ {r} : req'[q] = req[q]
  <1> DEFINE new == [req[r] EXCEPT !.step = s]
  <1>1. new \in Request /\ new.step = s /\ new.order = req[r].order
    BY DEF Request
  <1>2. req' = [req EXCEPT ![r] = new]
    BY DEF Goto
  <1> HIDE DEF new
  <1> QED
    BY <1>1, <1>2

LEMMA FinishTypes ==
    ASSUME NEW r \in Requests, req \in [Requests -> Request], Finish(r)
    PROVE  /\ req' \in [Requests -> Request]
           /\ req'[r] = Idle
           /\ \A q \in Requests \ {r} : req'[q] = req[q]
  BY IdleIsRequest DEF Finish

LEMMA AcceptTypes ==
    ASSUME NEW r \in Requests, NEW op \in Ops, NEW s \in Steps, NEW state \in Request,
           TypeOK, Accept(r, op, s, state)
    PROVE  /\ TypeOK'
           /\ req'[r].step = s /\ req'[r].order = state.order
           /\ \A q \in Requests \ {r} : req'[q] = req[q]
           /\ UNCHANGED <<status, orders, session, due>>
  <1> DEFINE new == [state EXCEPT !.op = op, !.step = s]
  <1>1. new \in Request /\ new.step = s /\ new.order = state.order
    BY DEF Request
  <1>2. req' = [req EXCEPT ![r] = new]
    BY DEF Accept
  <1> HIDE DEF new
  <1>3. /\ req' \in [Requests -> Request]
        /\ req'[r] = new
        /\ \A q \in Requests \ {r} : req'[q] = req[q]
    BY <1>1, <1>2 DEF TypeOK
  <1>4. calls' \in Nat
    BY DEF Accept, Spend, TypeOK
  <1>5. UNCHANGED <<tournamentVars, orgVars, orders, stripeVars, bought, failures>>
    BY DEF Accept
  <1>6. TypeOK'
    BY <1>3, <1>4, <1>5 DEF TypeOK, tournamentVars, orgVars, stripeVars, Stamped
  <1> QED
    BY <1>1, <1>3, <1>5, <1>6 DEF tournamentVars, stripeVars

LEMMA NoWritesTypes ==
    ASSUME TypeOK, NoWrites, req' \in [Requests -> Request]
    PROVE  TypeOK'
  BY DEF TypeOK, NoWrites, tournamentVars, orgVars, stripeVars

\* The state a call hands to Accept.
LEMMA StartStates ==
    /\ \A p \in Nat : [Idle EXCEPT !.amount = p] \in Request
    /\ \A k \in Nat : [Idle EXCEPT !.count = k] \in Request
    /\ \A o \in Orders : [Idle EXCEPT !.order = o] \in Request
    /\ \A p \in Products, a \in Nat :
          [Idle EXCEPT !.product = p, !.amount = a] \in Request
  BY DEF Idle, Request, Ops, Steps, Products, NoTxn

LEMMA IapPriceIsNat == ASSUME NEW p \in Products PROVE IapPrice(p) \in Nat
  BY Tiers DEF IapPrice, Products

LEMMA FeeIsNat == ASSUME NEW n \in Nat PROVE Fee(n) \in Nat
  BY Tiers DEF Fee

LEMMA RequiredIsNat ==
    ASSUME TypeOK, NEW r \in Requests
    PROVE  Required(r) \in Nat
  <1>1. req[r].amount \in Nat /\ req[r].count \in Nat /\ teams \in Nat
    BY DEF TypeOK, Request
  <1>2. teams + req[r].count \in Nat
    BY <1>1
  <1>3. Fee(teams + req[r].count) \in Nat
    BY <1>2, FeeIsNat
  <1> QED
    BY <1>1, <1>3 DEF Required

\* A call that arrives changes nothing but its own request.
LEMMA StartKeeps ==
    ASSUME TypeOK, NEW r \in Requests, Start(r)
    PROVE  /\ TypeOK'
           /\ \A q \in Requests \ {r} : req'[q] = req[q]
           /\ UNCHANGED <<status, orders, session, due>>
           /\ \/ req'[r].step \in {"load", "setUnpublished", "setArchived", "setDraft",
                                   "gateStatus", "delete"}
              \/ /\ req'[r].step = "retrieve"
                 /\ req'[r].order \in Orders
              \/ /\ req'[r].step = "findOrder"
                 /\ req'[r].order \in Orders
                 /\ session[req'[r].order] = "paid"
  <1>0. /\ {"load", "setUnpublished", "setArchived", "setDraft", "gateStatus", "delete",
            "retrieve", "findOrder"} \subseteq Steps
        /\ {"publish", "payForTier", "payForTeams", "confirm", "confirmIap", "webhook",
            "unpublish", "archive", "unarchive", "addTeams", "removeTeam"} \subseteq Ops
    BY DEF Steps, Ops
  <1>1. CASE StartPublish(r)
    BY <1>0, <1>1, AcceptTypes, IdleIsRequest DEF StartPublish
  <1>2. CASE StartPayForTier(r)
    <2>1. PICK p \in {MidPrice, HighPrice} :
            Accept(r, "payForTier", "load", [Idle EXCEPT !.amount = p])
      BY <1>2 DEF StartPayForTier
    <2>2. [Idle EXCEPT !.amount = p] \in Request
      BY Tiers, StartStates
    <2> QED
      BY <1>0, <2>1, <2>2, AcceptTypes
  <1>3. CASE StartPayForTeams(r)
    <2>1. PICK k \in Batches :
            Accept(r, "payForTeams", "load", [Idle EXCEPT !.count = k])
      BY <1>3 DEF StartPayForTeams
    <2>2. [Idle EXCEPT !.count = k] \in Request
      BY Bounds, StartStates
    <2> QED
      BY <1>0, <2>1, <2>2, AcceptTypes
  <1>4. CASE StartConfirm(r)
    <2>1. PICK o \in Orders :
            Accept(r, "confirm", "retrieve", [Idle EXCEPT !.order = o])
      BY <1>4 DEF StartConfirm
    <2> DEFINE state == [Idle EXCEPT !.order = o]
    <2>2. state \in Request /\ state.order = o
      BY StartStates DEF Idle
    <2>3. Accept(r, "confirm", "retrieve", state)
      BY <2>1
    <2> HIDE DEF state
    <2> QED
      BY <1>0, <2>2, <2>3, AcceptTypes
  <1>5. CASE StartConfirmIap(r)
    <2>1. PICK p \in Products :
            Accept(r, "confirmIap", "load",
                   [Idle EXCEPT !.product = p, !.amount = IapPrice(p)])
      BY <1>5 DEF StartConfirmIap
    <2>2. [Idle EXCEPT !.product = p, !.amount = IapPrice(p)] \in Request
      BY IapPriceIsNat, StartStates
    <2> QED
      BY <1>0, <2>1, <2>2, AcceptTypes
  <1>6. CASE Redeliver(r)
    <2>1. PICK o \in Orders : /\ session[o] = "paid"
                              /\ Accept(r, "webhook", "findOrder", [Idle EXCEPT !.order = o])
      BY <1>6 DEF Redeliver
    <2> DEFINE state == [Idle EXCEPT !.order = o]
    <2>2. state \in Request /\ state.order = o
      BY StartStates DEF Idle
    <2>3. Accept(r, "webhook", "findOrder", state)
      BY <2>1
    <2> HIDE DEF state
    <2> QED
      BY <1>0, <2>1, <2>2, <2>3, AcceptTypes
  <1>7. CASE StartUnpublish(r)
    BY <1>0, <1>7, AcceptTypes, IdleIsRequest DEF StartUnpublish
  <1>8. CASE StartArchive(r)
    BY <1>0, <1>8, AcceptTypes, IdleIsRequest DEF StartArchive
  <1>9. CASE StartUnarchive(r)
    BY <1>0, <1>9, AcceptTypes, IdleIsRequest DEF StartUnarchive
  <1>10. CASE StartRemoveTeam(r)
    BY <1>0, <1>10, AcceptTypes, IdleIsRequest DEF StartRemoveTeam
  <1>11. CASE StartAddTeams(r)
    <2>1. PICK k \in Batches :
            Accept(r, "addTeams", "gateStatus", [Idle EXCEPT !.count = k])
      BY <1>11 DEF StartAddTeams
    <2>2. [Idle EXCEPT !.count = k] \in Request
      BY Bounds, StartStates
    <2> QED
      BY <1>0, <2>1, <2>2, AcceptTypes
  <1> QED
    BY <1>1, <1>2, <1>3, <1>4, <1>5, <1>6, <1>7, <1>8, <1>9, <1>10, <1>11 DEF Start

(***************************************************************************)
(* The types                                                               *)
(***************************************************************************)
LEMMA OrderUpdates ==
    ASSUME orders \in [Orders -> Order], NEW o \in Orders, NEW new \in Order,
           orders' = [orders EXCEPT ![o] = new]
    PROVE  orders' \in [Orders -> Order]
  OBVIOUS

LEMMA NewOrders ==
    /\ [NoOrder EXCEPT !.status = "PAID"] \in Order
    /\ \A a \in Nat : [NoOrder EXCEPT !.status = "PENDING_PAYMENT", !.tier = a] \in Order
    /\ \A a \in Nat, t \in Txns :
          [NoOrder EXCEPT !.status = "PAID", !.tier = a, !.txn = t] \in Order
  BY DEF NoOrder, Order, NoSession, NoTxn

LEMMA AllSteps ==
    /\ {"load", "ready", "price", "createFree", "setPublished", "createOrder", "checkout",
        "stamp", "respond", "retrieve", "findOrder", "record", "receipt", "readTxns"}
          \subseteq Steps
    /\ {"fetch", "checkTxn", "recordIap", "setUnpublished", "setArchived", "setDraft",
        "gateStatus", "gateTier", "insert", "delete", "idle"} \subseteq Steps
  BY DEF Steps

\* Steps that only read, and decide what their request does next.
LEMMA ReadingStepTypes ==
    ASSUME TypeOK, NEW r \in Requests,
           \/ Load(r) \/ CheckReady(r) \/ Price(r) \/ RetrieveSession(r)
           \/ ReadTransactions(r) \/ FetchSubscriber(r) \/ CheckTransaction(r)
           \/ GateStatus(r) \/ GateTier(r)
    PROVE  TypeOK'
  <1>0. req \in [Requests -> Request]
    BY DEF TypeOK
  <1>1. CASE Load(r)
    <2>1. \/ Finish(r) \/ Goto(r, "ready") \/ Goto(r, "readTxns") \/ Goto(r, "price")
      BY <1>1 DEF Load
    <2> QED
      BY <1>0, <1>1, <2>1, AllSteps, FinishTypes, GotoTypes, NoWritesTypes DEF Load
  <1>2. CASE CheckReady(r)
    <2>1. Finish(r) \/ Goto(r, "price")
      BY <1>2 DEF CheckReady
    <2> QED
      BY <1>0, <1>2, <2>1, AllSteps, FinishTypes, GotoTypes, NoWritesTypes DEF CheckReady
  <1>3. CASE Price(r)
    <2>1. CASE \E gap \in 1 .. Required(r) :
                 req' = [req EXCEPT ![r].step = "createOrder", ![r].amount = gap]
      <3>1. PICK gap \in 1 .. Required(r) :
              req' = [req EXCEPT ![r].step = "createOrder", ![r].amount = gap]
        BY <2>1
      <3>2. gap \in Nat /\ req[r] \in Request
        BY <1>0, RequiredIsNat
      <3>3. [req[r] EXCEPT !.step = "createOrder", !.amount = gap] \in Request
        BY <3>2, AllSteps DEF Request
      <3> QED
        BY <1>0, <1>3, <3>1, <3>3, NoWritesTypes DEF Price
    <2>2. CASE Finish(r) \/ Goto(r, "setPublished") \/ Goto(r, "createFree")
      BY <1>0, <1>3, <2>2, AllSteps, FinishTypes, GotoTypes, NoWritesTypes DEF Price
    <2> QED
      BY <1>3, <2>1, <2>2 DEF Price
  <1>4. CASE RetrieveSession(r)
    <2>1. Finish(r) \/ Goto(r, "findOrder")
      BY <1>4 DEF RetrieveSession
    <2> QED
      BY <1>0, <1>4, <2>1, AllSteps, FinishTypes, GotoTypes, NoWritesTypes DEF RetrieveSession
  <1>5. CASE ReadTransactions(r)
    <2> DEFINE taken == {orders[o].txn : o \in Orders} \ {NoTxn}
    <2>1. taken \subseteq Txns
      BY DEF TypeOK, Order
    <2>2. req' = [req EXCEPT ![r].step = "fetch", ![r].seen = taken]
      BY <1>5 DEF ReadTransactions
    <2> HIDE DEF taken
    <2>3. [req[r] EXCEPT !.step = "fetch", !.seen = taken] \in Request
      BY <1>0, <2>1, AllSteps DEF Request
    <2> QED
      BY <1>0, <1>5, <2>2, <2>3, NoWritesTypes DEF ReadTransactions
  <1>6. CASE FetchSubscriber(r)
    <2>1. CASE \E t \in Txns : req' = [req EXCEPT ![r].step = "checkTxn", ![r].txn = t]
      <3>1. PICK t \in Txns : req' = [req EXCEPT ![r].step = "checkTxn", ![r].txn = t]
        BY <2>1
      <3>2. [req[r] EXCEPT !.step = "checkTxn", !.txn = t] \in Request
        BY <1>0, AllSteps DEF Request
      <3> QED
        BY <1>0, <1>6, <3>1, <3>2, NoWritesTypes DEF FetchSubscriber
    <2>2. CASE Finish(r)
      BY <1>0, <1>6, <2>2, FinishTypes, NoWritesTypes DEF FetchSubscriber
    <2>3. \A n \in 0 .. MaxCalls : 1 .. n \subseteq Txns
      BY Bounds DEF Txns
    <2> QED
      BY <1>6, <2>1, <2>2, <2>3 DEF FetchSubscriber
  <1>7. CASE CheckTransaction(r)
    <2>1. Finish(r) \/ Goto(r, "recordIap")
      BY <1>7 DEF CheckTransaction
    <2> QED
      BY <1>0, <1>7, <2>1, AllSteps, FinishTypes, GotoTypes, NoWritesTypes DEF CheckTransaction
  <1>8. CASE GateStatus(r)
    <2>1. Goto(r, "gateTier") \/ Goto(r, "insert")
      BY <1>8 DEF GateStatus
    <2> QED
      BY <1>0, <1>8, <2>1, AllSteps, GotoTypes, NoWritesTypes DEF GateStatus
  <1>9. CASE GateTier(r)
    <2>1. Finish(r) \/ Goto(r, "insert")
      BY <1>9 DEF GateTier
    <2> QED
      BY <1>0, <1>9, <2>1, AllSteps, FinishTypes, GotoTypes, NoWritesTypes DEF GateTier
  <1> QED
    BY <1>1, <1>2, <1>3, <1>4, <1>5, <1>6, <1>7, <1>8, <1>9

\* Steps that write a row, or what Stripe knows.
LEMMA WritingStepTypes ==
    ASSUME TypeOK, NEW r \in Requests, HandlerInv(r),
           \/ CreateFreeOrder(r) \/ SetPublished(r) \/ CreateOrder(r) \/ CreateCheckout(r)
           \/ StampSession(r) \/ Respond(r) \/ FindOrder(r) \/ RecordPayment(r)
           \/ SendReceipt(r) \/ SetUnpublished(r) \/ SetArchived(r) \/ SetDraft(r)
           \/ InsertTeam(r) \/ DeleteTeam(r)
    PROVE  TypeOK'
  <1> USE DEF tournamentVars, orgVars, stripeVars
  <1>0. req \in [Requests -> Request] /\ req[r] \in Request
    BY DEF TypeOK
  <1>1. CASE CreateFreeOrder(r)
    <2>1. orders' \in [Orders -> Order]
      BY <1>1, NewOrders, OrderUpdates DEF CreateFreeOrder, TypeOK
    <2>2. req' \in [Requests -> Request]
      BY <1>0, <1>1, AllSteps, GotoTypes DEF CreateFreeOrder
    <2> QED
      BY <1>1, <2>1, <2>2 DEF CreateFreeOrder, TypeOK
  <1>2. CASE SetPublished(r)
    BY <1>0, <1>2, FinishTypes DEF SetPublished, OnlyStatus, TypeOK, Statuses
  <1>3. CASE CreateOrder(r)
    <2>1. PICK o \in Orders :
            /\ orders' = [orders EXCEPT ![o] =
                  [NoOrder EXCEPT !.status = "PENDING_PAYMENT", !.tier = req[r].amount]]
            /\ req' = [req EXCEPT ![r].step = "checkout", ![r].order = o]
      BY <1>3 DEF CreateOrder
    <2>2. req[r].amount \in Nat
      BY <1>0 DEF Request
    <2>3. orders' \in [Orders -> Order]
      BY <2>1, <2>2, NewOrders, OrderUpdates DEF TypeOK
    <2>4. [req[r] EXCEPT !.step = "checkout", !.order = o] \in Request
      BY <1>0, AllSteps DEF Request
    <2>5. req' \in [Requests -> Request]
      BY <1>0, <2>1, <2>4
    <2> QED
      BY <1>3, <2>3, <2>5 DEF CreateOrder, TypeOK
  <1>4. CASE CreateCheckout(r)
    BY <1>0, <1>4, AllSteps, GotoTypes DEF CreateCheckout, TypeOK
  <1>5. CASE StampSession(r)
    <2>1. req[r].order \in Orders
      BY <1>5 DEF StampSession, HandlerInv, Opening
    <2>2. [orders[req[r].order] EXCEPT !.session = req[r].order] \in Order
      BY <2>1 DEF TypeOK, Order
    <2>3. orders' \in [Orders -> Order]
      BY <1>5, <2>1, <2>2 DEF StampSession, TypeOK
    <2> QED
      BY <1>0, <1>5, <2>3, AllSteps, GotoTypes DEF StampSession, TypeOK
  <1>6. CASE Respond(r)
    BY <1>0, <1>6, FinishTypes DEF Respond, TypeOK
  <1>7. CASE FindOrder(r)
    <2>1. Finish(r) \/ Goto(r, "record")
      BY <1>7 DEF FindOrder, Answer
    <2>2. due' \subseteq Orders
      BY <1>7 DEF FindOrder, Answer, TypeOK
    <2>3. req' \in [Requests -> Request]
      BY <1>0, <2>1, AllSteps, FinishTypes, GotoTypes
    <2> QED
      BY <1>7, <2>2, <2>3 DEF FindOrder, TypeOK
  <1>8. CASE RecordPayment(r)
    <2>1. req[r].order \in Orders
      BY <1>8 DEF RecordPayment, HandlerInv
    <2>2. [orders[req[r].order] EXCEPT !.status = "PAID"] \in Order
      BY <2>1 DEF TypeOK, Order
    <2>3. orders' \in [Orders -> Order]
      BY <1>8, <2>1, <2>2 DEF RecordPayment, TypeOK
    <2> QED
      BY <1>0, <1>8, <2>3, AllSteps, GotoTypes DEF RecordPayment, TypeOK, Statuses
  <1>9. CASE SendReceipt(r)
    BY <1>0, <1>9, FinishTypes DEF SendReceipt, Answer, TypeOK
  <1>10. CASE SetUnpublished(r)
    BY <1>0, <1>10, FinishTypes DEF SetUnpublished, OnlyStatus, TypeOK, Statuses
  <1>11. CASE SetArchived(r)
    BY <1>0, <1>11, FinishTypes DEF SetArchived, TypeOK, Statuses
  <1>12. CASE SetDraft(r)
    BY <1>0, <1>12, FinishTypes DEF SetDraft, TypeOK, Statuses
  <1>13. CASE InsertTeam(r)
    <2>1. teams' \in Nat
      BY <1>13 DEF InsertTeam, TypeOK
    <2>2. req' \in [Requests -> Request]
      <3>1. CASE req[r].count > 1
        <4>1. [req[r] EXCEPT !.count = req[r].count - 1] \in Request
          BY <1>0, <3>1 DEF Request
        <4> QED
          BY <1>0, <1>13, <3>1, <4>1 DEF InsertTeam
      <3>2. CASE ~(req[r].count > 1)
        BY <1>0, <1>13, <3>2, FinishTypes DEF InsertTeam
      <3> QED
        BY <3>1, <3>2
    <2> QED
      BY <1>13, <2>1, <2>2 DEF InsertTeam, TypeOK
  <1>14. CASE DeleteTeam(r)
    BY <1>0, <1>14, FinishTypes DEF DeleteTeam, TypeOK
  <1> QED
    BY <1>1, <1>2, <1>3, <1>4, <1>5, <1>6, <1>7, <1>8, <1>9, <1>10, <1>11, <1>12,
       <1>13, <1>14

\* An iOS purchase is recorded under a transaction the request was given.
LEMMA RecordPurchaseTypes ==
    ASSUME TypeOK, NEW r \in Requests, RecordPurchase(r)
    PROVE  TypeOK'
  <1>0. req \in [Requests -> Request] /\ req[r] \in Request
    BY DEF TypeOK
  <1>1. PaidPurchase(r) \in Order
    BY <1>0 DEF PaidPurchase, Order, Request, NoOrder, NoSession, NoTxn
  <1>2. orders' \in [Orders -> Order] /\ status' \in Statuses
    BY <1>1, OrderUpdates DEF RecordPurchase, TypeOK, Statuses
  <1>3. Finish(r) \/ Goto(r, "receipt")
    BY DEF RecordPurchase
  <1>4. req' \in [Requests -> Request]
    BY <1>0, <1>3, AllSteps, FinishTypes, GotoTypes
  <1> QED
    BY <1>2, <1>4 DEF RecordPurchase, TypeOK, orgVars, stripeVars

LEMMA OutsideTypes ==
    ASSUME TypeOK, Outside
    PROVE  TypeOK'
  <1> USE DEF tournamentVars, orgVars, stripeVars, Spend
  <1>1. CASE ChangeStructure
    BY <1>1 DEF ChangeStructure, TypeOK
  <1>2. CASE ChangeSubscription
    BY <1>2 DEF ChangeSubscription, TypeOK
  <1>3. CASE ChangeSuspension
    BY <1>3 DEF ChangeSuspension, TypeOK
  <1>4. CASE RegisterTeam
    BY <1>4 DEF RegisterTeam, TypeOK
  <1>5. CASE Buy
    BY <1>5 DEF Buy, TypeOK
  <1>6. CASE \E o \in Orders : Pay(o)
    BY <1>6 DEF Pay, TypeOK
  <1> QED
    BY <1>1, <1>2, <1>3, <1>4, <1>5, <1>6 DEF Outside

LEMMA DeliverKeeps ==
    ASSUME TypeOK, NEW r \in Requests, NEW o \in Orders, Deliver(r, o)
    PROVE  /\ TypeOK'
           /\ req'[r].step = "findOrder" /\ req'[r].order = o
           /\ \A q \in Requests \ {r} : req'[q] = req[q]
  <1> DEFINE new == [Idle EXCEPT !.op = "webhook", !.step = "findOrder", !.order = o]
  <1>1. new \in Request /\ new.step = "findOrder" /\ new.order = o
    BY DEF Idle, Request, Ops, Steps, Products, NoTxn
  <1>2. req' = [req EXCEPT ![r] = new]
    BY DEF Deliver
  <1> HIDE DEF new
  <1>3. /\ req' \in [Requests -> Request]
        /\ req'[r] = new
        /\ \A q \in Requests \ {r} : req'[q] = req[q]
    BY <1>1, <1>2 DEF TypeOK
  <1> QED
    BY <1>1, <1>3, NoWritesTypes DEF Deliver

LEMMA FailTypes ==
    ASSUME TypeOK, NEW r \in Requests, Fail(r)
    PROVE  TypeOK'
  BY FinishTypes DEF Fail, TypeOK, tournamentVars, orgVars, stripeVars

(***************************************************************************)
(* The inductive invariant                                                 *)
(***************************************************************************)
\* The steps whose handlers HandlerInv speaks about.
Claimed == Opening \cup {"retrieve", "findOrder", "record", "setPublished"}

\* A step that leaves the orders and the sessions alone, and takes its request
\* to a point about which nothing is claimed, keeps the invariant.
LEMMA FrameKeeps ==
    ASSUME HandlersInv, OpeningsInv, SessionsInv, NEW r \in Requests,
           UNCHANGED <<orders, session>>, due' \subseteq due,
           \A q \in Requests \ {r} : req'[q] = req[q],
           req'[r].step \notin Claimed
    PROVE  HandlersInv' /\ OpeningsInv' /\ SessionsInv'
  <1>1. HandlersInv'
    <2> SUFFICES ASSUME NEW q \in Requests PROVE HandlerInv(q)'
      BY DEF HandlersInv
    <2>1. CASE q = r
      BY <2>1 DEF HandlerInv, Claimed, Opening
    <2>2. CASE q # r
      BY <2>2 DEF HandlersInv, HandlerInv, Pending, Stamped, PaidOrders
    <2> QED
      BY <2>1, <2>2
  <1>2. OpeningsInv'
    BY DEF OpeningsInv, Claimed
  <1>3. SessionsInv'
    BY DEF SessionsInv, Stamped
  <1> QED
    BY <1>1, <1>2, <1>3

\* The same for a step that takes its request to a claim that holds.
LEMMA ClaimKeeps ==
    ASSUME HandlersInv, OpeningsInv, SessionsInv, NEW r \in Requests,
           UNCHANGED <<orders, session>>, due' \subseteq due,
           \A q \in Requests \ {r} : req'[q] = req[q],
           req'[r].step \notin Opening, HandlerInv(r)'
    PROVE  HandlersInv' /\ OpeningsInv' /\ SessionsInv'
  <1>1. HandlersInv'
    <2> SUFFICES ASSUME NEW q \in Requests \ {r} PROVE HandlerInv(q)'
      BY DEF HandlersInv
    <2> QED
      BY DEF HandlersInv, HandlerInv, Pending, Stamped, PaidOrders
  <1>2. OpeningsInv'
    BY DEF OpeningsInv
  <1>3. SessionsInv'
    BY DEF SessionsInv, Stamped
  <1> QED
    BY <1>1, <1>2, <1>3

\* A step that writes an order while every handler's claim about every other
\* order is about rows it left alone.
LEMMA OrderWriteKeeps ==
    ASSUME TypeOK, HandlersInv, OpeningsInv, SessionsInv,
           NEW r \in Requests, NEW o \in Orders, NEW new \in Order,
           orders' = [orders EXCEPT ![o] = new],
           UNCHANGED <<session, due>>,
           \A q \in Requests \ {r} : req'[q] = req[q],
           new.status # "NONE", orders[o].status = "PAID" => new.status = "PAID",
           orders[o].session # NoSession => new.session # NoSession,
           \A q \in Requests \ {r} :
              req[q].step \in Opening => req[q].order # o,
           HandlerInv(r)',
           req'[r].step \in Opening => req'[r].order = o
    PROVE  HandlersInv' /\ OpeningsInv' /\ SessionsInv'
  <1>0. /\ orders'[o] = new
        /\ \A p \in Orders \ {o} : orders'[p] = orders[p]
    BY DEF TypeOK
  <1>1. HandlersInv'
    <2> SUFFICES ASSUME NEW q \in Requests \ {r} PROVE HandlerInv(q)'
      BY DEF HandlersInv
    <2>1. HandlerInv(q) /\ req'[q] = req[q]
      BY DEF HandlersInv
    <2>2. PaidOrders # {} => PaidOrders' # {}
      BY <1>0 DEF PaidOrders
    <2>3. CASE req[q].step \in Opening
      BY <1>0, <2>1, <2>3 DEF HandlerInv, Pending, Stamped, Opening
    <2>4. CASE req[q].step \notin Opening
      BY <1>0, <2>1, <2>2, <2>4 DEF HandlerInv, Pending, Stamped, Opening
    <2> QED
      BY <2>3, <2>4
  <1>2. OpeningsInv'
    BY DEF OpeningsInv
  <1>3. SessionsInv'
    BY <1>0 DEF SessionsInv, Stamped, NoOrder
  <1> QED
    BY <1>1, <1>2, <1>3

\* Reading steps, and steps that write the tournament only, claim nothing new,
\* except SetPublished's turn once there is a paid order.
LEMMA QuietSteps ==
    ASSUME PublicationInv, NEW r \in Requests,
           \/ Load(r) \/ CheckReady(r) \/ Price(r) \/ RetrieveSession(r)
           \/ ReadTransactions(r) \/ FetchSubscriber(r) \/ CheckTransaction(r)
           \/ GateStatus(r) \/ GateTier(r) \/ SetPublished(r) \/ FindOrder(r)
           \/ SendReceipt(r) \/ SetUnpublished(r) \/ SetArchived(r) \/ SetDraft(r)
           \/ InsertTeam(r) \/ DeleteTeam(r) \/ Fail(r)
    PROVE  /\ UNCHANGED <<orders, session>> /\ due' \subseteq due
           /\ \A q \in Requests \ {r} : req'[q] = req[q]
           /\ req'[r].step \notin Opening /\ HandlerInv(r)'
  <1> USE DEF PublicationInv, TypeOK
  <1>0. req[r] \in Request /\ HandlerInv(r)
    BY DEF HandlersInv
  <1> DEFINE Others == \A q \in Requests \ {r} : req'[q] = req[q]
             Unclaimed == req'[r].step \notin Claimed
             Keeps == UNCHANGED <<orders, session>> /\ due' \subseteq due
  <1>1. ASSUME Finish(r) PROVE Others /\ Unclaimed
    BY <1>1, FinishTypes DEF Idle, Claimed, Opening
  <1>2. ASSUME NEW s \in Steps, Goto(r, s)
        PROVE  Others /\ req'[r].step = s /\ req'[r].order = req[r].order
    BY <1>2, GotoTypes
  <1>3. Unclaimed => req'[r].step \notin Opening /\ HandlerInv(r)'
    BY DEF HandlerInv, Claimed, Opening
  <1>4. ASSUME NoWrites PROVE Keeps
    BY <1>4 DEF NoWrites, stripeVars
  <1>5. CASE Load(r)
    <2>1. \/ Finish(r) \/ Goto(r, "ready") \/ Goto(r, "readTxns") \/ Goto(r, "price")
      BY <1>5 DEF Load
    <2>2. Others /\ Unclaimed
      BY <1>1, <1>2, <2>1, AllSteps DEF Claimed, Opening
    <2> QED
      BY <1>3, <1>4, <1>5, <2>2 DEF Load
  <1>6. CASE CheckReady(r)
    <2>1. Others /\ Unclaimed
      BY <1>1, <1>2, <1>6, AllSteps DEF CheckReady, Claimed, Opening
    <2> QED
      BY <1>3, <1>4, <1>6, <2>1 DEF CheckReady
  <1>7. CASE Price(r)
    <2>1. CASE \E gap \in 1 .. Required(r) :
                 req' = [req EXCEPT ![r].step = "createOrder", ![r].amount = gap]
      <3>1. Others /\ Unclaimed
        BY <1>0, <2>1 DEF Claimed, Opening, Request
      <3> QED
        BY <1>3, <1>4, <1>7, <3>1 DEF Price
    <2>2. CASE Finish(r) \/ Goto(r, "createFree")
      <3>1. Others /\ Unclaimed
        BY <1>1, <1>2, <2>2, AllSteps DEF Claimed, Opening
      <3> QED
        BY <1>3, <1>4, <1>7, <3>1 DEF Price
    <2>3. CASE Goto(r, "setPublished") /\ PaidOrders # {}
      <3>1. Others /\ req'[r].step = "setPublished"
        BY <1>2, <2>3, AllSteps
      <3>2. PaidOrders' # {}
        BY <1>4, <1>7, <2>3 DEF Price, PaidOrders
      <3>3. HandlerInv(r)'
        BY <3>1, <3>2 DEF HandlerInv, Opening
      <3> QED
        BY <1>4, <1>7, <3>1, <3>3 DEF Price, Opening
    <2> QED
      BY <1>7, <2>1, <2>2, <2>3 DEF Price
  <1>8. CASE RetrieveSession(r)
    <2>1. CASE Finish(r)
      BY <1>1, <1>3, <1>4, <1>8, <2>1 DEF RetrieveSession
    <2>2. CASE Goto(r, "findOrder") /\ session[req[r].order] = "paid"
      <3>1. Others /\ req'[r].step = "findOrder" /\ req'[r].order = req[r].order
        BY <1>2, <2>2, AllSteps
      <3>2. req[r].order \in Orders
        BY <1>0, <1>8 DEF RetrieveSession, HandlerInv
      <3>3. Keeps
        BY <1>4, <1>8 DEF RetrieveSession
      <3>4. HandlerInv(r)'
        BY <2>2, <3>1, <3>2, <3>3 DEF HandlerInv, Opening
      <3> QED
        BY <3>1, <3>3, <3>4 DEF Opening
    <2> QED
      BY <1>8, <2>1, <2>2 DEF RetrieveSession
  <1>9. CASE ReadTransactions(r)
    <2> DEFINE taken == {orders[o].txn : o \in Orders} \ {NoTxn}
    <2>1. req' = [req EXCEPT ![r].step = "fetch", ![r].seen = taken]
      BY <1>9 DEF ReadTransactions
    <2> HIDE DEF taken
    <2>2. Others /\ Unclaimed
      BY <1>0, <2>1 DEF Claimed, Opening, Request
    <2> QED
      BY <1>3, <1>4, <1>9, <2>2 DEF ReadTransactions
  <1>10. CASE FetchSubscriber(r)
    <2>1. CASE \E t : req' = [req EXCEPT ![r].step = "checkTxn", ![r].txn = t]
      <3>1. Others /\ Unclaimed
        BY <1>0, <2>1 DEF Claimed, Opening, Request
      <3> QED
        BY <1>3, <1>4, <1>10, <3>1 DEF FetchSubscriber
    <2>2. CASE Finish(r)
      BY <1>1, <1>3, <1>4, <1>10, <2>2 DEF FetchSubscriber
    <2> QED
      BY <1>10, <2>1, <2>2 DEF FetchSubscriber
  <1>11. CASE CheckTransaction(r)
    <2>1. Others /\ Unclaimed
      BY <1>1, <1>2, <1>11, AllSteps DEF CheckTransaction, Claimed, Opening
    <2> QED
      BY <1>3, <1>4, <1>11, <2>1 DEF CheckTransaction
  <1>12. CASE GateStatus(r)
    <2>1. Goto(r, "gateTier") \/ Goto(r, "insert")
      BY <1>12 DEF GateStatus
    <2>2. Others /\ Unclaimed
      BY <1>2, <2>1, AllSteps DEF Claimed, Opening
    <2> QED
      BY <1>3, <1>4, <1>12, <2>2 DEF GateStatus
  <1>13. CASE GateTier(r)
    <2>1. Others /\ Unclaimed
      BY <1>1, <1>2, <1>13, AllSteps DEF GateTier, Claimed, Opening
    <2> QED
      BY <1>3, <1>4, <1>13, <2>1 DEF GateTier
  <1>14. CASE SetPublished(r) \/ SetUnpublished(r)
    <2>1. Finish(r) /\ OnlyStatus
      BY <1>14 DEF SetPublished, SetUnpublished
    <2> QED
      BY <1>1, <1>3, <2>1 DEF OnlyStatus, stripeVars
  <1>15. CASE FindOrder(r)
    <2>1. UNCHANGED <<orders, session>>
      BY <1>15 DEF FindOrder
    <2>2. CASE Answer(r)
      <3>1. due' \subseteq due /\ Finish(r)
        BY <2>2 DEF Answer
      <3> QED
        BY <1>1, <1>3, <2>1, <3>1
    <2>3. CASE Stamped(req[r].order) /\ Goto(r, "record") /\ UNCHANGED due
      <3>1. Others /\ req'[r].step = "record" /\ req'[r].order = req[r].order
        BY <1>2, <2>3, AllSteps
      <3>2. req[r].order \in Orders /\ session[req[r].order] = "paid"
        BY <1>0, <1>15 DEF FindOrder, HandlerInv
      <3>3. HandlerInv(r)'
        BY <2>1, <2>3, <3>1, <3>2 DEF HandlerInv, Opening, Stamped
      <3> QED
        BY <2>1, <2>3, <3>1, <3>3 DEF Opening
    <2> QED
      BY <1>15, <2>2, <2>3 DEF FindOrder
  <1>16. CASE SendReceipt(r)
    BY <1>1, <1>3, <1>16 DEF SendReceipt, Answer
  <1>17. CASE SetArchived(r) \/ SetDraft(r) \/ DeleteTeam(r) \/ Fail(r)
    <2>1. Finish(r) /\ UNCHANGED <<orders, session, due>>
      BY <1>17 DEF SetArchived, SetDraft, DeleteTeam, Fail, stripeVars
    <2> QED
      BY <1>1, <1>3, <2>1
  <1>18. CASE InsertTeam(r)
    <2>1. UNCHANGED <<orders, session, due>>
      BY <1>18 DEF InsertTeam, stripeVars
    <2>2. CASE Finish(r)
      BY <1>1, <1>3, <2>1, <2>2
    <2>3. CASE req' = [req EXCEPT ![r].count = @ - 1]
      <3>1. Others /\ req'[r].step = "insert"
        BY <1>0, <1>18, <2>3 DEF InsertTeam, Request
      <3> QED
        BY <1>3, <2>1, <3>1 DEF Claimed, Opening
    <2> QED
      BY <1>18, <2>2, <2>3 DEF InsertTeam
  <1> QED
    BY <1>5, <1>6, <1>7, <1>8, <1>9, <1>10, <1>11, <1>12, <1>13, <1>14, <1>15, <1>16,
       <1>17, <1>18

\* The steps that write orders or sessions.
LEMMA OpeningSteps ==
    ASSUME PublicationInv, NEW r \in Requests,
           CreateFreeOrder(r) \/ CreateOrder(r) \/ StampSession(r)
    PROVE  /\ HandlersInv' /\ OpeningsInv' /\ SessionsInv'
           /\ PaidOrders # {} => PaidOrders' # {}
  <1> USE DEF PublicationInv, TypeOK
  <1>0. req[r] \in Request /\ HandlerInv(r)
    BY DEF HandlersInv
  <1>1. CASE CreateFreeOrder(r)
    <2> DEFINE new == [NoOrder EXCEPT !.status = "PAID"]
    <2>1. PICK o \in Orders : Fresh(o) /\ orders' = [orders EXCEPT ![o] = new]
      BY <1>1 DEF CreateFreeOrder
    <2>2. new \in Order /\ new.status = "PAID" /\ NoOrder.status = "NONE"
      BY NewOrders DEF NoOrder
    <2> HIDE DEF new
    <2>3. /\ req'[r].step = "setPublished"
          /\ \A q \in Requests \ {r} : req'[q] = req[q]
      BY <1>1, AllSteps, GotoTypes DEF CreateFreeOrder
    <2>4. orders'[o].status = "PAID" /\ orders[o] = NoOrder
      BY <2>1, <2>2 DEF Fresh
    <2>5. PaidOrders' # {}
      BY <2>4 DEF PaidOrders
    <2>6. HandlerInv(r)'
      BY <2>3, <2>5 DEF HandlerInv, Opening
    <2>7. \A q \in Requests \ {r} : req[q].step \in Opening => req[q].order # o
      BY <2>2, <2>4 DEF HandlersInv, HandlerInv, Pending
    <2>8. UNCHANGED <<session, due>>
      BY <1>1 DEF CreateFreeOrder, stripeVars
    <2>9. orders[o].session = NoSession
      BY <2>4 DEF NoOrder
    <2> QED
      BY <2>1, <2>2, <2>3, <2>4, <2>5, <2>6, <2>7, <2>8, <2>9, OrderWriteKeeps DEF Opening
  <1>2. CASE CreateOrder(r)
    <2> DEFINE new == [NoOrder EXCEPT !.status = "PENDING_PAYMENT", !.tier = req[r].amount]
    <2>1. PICK o \in Orders :
            /\ Fresh(o)
            /\ orders' = [orders EXCEPT ![o] = new]
            /\ req' = [req EXCEPT ![r].step = "checkout", ![r].order = o]
      BY <1>2 DEF CreateOrder
    <2>2. /\ new \in Order /\ new.status = "PENDING_PAYMENT" /\ NoOrder.status = "NONE"
          /\ new.session = NoSession /\ NoOrder.session = NoSession
      BY <1>0, NewOrders DEF NoOrder, Request
    <2> HIDE DEF new
    <2>3. /\ req'[r].step = "checkout" /\ req'[r].order = o
          /\ \A q \in Requests \ {r} : req'[q] = req[q]
      BY <1>0, <2>1 DEF Request
    <2>4. orders'[o] = new /\ orders[o] = NoOrder
      BY <2>1 DEF Fresh
    <2>5. UNCHANGED <<session, due>>
      BY <1>2 DEF CreateOrder, stripeVars
    <2>6. HandlerInv(r)'
      BY <2>2, <2>3, <2>4, <2>5 DEF HandlerInv, Opening, Pending, Stamped, SessionsInv
    <2>7. \A q \in Requests \ {r} : req[q].step \in Opening => req[q].order # o
      BY <2>2, <2>4 DEF HandlersInv, HandlerInv, Pending
    <2>8. PaidOrders # {} => PaidOrders' # {}
      BY <2>1, <2>2, <2>4 DEF PaidOrders
    <2> QED
      BY <2>1, <2>2, <2>3, <2>4, <2>5, <2>6, <2>7, <2>8, OrderWriteKeeps DEF Opening
  <1>3. CASE StampSession(r)
    <2> DEFINE o == req[r].order
               new == [orders[o] EXCEPT !.session = o]
    <2>1. o \in Orders /\ Pending(o) /\ session[o] = "created"
      BY <1>0, <1>3 DEF StampSession, HandlerInv, Opening
    <2>2. orders' = [orders EXCEPT ![o] = new]
      BY <1>3 DEF StampSession
    <2>3. o # NoSession
      BY <2>1, Bounds DEF Orders, NoSession
    <2>4. /\ new \in Order /\ new.status = "PENDING_PAYMENT" /\ new.session # NoSession
          /\ orders[o].status = "PENDING_PAYMENT"
      BY <2>1, <2>3 DEF Order, Pending
    <2>5. /\ req'[r].step = "respond" /\ req'[r].order = o
          /\ \A q \in Requests \ {r} : req'[q] = req[q]
      BY <1>3, AllSteps, GotoTypes DEF StampSession
    <2>6. UNCHANGED <<session, due>>
      BY <1>3 DEF StampSession, stripeVars
    <2>7. \A q \in Requests \ {r} : req[q].step \in Opening => req[q].order # o
      BY <1>3 DEF OpeningsInv, StampSession, Opening
    <2> HIDE DEF o, new
    <2>8. orders'[o] = new
      BY <2>1, <2>2
    <2>9. HandlerInv(r)'
      BY <2>1, <2>4, <2>5, <2>6, <2>8 DEF HandlerInv, Opening, Pending, Stamped
    <2>10. PaidOrders # {} => PaidOrders' # {}
      BY <2>1, <2>2, <2>4 DEF PaidOrders
    <2> QED
      BY <2>1, <2>2, <2>4, <2>5, <2>6, <2>7, <2>9, <2>10, OrderWriteKeeps DEF Opening
  <1> QED
    BY <1>1, <1>2, <1>3

\* Recording a payment or a purchase.
LEMMA RecordingSteps ==
    ASSUME PublicationInv, NEW r \in Requests, RecordPayment(r) \/ RecordPurchase(r)
    PROVE  /\ HandlersInv' /\ OpeningsInv' /\ SessionsInv'
           /\ \/ PaidOrders' # {}
              \/ UNCHANGED <<orders, status>>
  <1> USE DEF PublicationInv, TypeOK
  <1>0. req[r] \in Request /\ HandlerInv(r)
    BY DEF HandlersInv
  <1>1. UNCHANGED <<session, due>>
    BY DEF RecordPayment, RecordPurchase, stripeVars
  <1>2. CASE RecordPayment(r)
    <2> DEFINE o == req[r].order
               new == [orders[o] EXCEPT !.status = "PAID"]
    <2>1. o \in Orders /\ session[o] = "paid"
      BY <1>0, <1>2 DEF RecordPayment, HandlerInv
    <2>2. orders' = [orders EXCEPT ![o] = new]
      BY <1>2 DEF RecordPayment
    <2>3. new \in Order /\ new.status = "PAID" /\ new.session = orders[o].session
      BY <2>1 DEF Order
    <2>4. req'[r].step = "receipt" /\ \A q \in Requests \ {r} : req'[q] = req[q]
      BY <1>2, AllSteps, GotoTypes DEF RecordPayment
    <2>5. \A q \in Requests \ {r} : req[q].step \in Opening => req[q].order # o
      BY <2>1 DEF HandlersInv, HandlerInv, Opening
    <2> HIDE DEF o, new
    <2>6. orders'[o].status = "PAID"
      BY <2>1, <2>2, <2>3
    <2>7. PaidOrders' # {}
      BY <2>1, <2>6 DEF PaidOrders
    <2>8. HandlerInv(r)'
      BY <2>4 DEF HandlerInv, Opening
    <2> QED
      BY <1>1, <2>1, <2>2, <2>3, <2>4, <2>5, <2>7, <2>8, OrderWriteKeeps DEF Opening
  <1>3. CASE RecordPurchase(r) /\ Finish(r) /\ UNCHANGED <<orders, status>>
    <2>1. req'[r].step \notin Claimed /\ \A q \in Requests \ {r} : req'[q] = req[q]
      BY <1>3, FinishTypes DEF Idle, Claimed, Opening
    <2> QED
      BY <1>1, <1>3, <2>1, FrameKeeps
  <1>4. CASE /\ Goto(r, "receipt")
             /\ \E o \in Orders :
                   Fresh(o) /\ orders' = [orders EXCEPT ![o] = PaidPurchase(r)]
    <2> DEFINE new == PaidPurchase(r)
    <2>1. PICK o \in Orders : Fresh(o) /\ orders' = [orders EXCEPT ![o] = new]
      BY <1>4
    <2>2. /\ new \in Order /\ new.status = "PAID"
          /\ NoOrder.status = "NONE" /\ NoOrder.session = NoSession
      BY <1>0 DEF PaidPurchase, Order, Request, NoOrder, NoSession, NoTxn
    <2> HIDE DEF new
    <2>3. orders'[o].status = "PAID" /\ orders[o] = NoOrder
      BY <2>1, <2>2 DEF Fresh
    <2>4. req'[r].step = "receipt" /\ \A q \in Requests \ {r} : req'[q] = req[q]
      BY <1>4, AllSteps, GotoTypes
    <2>5. PaidOrders' # {}
      BY <2>3 DEF PaidOrders
    <2>6. HandlerInv(r)'
      BY <2>4 DEF HandlerInv, Opening
    <2>7. \A q \in Requests \ {r} : req[q].step \in Opening => req[q].order # o
      BY <2>2, <2>3 DEF HandlersInv, HandlerInv, Pending
    <2> QED
      BY <1>1, <2>1, <2>2, <2>3, <2>4, <2>5, <2>6, <2>7, OrderWriteKeeps DEF Opening
  <1> QED
    BY <1>2, <1>3, <1>4 DEF RecordPurchase

\* What happens at Stripe moves the session of one order, which nobody else is opening.
LEMMA SessionSteps ==
    ASSUME PublicationInv,
           \/ \E r \in Requests : CreateCheckout(r) \/ Respond(r)
           \/ \E o \in Orders : Pay(o)
    PROVE  HandlersInv' /\ OpeningsInv' /\ SessionsInv' /\ UNCHANGED orders
  <1> USE DEF PublicationInv, TypeOK
  <1>1. ASSUME NEW r \in Requests, CreateCheckout(r)
        PROVE  HandlersInv' /\ OpeningsInv' /\ SessionsInv' /\ UNCHANGED orders
    <2> DEFINE o == req[r].order
    <2>1. o \in Orders /\ Pending(o) /\ ~Stamped(o) /\ session[o] = "none"
      BY <1>1 DEF CreateCheckout, HandlersInv, HandlerInv, Opening
    <2>2. /\ req'[r].step = "stamp" /\ req'[r].order = o
          /\ \A q \in Requests \ {r} : req'[q] = req[q]
      BY <1>1, AllSteps, GotoTypes DEF CreateCheckout
    <2>3. /\ session'[o] = "created"
          /\ \A p \in Orders \ {o} : session'[p] = session[p]
          /\ UNCHANGED <<orders, due>>
      BY <1>1, <2>1 DEF CreateCheckout
    <2>4. \A q \in Requests \ {r} : req[q].step \in Opening => req[q].order # o
      BY <1>1 DEF OpeningsInv, CreateCheckout, Opening
    <2> HIDE DEF o
    <2>5. HandlersInv'
      <3> SUFFICES ASSUME NEW q \in Requests PROVE HandlerInv(q)'
        BY DEF HandlersInv
      <3>1. CASE q = r
        BY <2>1, <2>2, <2>3, <3>1 DEF HandlerInv, Opening, Pending, Stamped
      <3>2. CASE q # r
        BY <2>1, <2>2, <2>3, <2>4, <3>2
           DEF HandlersInv, HandlerInv, Opening, Pending, Stamped, PaidOrders
      <3> QED
        BY <3>1, <3>2
    <2>6. OpeningsInv'
      BY <2>2, <2>4 DEF OpeningsInv
    <2>7. SessionsInv'
      BY <2>1, <2>3 DEF SessionsInv, Stamped, Pending, NoOrder
    <2> QED
      BY <2>3, <2>5, <2>6, <2>7
  <1>2. ASSUME NEW r \in Requests, Respond(r)
        PROVE  HandlersInv' /\ OpeningsInv' /\ SessionsInv' /\ UNCHANGED orders
    <2> DEFINE o == req[r].order
    <2>1. o \in Orders /\ Pending(o) /\ Stamped(o) /\ session[o] = "created"
      BY <1>2 DEF Respond, HandlersInv, HandlerInv, Opening
    <2>2. /\ req'[r].step = "idle"
          /\ \A q \in Requests \ {r} : req'[q] = req[q]
      BY <1>2, FinishTypes DEF Respond, Idle
    <2>3. /\ session'[o] = "offered"
          /\ \A p \in Orders \ {o} : session'[p] = session[p]
          /\ UNCHANGED <<orders, due>>
      BY <1>2, <2>1 DEF Respond
    <2>4. \A q \in Requests \ {r} : req[q].step \in Opening => req[q].order # o
      BY <1>2 DEF OpeningsInv, Respond, Opening
    <2> HIDE DEF o
    <2>5. HandlersInv'
      <3> SUFFICES ASSUME NEW q \in Requests PROVE HandlerInv(q)'
        BY DEF HandlersInv
      <3>1. CASE q = r
        BY <2>2, <3>1 DEF HandlerInv, Opening
      <3>2. CASE q # r
        BY <2>1, <2>2, <2>3, <2>4, <3>2
           DEF HandlersInv, HandlerInv, Opening, Pending, Stamped, PaidOrders
      <3> QED
        BY <3>1, <3>2
    <2>6. OpeningsInv'
      BY <2>2 DEF OpeningsInv, Opening
    <2>7. SessionsInv'
      BY <2>1, <2>3 DEF SessionsInv, Stamped, Pending, NoOrder
    <2> QED
      BY <2>3, <2>5, <2>6, <2>7
  <1>3. ASSUME NEW o \in Orders, Pay(o)
        PROVE  HandlersInv' /\ OpeningsInv' /\ SessionsInv' /\ UNCHANGED orders
    <2>1. /\ session[o] = "offered" /\ session'[o] = "paid"
          /\ \A p \in Orders \ {o} : session'[p] = session[p]
          /\ due' = due \cup {o}
          /\ UNCHANGED <<orders, req>>
      BY <1>3 DEF Pay
    <2>2. HandlersInv'
      <3> SUFFICES ASSUME NEW q \in Requests PROVE HandlerInv(q)'
        BY DEF HandlersInv
      <3> QED
        BY <2>1 DEF HandlersInv, HandlerInv, Opening, Pending, Stamped, PaidOrders
    <2>3. OpeningsInv'
      BY <2>1 DEF OpeningsInv
    <2>4. SessionsInv'
      BY <2>1 DEF SessionsInv, Stamped, NoOrder
    <2> QED
      BY <2>1, <2>2, <2>3, <2>4
  <1> QED
    BY <1>1, <1>2, <1>3

\* A call or a delivery that arrives.
LEMMA ArrivalSteps ==
    ASSUME PublicationInv, NEW r \in Requests,
           Start(r) \/ \E o \in Orders : Deliver(r, o)
    PROVE  /\ TypeOK' /\ HandlersInv' /\ OpeningsInv' /\ SessionsInv'
           /\ UNCHANGED <<status, orders, session>>
  <1> USE DEF PublicationInv
  <1>1. CASE Start(r)
    <2>1. /\ TypeOK'
          /\ \A q \in Requests \ {r} : req'[q] = req[q]
          /\ UNCHANGED <<status, orders, session, due>>
      BY <1>1, StartKeeps
    <2>2. req'[r].step \notin Opening /\ HandlerInv(r)'
      BY <1>1, StartKeeps DEF HandlerInv, Opening
    <2> QED
      BY <2>1, <2>2, ClaimKeeps
  <1>2. CASE \E o \in Orders : Deliver(r, o)
    <2>1. PICK o \in Orders : Deliver(r, o)
      BY <1>2
    <2>2. /\ TypeOK' /\ req'[r].step = "findOrder" /\ req'[r].order = o
          /\ \A q \in Requests \ {r} : req'[q] = req[q]
      BY <2>1, DeliverKeeps
    <2>3. UNCHANGED <<status, orders, session, due>>
      BY <2>1 DEF Deliver, NoWrites, tournamentVars, stripeVars
    <2>4. session[o] = "paid"
      BY <2>1 DEF Deliver, SessionsInv
    <2>5. req'[r].step \notin Opening /\ HandlerInv(r)'
      BY <2>2, <2>3, <2>4 DEF HandlerInv, Opening
    <2> QED
      BY <2>2, <2>3, <2>5, ClaimKeeps
  <1> QED
    BY <1>1, <1>2

LEMMA PublicationInitially == Init => PublicationInv
  <1> SUFFICES ASSUME Init PROVE PublicationInv
    OBVIOUS
  <1> USE DEF Init
  <1>1. TypeOK
    <2>1. NoOrder \in Order
      BY DEF NoOrder, Order, NoSession, NoTxn
    <2> QED
      BY <2>1, Bounds, IdleIsRequest DEF TypeOK, Statuses
  <1>2. HandlersInv /\ OpeningsInv
    BY DEF HandlersInv, HandlerInv, OpeningsInv, Opening, Idle
  <1>3. SessionsInv
    BY DEF SessionsInv, Stamped, NoOrder, NoSession
  <1>4. PublishedWasPaid
    BY DEF PublishedWasPaid
  <1> QED
    BY <1>1, <1>2, <1>3, <1>4 DEF PublicationInv

LEMMA PublicationStep == PublicationInv /\ [Next]_vars => PublicationInv'
  <1> SUFFICES ASSUME PublicationInv, [Next]_vars PROVE PublicationInv'
    OBVIOUS
  <1> USE DEF PublicationInv
  <1>1. ASSUME NEW r \in Requests, Start(r) PROVE PublicationInv'
    BY <1>1, ArrivalSteps DEF PublishedWasPaid, PaidOrders
  <1>2. ASSUME NEW r \in Requests, NEW o \in Orders, Deliver(r, o) PROVE PublicationInv'
    BY <1>2, ArrivalSteps DEF PublishedWasPaid, PaidOrders
  <1>3. ASSUME NEW r \in Requests,
               \/ Load(r) \/ CheckReady(r) \/ Price(r) \/ RetrieveSession(r)
               \/ ReadTransactions(r) \/ FetchSubscriber(r) \/ CheckTransaction(r)
               \/ GateStatus(r) \/ GateTier(r)
        PROVE  PublicationInv'
    <2>1. TypeOK'
      BY <1>3, ReadingStepTypes
    <2>2. HandlersInv' /\ OpeningsInv' /\ SessionsInv'
      BY <1>3, QuietSteps, ClaimKeeps
    <2>3. UNCHANGED <<status, orders>>
      BY <1>3 DEF Load, CheckReady, Price, RetrieveSession, ReadTransactions, FetchSubscriber,
                  CheckTransaction, GateStatus, GateTier, NoWrites, tournamentVars
    <2> QED
      BY <2>1, <2>2, <2>3 DEF PublishedWasPaid, PaidOrders
  <1>4. ASSUME NEW r \in Requests,
               \/ SetPublished(r) \/ FindOrder(r) \/ SendReceipt(r) \/ SetUnpublished(r)
               \/ SetArchived(r) \/ SetDraft(r) \/ InsertTeam(r) \/ DeleteTeam(r)
        PROVE  PublicationInv'
    <2>1. TypeOK' /\ HandlerInv(r)
      BY <1>4, WritingStepTypes DEF HandlersInv
    <2>2. HandlersInv' /\ OpeningsInv' /\ SessionsInv' /\ UNCHANGED orders
      BY <1>4, QuietSteps, ClaimKeeps
    <2>3. \/ status' \in {status, "UNPUBLISHED", "ARCHIVED", "DRAFT"}
          \/ PaidOrders # {}
      BY <1>4, <2>1 DEF SetPublished, FindOrder, SendReceipt, SetUnpublished, SetArchived,
                        SetDraft, InsertTeam, DeleteTeam, tournamentVars, HandlerInv
    <2> QED
      BY <2>1, <2>2, <2>3 DEF PublishedWasPaid, PaidOrders
  <1>5. ASSUME NEW r \in Requests, Fail(r) PROVE PublicationInv'
    <2>1. HandlersInv' /\ OpeningsInv' /\ SessionsInv'
      BY <1>5, QuietSteps, ClaimKeeps
    <2>2. UNCHANGED <<status, orders>>
      BY <1>5 DEF Fail, tournamentVars
    <2> QED
      BY <1>5, <2>1, <2>2, FailTypes DEF PublishedWasPaid, PaidOrders
  <1>6. ASSUME NEW r \in Requests, CreateFreeOrder(r) \/ CreateOrder(r) \/ StampSession(r)
        PROVE  PublicationInv'
    <2>1. TypeOK'
      BY <1>6, WritingStepTypes DEF HandlersInv
    <2>2. UNCHANGED status
      BY <1>6 DEF CreateFreeOrder, CreateOrder, StampSession, tournamentVars
    <2> QED
      BY <1>6, <2>1, <2>2, OpeningSteps DEF PublishedWasPaid
  <1>7. ASSUME NEW r \in Requests, CreateCheckout(r) \/ Respond(r) PROVE PublicationInv'
    <2>1. TypeOK'
      BY <1>7, WritingStepTypes DEF HandlersInv
    <2>2. UNCHANGED status
      BY <1>7 DEF CreateCheckout, Respond, tournamentVars
    <2> QED
      BY <1>7, <2>1, <2>2, SessionSteps DEF PublishedWasPaid, PaidOrders
  <1>8. ASSUME NEW r \in Requests, RecordPayment(r) \/ RecordPurchase(r) PROVE PublicationInv'
    <2>1. TypeOK'
      BY <1>8, WritingStepTypes, RecordPurchaseTypes DEF HandlersInv
    <2> QED
      BY <1>8, <2>1, RecordingSteps DEF PublishedWasPaid, PaidOrders
  <1>9. CASE Outside
    <2>1. TypeOK'
      BY <1>9, OutsideTypes
    <2>2. UNCHANGED status
      BY <1>9 DEF Outside, ChangeStructure, ChangeSubscription, ChangeSuspension,
                  RegisterTeam, Buy, Pay, tournamentVars
    <2>3. CASE \E o \in Orders : Pay(o)
      BY <2>1, <2>2, <2>3, SessionSteps DEF PublishedWasPaid, PaidOrders
    <2>4. CASE UNCHANGED <<orders, session, due, req>>
      <3>1. HandlersInv' /\ OpeningsInv' /\ SessionsInv'
        BY <2>4 DEF HandlersInv, HandlerInv, OpeningsInv, SessionsInv, Pending, Stamped,
                    PaidOrders
      <3> QED
        BY <2>1, <2>2, <2>4, <3>1 DEF PublishedWasPaid, PaidOrders
    <2> QED
      BY <1>9, <2>3, <2>4 DEF Outside, ChangeStructure, ChangeSubscription,
                              ChangeSuspension, RegisterTeam, Buy, stripeVars
  <1>10. CASE UNCHANGED vars
    BY <1>10 DEF vars, TypeOK, HandlersInv, HandlerInv, OpeningsInv, SessionsInv, Pending,
                 Stamped, PaidOrders, PublishedWasPaid
  <1>11. ASSUME NEW r \in Requests, Proceed(r) PROVE PublicationInv'
    BY <1>3, <1>4, <1>6, <1>7, <1>8, <1>11 DEF Proceed
  <1> QED
    BY <1>1, <1>2, <1>5, <1>9, <1>10, <1>11 DEF Next

LEMMA PublicationInvariant == Spec => []PublicationInv
  BY PublicationInitially, PublicationStep, PTL DEF Spec

\* Every column, session and handler keeps its type.
THEOREM TypeCorrect == Spec => []TypeOK
  BY PublicationInvariant, PTL DEF PublicationInv

\* A published tournament always has a paid order behind it, whatever interleaves
\* and whatever is lost (publish, applyPaidPublicationSession).
THEOREM PaidBehindPublished == Spec => []PublishedWasPaid
  BY PublicationInvariant, PTL DEF PublicationInv

(***************************************************************************)
(* The promise of PaymentLedger.                                           *)
(***************************************************************************)
\* A step that moves the stage of one checkout the way the ledger allows it.
LEMMA LedgerAdvances ==
    ASSUME NEW o \in Orders, \A p \in Orders \ {o} : Stage(p)' = Stage(p),
           \/ Stage(o) = "none" /\ Stage(o)' = "payable"
           \/ Stage(o) = "payable" /\ Stage(o)' = "paid"
           \/ Stage(o) = "paid" /\ Stage(o)' = "recorded"
    PROVE  Ledger!Next
  <1>1. \A p \in Orders : Stages[p] = Stage(p) /\ Stages'[p] = Stage(p)'
    BY DEF Stages
  <1>2. Stages' = [Stages EXCEPT ![o] = Stage(o)']
    BY DEF Stages
  <1>3. \/ Ledger!Advance(o, "none", "payable")
        \/ Ledger!Advance(o, "payable", "paid")
        \/ Ledger!Advance(o, "paid", "recorded")
    BY <1>1, <1>2 DEF Ledger!Advance
  <1> QED
    BY <1>3 DEF Ledger!Next, Ledger!Open, Ledger!Pay, Ledger!Record

LEMMA LedgerStutters ==
    ASSUME \A p \in Orders : Stage(p)' = Stage(p)
    PROVE  UNCHANGED Stages
  BY DEF Stages

LEMMA LedgerInitially == Init => Ledger!Init
  BY DEF Init, Ledger!Init, Stages, Stage, Stamped, NoOrder

\* A row that is created, by whichever call, has no checkout yet.
LEMMA NewRowHasNoStage ==
    ASSUME TypeOK, NEW o \in Orders, NEW new, Fresh(o), new.session = NoSession,
           orders' = [orders EXCEPT ![o] = new], UNCHANGED session
    PROVE  \A p \in Orders : Stage(p)' = Stage(p)
  <1>1. orders'[o] = new /\ \A p \in Orders \ {o} : orders'[p] = orders[p]
    BY DEF TypeOK
  <1>2. Stage(o) = "none" /\ Stage(o)' = "none"
    BY <1>1 DEF Stage, Stamped, Fresh, NoOrder
  <1>3. \A p \in Orders \ {o} : Stage(p)' = Stage(p)
    BY <1>1 DEF Stage, Stamped, Pending
  <1> QED
    BY <1>2, <1>3

LEMMA LedgerKeptByOpening ==
    ASSUME PublicationInv, NEW r \in Requests,
           \/ CreateFreeOrder(r) \/ CreateOrder(r) \/ CreateCheckout(r)
           \/ StampSession(r) \/ Respond(r)
    PROVE  Ledger!Next \/ \A p \in Orders : Stage(p)' = Stage(p)
  <1> USE DEF PublicationInv, TypeOK
  <1>0. HandlerInv(r)
    BY DEF HandlersInv
  <1>1. CASE CreateFreeOrder(r)
    <2> DEFINE new == [NoOrder EXCEPT !.status = "PAID"]
    <2>1. PICK o \in Orders : Fresh(o) /\ orders' = [orders EXCEPT ![o] = new]
      BY <1>1 DEF CreateFreeOrder
    <2>2. new.session = NoSession
      BY DEF NoOrder
    <2>3. UNCHANGED session
      BY <1>1 DEF CreateFreeOrder, stripeVars
    <2> HIDE DEF new
    <2> QED
      BY <2>1, <2>2, <2>3, NewRowHasNoStage
  <1>2. CASE CreateOrder(r)
    <2> DEFINE new == [NoOrder EXCEPT !.status = "PENDING_PAYMENT", !.tier = req[r].amount]
    <2>1. PICK o \in Orders : Fresh(o) /\ orders' = [orders EXCEPT ![o] = new]
      BY <1>2 DEF CreateOrder
    <2>2. new.session = NoSession
      BY DEF NoOrder
    <2>3. UNCHANGED session
      BY <1>2 DEF CreateOrder, stripeVars
    <2> HIDE DEF new
    <2> QED
      BY <2>1, <2>2, <2>3, NewRowHasNoStage
  <1>3. CASE CreateCheckout(r)
    <2> DEFINE o == req[r].order
    <2>1. o \in Orders /\ ~Stamped(o)
      BY <1>0, <1>3 DEF CreateCheckout, HandlerInv, Opening
    <2>2. \A p \in Orders \ {o} : session'[p] = session[p]
      BY <1>3, <2>1 DEF CreateCheckout
    <2>3. UNCHANGED orders
      BY <1>3 DEF CreateCheckout
    <2> HIDE DEF o
    <2> QED
      BY <2>1, <2>2, <2>3 DEF Stage, Stamped, Pending
  <1>4. CASE StampSession(r)
    <2>1. PICK o \in Orders :
            o = req[r].order /\ Pending(o) /\ ~Stamped(o) /\ session[o] = "created"
      BY <1>0, <1>4 DEF StampSession, HandlerInv, Opening
    <2> DEFINE new == [orders[o] EXCEPT !.session = o]
    <2>2. o # NoSession
      BY <2>1, Bounds DEF Orders, NoSession
    <2>3. new.status = "PENDING_PAYMENT" /\ new.session = o
      BY <2>1 DEF Pending, Order
    <2>4. orders' = [orders EXCEPT ![o] = new] /\ UNCHANGED session
      BY <1>4, <2>1 DEF StampSession, stripeVars
    <2> HIDE DEF new
    <2>5. orders'[o] = new /\ \A p \in Orders \ {o} : orders'[p] = orders[p]
      BY <2>1, <2>4
    <2>6. Stage(o) = "none" /\ Stage(o)' = "payable"
      BY <2>1, <2>2, <2>3, <2>4, <2>5 DEF Stage, Stamped, Pending
    <2>7. \A p \in Orders \ {o} : Stage(p)' = Stage(p)
      BY <2>4, <2>5 DEF Stage, Stamped, Pending
    <2> QED
      BY <2>1, <2>6, <2>7, LedgerAdvances
  <1>5. CASE Respond(r)
    <2> DEFINE o == req[r].order
    <2>1. o \in Orders /\ Pending(o) /\ Stamped(o) /\ session[o] = "created"
      BY <1>0, <1>5 DEF Respond, HandlerInv, Opening
    <2>2. /\ session'[o] = "offered"
          /\ \A p \in Orders \ {o} : session'[p] = session[p]
          /\ UNCHANGED orders
      BY <1>5, <2>1 DEF Respond
    <2> HIDE DEF o
    <2> QED
      BY <2>1, <2>2 DEF Stage, Stamped, Pending
  <1> QED
    BY <1>1, <1>2, <1>3, <1>4, <1>5

LEMMA LedgerKeptByPayment ==
    ASSUME PublicationInv,
           \/ \E o \in Orders : Pay(o)
           \/ \E r \in Requests : RecordPayment(r) \/ RecordPurchase(r)
    PROVE  Ledger!Next \/ \A p \in Orders : Stage(p)' = Stage(p)
  <1> USE DEF PublicationInv, TypeOK
  <1>1. ASSUME NEW o \in Orders, Pay(o)
        PROVE  Ledger!Next \/ \A p \in Orders : Stage(p)' = Stage(p)
    <2>1. /\ session[o] = "offered" /\ session'[o] = "paid"
          /\ \A p \in Orders \ {o} : session'[p] = session[p]
          /\ UNCHANGED orders
      BY <1>1 DEF Pay
    <2>2. Stamped(o)
      BY <2>1 DEF SessionsInv
    <2>3. \A p \in Orders \ {o} : Stage(p)' = Stage(p)
      BY <2>1 DEF Stage, Stamped, Pending
    <2>4. CASE Pending(o)
      <3>1. Stage(o) = "payable" /\ Stage(o)' = "paid"
        BY <2>1, <2>2, <2>4 DEF Stage, Stamped, Pending
      <3> QED
        BY <2>3, <3>1, LedgerAdvances
    <2>5. CASE ~Pending(o)
      BY <2>1, <2>2, <2>3, <2>5 DEF Stage, Stamped, Pending
    <2> QED
      BY <2>4, <2>5
  <1>2. ASSUME NEW r \in Requests, RecordPayment(r)
        PROVE  Ledger!Next \/ \A p \in Orders : Stage(p)' = Stage(p)
    <2>1. PICK o \in Orders : o = req[r].order /\ Stamped(o) /\ session[o] = "paid"
      BY <1>2 DEF RecordPayment, HandlersInv, HandlerInv
    <2> DEFINE new == [orders[o] EXCEPT !.status = "PAID"]
    <2>2. new.status = "PAID" /\ new.session = orders[o].session
      BY <2>1 DEF Order
    <2>3. orders' = [orders EXCEPT ![o] = new] /\ UNCHANGED session
      BY <1>2, <2>1 DEF RecordPayment, stripeVars
    <2> HIDE DEF new
    <2>4. orders'[o] = new /\ \A p \in Orders \ {o} : orders'[p] = orders[p]
      BY <2>1, <2>3
    <2>5. Stage(o)' = "recorded"
      BY <2>1, <2>2, <2>4 DEF Stage, Stamped, Pending
    <2>6. \A p \in Orders \ {o} : Stage(p)' = Stage(p)
      BY <2>3, <2>4 DEF Stage, Stamped, Pending
    <2>7. Stage(o) \in {"paid", "recorded"}
      BY <2>1 DEF Stage, SessionsInv, Pending, Order
    <2> QED
      BY <2>1, <2>5, <2>6, <2>7, LedgerAdvances
  <1>3. ASSUME NEW r \in Requests, RecordPurchase(r)
        PROVE  \A p \in Orders : Stage(p)' = Stage(p)
    <2>1. UNCHANGED session
      BY <1>3 DEF RecordPurchase, stripeVars
    <2>2. CASE UNCHANGED orders
      BY <2>1, <2>2 DEF Stage, Stamped, Pending
    <2>3. CASE \E o \in Orders : Fresh(o) /\ orders' = [orders EXCEPT ![o] = PaidPurchase(r)]
      <3>1. PaidPurchase(r).session = NoSession
        BY DEF PaidPurchase, NoOrder
      <3> QED
        BY <2>1, <2>3, <3>1, NewRowHasNoStage
    <2> QED
      BY <1>3, <2>2, <2>3 DEF RecordPurchase
  <1> QED
    BY <1>1, <1>2, <1>3

\* Every other step leaves the rows and Stripe's sessions alone.
LEMMA LedgerStep ==
    ASSUME PublicationInv, [Next]_vars
    PROVE  Ledger!Next \/ UNCHANGED Stages
  <1>1. CASE UNCHANGED <<orders, session>>
    BY <1>1, LedgerStutters DEF Stage, Stamped, Pending
  <1>2. CASE \E r \in Requests :
               \/ CreateFreeOrder(r) \/ CreateOrder(r) \/ CreateCheckout(r)
               \/ StampSession(r) \/ Respond(r)
    BY <1>2, LedgerKeptByOpening, LedgerStutters
  <1>3. CASE \/ \E o \in Orders : Pay(o)
             \/ \E r \in Requests : RecordPayment(r) \/ RecordPurchase(r)
    BY <1>3, LedgerKeptByPayment, LedgerStutters
  <1>4. ASSUME NEW r \in Requests, Start(r) \/ \E o \in Orders : Deliver(r, o)
        PROVE  UNCHANGED <<orders, session>>
    BY <1>4, ArrivalSteps
  <1>5. ASSUME NEW r \in Requests,
               \/ Load(r) \/ CheckReady(r) \/ Price(r) \/ RetrieveSession(r)
               \/ ReadTransactions(r) \/ FetchSubscriber(r) \/ CheckTransaction(r)
               \/ GateStatus(r) \/ GateTier(r)
        PROVE  UNCHANGED <<orders, session>>
    BY <1>5 DEF Load, CheckReady, Price, RetrieveSession, ReadTransactions, FetchSubscriber,
                CheckTransaction, GateStatus, GateTier, NoWrites, stripeVars
  <1>6. ASSUME NEW r \in Requests,
               \/ SetPublished(r) \/ FindOrder(r) \/ SendReceipt(r) \/ SetUnpublished(r)
               \/ SetArchived(r) \/ SetDraft(r) \/ InsertTeam(r) \/ DeleteTeam(r)
               \/ Fail(r)
        PROVE  UNCHANGED <<orders, session>>
    BY <1>6 DEF SetPublished, FindOrder, SendReceipt, SetUnpublished, SetArchived, SetDraft,
                InsertTeam, DeleteTeam, Fail, OnlyStatus, stripeVars
  <1>7. ASSUME Outside, ~(\E o \in Orders : Pay(o)) PROVE UNCHANGED <<orders, session>>
    BY <1>7 DEF Outside, ChangeStructure, ChangeSubscription, ChangeSuspension, RegisterTeam,
                Buy, stripeVars
  <1>8. CASE UNCHANGED vars
    BY <1>1, <1>8 DEF vars
  <1>9. ASSUME NEW r \in Requests, Proceed(r)
        PROVE  Ledger!Next \/ UNCHANGED Stages
    BY <1>1, <1>2, <1>3, <1>5, <1>6, <1>9 DEF Proceed
  <1> QED
    BY <1>1, <1>3, <1>4, <1>6, <1>7, <1>8, <1>9 DEF Next

\* Publication implements PaymentLedger: every checkout is opened, paid and recorded in
\* that order and one way (createPendingPublicationCheckout, applyPaidPublicationSession).
THEOREM PublicationKeepsLedger == Spec => KeepsLedger
  <1>1. Init => Ledger!Init
    BY LedgerInitially
  <1>2. PublicationInv /\ [Next]_vars => [Ledger!Next]_Stages
    BY LedgerStep
  <1> QED
    BY <1>1, <1>2, PublicationInvariant, PTL DEF Spec, KeepsLedger, Ledger!Spec

(***************************************************************************)
(* App Store transactions.                                                 *)
(***************************************************************************)
\* Writing one row keeps TransactionSpentOnce when the row's transaction is new.
LEMMA RowKeepsTransactions ==
    ASSUME TypeOK, TransactionSpentOnce, NEW o \in Orders, NEW new,
           orders' = [orders EXCEPT ![o] = new],
           \/ new.txn \in {NoTxn, orders[o].txn}
           \/ \A p \in Orders : orders[p].txn # new.txn
    PROVE  TransactionSpentOnce'
  <1>1. orders'[o] = new /\ \A p \in Orders \ {o} : orders'[p] = orders[p]
    BY DEF TypeOK
  <1> SUFFICES ASSUME NEW p \in Orders, NEW q \in Orders, p # q, orders'[p].txn # NoTxn
               PROVE  orders'[p].txn # orders'[q].txn
    BY DEF TransactionSpentOnce
  <1> QED
    BY <1>1 DEF TransactionSpentOnce

LEMMA TransactionsStep ==
    ASSUME PublicationInv, TransactionSpentOnce, [Next]_vars
    PROVE  TransactionSpentOnce'
  <1> USE DEF PublicationInv, TypeOK
  <1>1. CASE UNCHANGED orders
    BY <1>1 DEF TransactionSpentOnce
  <1>2. ASSUME NEW r \in Requests, CreateFreeOrder(r) PROVE TransactionSpentOnce'
    <2> DEFINE new == [NoOrder EXCEPT !.status = "PAID"]
    <2>1. PICK o \in Orders : orders' = [orders EXCEPT ![o] = new]
      BY <1>2 DEF CreateFreeOrder
    <2>2. new.txn = NoTxn
      BY DEF NoOrder
    <2> HIDE DEF new
    <2> QED
      BY <2>1, <2>2, RowKeepsTransactions
  <1>3. ASSUME NEW r \in Requests, CreateOrder(r) PROVE TransactionSpentOnce'
    <2> DEFINE new == [NoOrder EXCEPT !.status = "PENDING_PAYMENT", !.tier = req[r].amount]
    <2>1. PICK o \in Orders : orders' = [orders EXCEPT ![o] = new]
      BY <1>3 DEF CreateOrder
    <2>2. new.txn = NoTxn
      BY DEF NoOrder
    <2> HIDE DEF new
    <2> QED
      BY <2>1, <2>2, RowKeepsTransactions
  <1>4. ASSUME NEW r \in Requests, StampSession(r) \/ RecordPayment(r)
        PROVE  TransactionSpentOnce'
    <2>1. PICK o \in Orders : o = req[r].order
      BY <1>4 DEF StampSession, RecordPayment, HandlersInv, HandlerInv, Opening
    <2>2. PICK new \in {[orders[o] EXCEPT !.session = o],
                        [orders[o] EXCEPT !.status = "PAID"]} :
            orders' = [orders EXCEPT ![o] = new]
      BY <1>4, <2>1 DEF StampSession, RecordPayment
    <2>3. new.txn = orders[o].txn
      BY <2>1, <2>2 DEF Order
    <2> QED
      BY <2>1, <2>2, <2>3, RowKeepsTransactions
  <1>5. ASSUME NEW r \in Requests, RecordPurchase(r), ~UNCHANGED orders
        PROVE  TransactionSpentOnce'
    <2> DEFINE new == PaidPurchase(r)
    <2>1. PICK o \in Orders : orders' = [orders EXCEPT ![o] = new]
      BY <1>5 DEF RecordPurchase
    <2>2. \A p \in Orders : orders[p].txn # req[r].txn
      BY <1>5 DEF RecordPurchase, Recorded
    <2>3. new.txn = req[r].txn
      BY DEF PaidPurchase, NoOrder
    <2> HIDE DEF new
    <2> QED
      BY <2>1, <2>2, <2>3, RowKeepsTransactions
  <1>6. ASSUME NEW r \in Requests, Start(r) \/ \E o \in Orders : Deliver(r, o)
        PROVE  UNCHANGED orders
    BY <1>6, ArrivalSteps
  <1>7. ASSUME NEW r \in Requests,
               \/ Load(r) \/ CheckReady(r) \/ Price(r) \/ RetrieveSession(r)
               \/ ReadTransactions(r) \/ FetchSubscriber(r) \/ CheckTransaction(r)
               \/ GateStatus(r) \/ GateTier(r)
        PROVE  UNCHANGED orders
    BY <1>7 DEF Load, CheckReady, Price, RetrieveSession, ReadTransactions, FetchSubscriber,
                CheckTransaction, GateStatus, GateTier, NoWrites
  <1>8. ASSUME NEW r \in Requests,
               \/ SetPublished(r) \/ CreateCheckout(r) \/ Respond(r) \/ FindOrder(r)
               \/ SendReceipt(r) \/ SetUnpublished(r) \/ SetArchived(r) \/ SetDraft(r)
               \/ InsertTeam(r) \/ DeleteTeam(r) \/ Fail(r)
        PROVE  UNCHANGED orders
    BY <1>8 DEF SetPublished, CreateCheckout, Respond, FindOrder, SendReceipt, SetUnpublished,
                SetArchived, SetDraft, InsertTeam, DeleteTeam, Fail, OnlyStatus
  <1>9. ASSUME Outside PROVE UNCHANGED orders
    BY <1>9 DEF Outside, ChangeStructure, ChangeSubscription, ChangeSuspension, RegisterTeam,
                Buy, Pay
  <1>10. CASE UNCHANGED vars
    BY <1>1, <1>10 DEF vars
  <1>11. ASSUME NEW r \in Requests, Proceed(r) PROVE TransactionSpentOnce'
    BY <1>1, <1>2, <1>3, <1>4, <1>5, <1>7, <1>8, <1>11 DEF Proceed
  <1> QED
    BY <1>1, <1>6, <1>8, <1>9, <1>10, <1>11 DEF Next

\* However many confirmations of iOS purchases interleave (confirmPublicationPaymentViaIap),
\* no App Store transaction pays for two orders.
THEOREM TransactionsSpentOnce == Spec => []TransactionSpentOnce
  <1>1. Init => TransactionSpentOnce
    BY DEF Init, NoOrder, TransactionSpentOnce
  <1> QED
    BY <1>1, TransactionsStep, PublicationInvariant, PTL DEF Spec

LEMMA Smallest ==
    ASSUME NEW T, T \subseteq Nat, T # {}
    PROVE  \E n \in T : \A m \in T : n <= m
  <1> DEFINE Less == {p \in Nat \X Nat : p[1] < p[2]}
  <1>1. IsWellFoundedOn(Less, Nat)
    BY NatLessThanWellFounded DEF OpToRel
  <1> HIDE DEF Less
  <1>2. PICK n \in T : \A m \in T : ~(<<m, n>> \in Less)
    BY <1>1, WFMin
  <1>3. \A m \in T : ~(m < n)
    BY <1>2 DEF Less
  <1> QED
    BY <1>3

LEMMA OrdersAreFinite ==
    ASSUME NEW S \in SUBSET Orders
    PROVE  IsFiniteSet(S) /\ Cardinality(S) \in Nat
  <1>1. IsFiniteSet(Orders)
    BY Bounds, FS_Interval DEF Orders
  <1>2. IsFiniteSet(S)
    BY <1>1, FS_Subset
  <1> QED
    BY <1>2, FS_CardinalityType

LEMMA OneFewer ==
    ASSUME NEW S \in SUBSET Orders, NEW x \in S
    PROVE  Cardinality(S \ {x}) = Cardinality(S) - 1
  BY OrdersAreFinite, FS_RemoveElement

Drawn(s) == CHOOSE x \in s : TRUE
Sums(h, D) == h = [s \in D |-> IF s = {} THEN 0 ELSE orders[Drawn(s)].tier + h[s \ {Drawn(s)}]]
UpTo(n) == {s \in SUBSET PaidOrders : Cardinality(s) <= n}

LEMMA DrawnIsIn == ASSUME NEW s, s # {} PROVE Drawn(s) \in s
  BY DEF Drawn

LEMMA SumsExtend ==
    ASSUME NEW n \in Nat, n > 0, NEW h, Sums(h, UpTo(n - 1))
    PROVE  \E g : Sums(g, UpTo(n))
  <1> DEFINE g == [s \in UpTo(n) |-> IF s = {} THEN 0
                                     ELSE orders[Drawn(s)].tier + h[s \ {Drawn(s)}]]
  <1>1. \A s \in UpTo(n) : s # {} => s \ {Drawn(s)} \in UpTo(n - 1)
    <2> TAKE s \in UpTo(n)
    <2> HAVE s # {}
    <2>1. s \in SUBSET Orders /\ Drawn(s) \in s /\ Cardinality(s) \in Nat
      BY DrawnIsIn, OrdersAreFinite DEF UpTo, PaidOrders
    <2>2. Cardinality(s \ {Drawn(s)}) = Cardinality(s) - 1
      BY <2>1, OneFewer
    <2> QED
      BY <2>1, <2>2 DEF UpTo
  <1>2. UpTo(n - 1) \subseteq UpTo(n)
    BY OrdersAreFinite DEF UpTo, PaidOrders
  <1>3. \A s \in UpTo(n - 1) : h[s] = g[s]
    BY <1>2 DEF Sums
  <1>4. \A s \in UpTo(n) : g[s] = IF s = {} THEN 0
                                  ELSE orders[Drawn(s)].tier + g[s \ {Drawn(s)}]
    BY <1>1, <1>3
  <1>5. g = [s \in UpTo(n) |-> g[s]]
    OBVIOUS
  <1> HIDE DEF g
  <1>6. Sums(g, UpTo(n))
    BY <1>4, <1>5 DEF Sums
  <1> QED
    BY <1>6

LEMMA SumsExist == \E h : Sums(h, SUBSET PaidOrders)
  <1>1. \A n \in Nat : \E h : Sums(h, UpTo(n))
    <2> DEFINE Bad == {n \in Nat : ~ \E h : Sums(h, UpTo(n))}
    <2> SUFFICES ASSUME Bad # {} PROVE FALSE
      OBVIOUS
    <2>1. PICK n \in Bad : \A m \in Bad : n <= m
      BY Smallest
    <2>2. CASE n = 0
      <3> DEFINE z == [s \in UpTo(0) |-> 0]
      <3>1. \A s \in UpTo(0) : s = {}
        BY OrdersAreFinite, FS_EmptySet DEF UpTo, PaidOrders
      <3>2. Sums(z, UpTo(0))
        BY <3>1 DEF Sums
      <3> QED
        BY <2>1, <2>2, <3>2
    <2>3. CASE n # 0
      <3>1. n - 1 \in Nat /\ n - 1 \notin Bad
        BY <2>1, <2>3
      <3> QED
        BY <2>1, <2>3, <3>1, SumsExtend
    <2> QED
      BY <2>2, <2>3
  <1>2. UpTo(Cardinality(PaidOrders)) = SUBSET PaidOrders
    <2> SUFFICES ASSUME NEW s \in SUBSET PaidOrders
                 PROVE  Cardinality(s) <= Cardinality(PaidOrders)
      BY DEF UpTo
    <2>1. IsFiniteSet(PaidOrders)
      BY OrdersAreFinite DEF PaidOrders
    <2>2. Cardinality(s) <= Cardinality(PaidOrders)
      BY <2>1, FS_Subset
    <2> QED
      BY <2>2
  <1>3. Cardinality(PaidOrders) \in Nat
    BY OrdersAreFinite DEF PaidOrders
  <1>4. \E h : Sums(h, UpTo(Cardinality(PaidOrders)))
    BY <1>1, <1>3
  <1> QED
    BY <1>2, <1>4

LEMMA PaidCentsIsNat ==
    ASSUME orders \in [Orders -> Order]
    PROVE  PaidCents \in Nat
  <1> DEFINE h == CHOOSE h : Sums(h, SUBSET PaidOrders)
  <1>1. PaidCents = h[PaidOrders]
    BY DEF PaidCents, MapThenSumSet, MapThenFoldSet, Sums, Drawn
  <1>2. Sums(h, SUBSET PaidOrders)
    BY SumsExist
  <1> HIDE DEF h
  <1> DEFINE Sizes == {Cardinality(s) : s \in {t \in SUBSET PaidOrders : h[t] \notin Nat}}
  <1>3. Sizes = {}
    <2> SUFFICES ASSUME Sizes # {} PROVE FALSE
      OBVIOUS
    <2>1. Sizes \subseteq Nat
      BY OrdersAreFinite DEF PaidOrders
    <2>2. PICK n \in Sizes : \A m \in Sizes : n <= m
      BY <2>1, Smallest
    <2>3. PICK s \in SUBSET PaidOrders : h[s] \notin Nat /\ Cardinality(s) = n
      OBVIOUS
    <2>4. s # {} /\ h[s] = orders[Drawn(s)].tier + h[s \ {Drawn(s)}]
      <3>1. h[s] = IF s = {} THEN 0 ELSE orders[Drawn(s)].tier + h[s \ {Drawn(s)}]
        BY <1>2 DEF Sums
      <3>2. s # {}
        BY <3>1, <2>3
      <3> QED
        BY <3>1, <3>2
    <2>5. Drawn(s) \in s /\ s \in SUBSET Orders /\ Cardinality(s \ {Drawn(s)}) = n - 1
      BY <2>3, <2>4, DrawnIsIn, OneFewer DEF PaidOrders
    <2>6. h[s \ {Drawn(s)}] \in Nat
      BY <2>1, <2>2, <2>5
    <2>7. orders[Drawn(s)].tier \in Nat
      BY <2>5 DEF Order
    <2> QED
      BY <2>3, <2>4, <2>6, <2>7
  <1> QED
    BY <1>1, <1>3

(***************************************************************************)
(* The team gate, for calls that arrive one after the other.               *)
(***************************************************************************)
LEMMA PaidCentsKept == ASSUME UNCHANGED orders PROVE PaidCents' = PaidCents
  BY DEF PaidCents, PaidOrders, MapThenSumSet, MapThenFoldSet

LEMMA FeeGrows ==
    ASSUME MidPrice <= HighPrice, NEW m \in Nat, NEW n \in Nat, m <= n
    PROVE  Fee(m) <= Fee(n)
  BY Tiers DEF Fee

\* What a call that adds teams relies on: it still has a team to add, and past the gate
\* every team it has left to add is within what was paid.
GateInv(r) ==
    /\ req[r].step \in {"gateStatus", "gateTier", "insert"} => req[r].count > 0
    /\ req[r].step = "insert" =>
          (status = "PUBLISHED" => subscribed \/ Fee(teams + req[r].count) <= PaidCents)

GateStep ==
    (status = "PUBLISHED" /\ teams' > teams) => (subscribed \/ Fee(teams') <= PaidCents)

LEMMA AcceptedStep ==
    ASSUME NEW r \in Requests, NEW op, NEW s, NEW state \in Request, TypeOK,
           Accept(r, op, s, state)
    PROVE  req'[r].step = s /\ req'[r].count = state.count /\ UNCHANGED teams
  <1> DEFINE new == [state EXCEPT !.op = op, !.step = s]
  <1>1. new.step = s /\ new.count = state.count
    BY DEF Request
  <1>2. req'[r] = new
    BY DEF Accept, TypeOK
  <1> QED
    BY <1>1, <1>2 DEF Accept, tournamentVars

\* Steps that are not part of adding teams, and do not lead there.
LEMMA OtherStepsKeepGate ==
    ASSUME TypeOK, NEW r \in Requests,
           \/ Load(r) \/ CheckReady(r) \/ Price(r)
           \/ CreateFreeOrder(r) \/ SetPublished(r)
           \/ CreateOrder(r) \/ CreateCheckout(r) \/ StampSession(r) \/ Respond(r)
           \/ RetrieveSession(r) \/ FindOrder(r) \/ RecordPayment(r) \/ SendReceipt(r)
           \/ ReadTransactions(r) \/ FetchSubscriber(r) \/ CheckTransaction(r)
           \/ RecordPurchase(r)
           \/ SetUnpublished(r) \/ SetArchived(r) \/ SetDraft(r) \/ DeleteTeam(r) \/ Fail(r)
           \/ \E o \in Orders : Deliver(r, o)
    PROVE  req'[r].step \notin {"gateStatus", "gateTier", "insert"} /\ ~(teams' > teams)
  <1> USE DEF TypeOK, Request, Goto, Finish, Idle, NoWrites, OnlyStatus, tournamentVars
  <1>0. req \in [Requests -> Request] /\ teams \in Nat
    OBVIOUS
  <1>1. CASE Load(r) \/ CheckReady(r)
    BY <1>0, <1>1 DEF Load, CheckReady
  <1>2. CASE Price(r)
    BY <1>0, <1>2 DEF Price
  <1>3. CASE CreateFreeOrder(r) \/ SetPublished(r)
    BY <1>0, <1>3 DEF CreateFreeOrder, SetPublished
  <1>4. CASE CreateOrder(r)
    <2>1. PICK o \in Orders : req' = [req EXCEPT ![r].step = "checkout", ![r].order = o]
      BY <1>4 DEF CreateOrder
    <2>2. UNCHANGED teams
      BY <1>4 DEF CreateOrder
    <2>3. req'[r].step = "checkout"
      BY <1>0, <2>1
    <2> QED
      BY <1>0, <2>2, <2>3
  <1>5. CASE CreateCheckout(r) \/ StampSession(r) \/ Respond(r)
    BY <1>0, <1>5 DEF CreateCheckout, StampSession, Respond
  <1>6. CASE RetrieveSession(r) \/ FindOrder(r) \/ RecordPayment(r) \/ SendReceipt(r)
    BY <1>0, <1>6 DEF RetrieveSession, FindOrder, RecordPayment, SendReceipt, Answer
  <1>7. CASE ReadTransactions(r) \/ CheckTransaction(r) \/ RecordPurchase(r)
    BY <1>0, <1>7 DEF ReadTransactions, CheckTransaction, RecordPurchase
  <1>8. CASE FetchSubscriber(r)
    BY <1>0, <1>8 DEF FetchSubscriber
  <1>9. CASE SetUnpublished(r) \/ SetArchived(r) \/ SetDraft(r) \/ DeleteTeam(r) \/ Fail(r)
    BY <1>0, <1>9 DEF SetUnpublished, SetArchived, SetDraft, DeleteTeam, Fail
  <1>10. CASE \E o \in Orders : Deliver(r, o)
    <2>1. PICK o \in Orders : Deliver(r, o)
      BY <1>10
    <2>2. req'[r].step = "findOrder" /\ UNCHANGED teams
      BY <1>0, <2>1 DEF Deliver
    <2> QED
      BY <1>0, <2>2
  <1> QED
    BY <1>1, <1>2, <1>3, <1>4, <1>5, <1>6, <1>7, <1>8, <1>9, <1>10

\* A call that arrives has passed no gate yet.
LEMMA StartKeepsGate ==
    ASSUME TypeOK, NEW r \in Requests, Start(r)
    PROVE  GateInv(r)' /\ UNCHANGED teams
  <1>1. CASE StartAddTeams(r)
    <2>1. PICK k \in Batches : Accept(r, "addTeams", "gateStatus", [Idle EXCEPT !.count = k])
      BY <1>1 DEF StartAddTeams
    <2> DEFINE state == [Idle EXCEPT !.count = k]
    <2>2. state \in Request /\ state.count = k /\ k > 0
      <3>1. k \in Nat /\ k > 0
        BY Bounds
      <3> QED
        BY <3>1, StartStates DEF Idle
    <2>3. Accept(r, "addTeams", "gateStatus", state)
      BY <2>1
    <2> HIDE DEF state
    <2> QED
      BY <2>2, <2>3, AcceptedStep DEF GateInv
  <1>2. CASE ~StartAddTeams(r)
    <2>1. /\ req'[r].step \in {"load", "setUnpublished", "setArchived", "setDraft", "delete",
                               "retrieve", "findOrder"}
          /\ UNCHANGED teams
      <3>1. ASSUME StartPayForTier(r) PROVE req'[r].step = "load" /\ UNCHANGED teams
        <4>1. PICK p \in {MidPrice, HighPrice} :
                Accept(r, "payForTier", "load", [Idle EXCEPT !.amount = p])
          BY <3>1 DEF StartPayForTier
        <4>2. [Idle EXCEPT !.amount = p] \in Request
          BY Tiers, StartStates
        <4> QED
          BY <4>1, <4>2, AcceptedStep
      <3>2. ASSUME StartPayForTeams(r) PROVE req'[r].step = "load" /\ UNCHANGED teams
        <4>1. PICK k \in Batches :
                Accept(r, "payForTeams", "load", [Idle EXCEPT !.count = k])
          BY <3>2 DEF StartPayForTeams
        <4>2. [Idle EXCEPT !.count = k] \in Request
          BY Bounds, StartStates
        <4> QED
          BY <4>1, <4>2, AcceptedStep
      <3>3. ASSUME StartConfirmIap(r) PROVE req'[r].step = "load" /\ UNCHANGED teams
        <4>1. PICK p \in Products :
                Accept(r, "confirmIap", "load",
                       [Idle EXCEPT !.product = p, !.amount = IapPrice(p)])
          BY <3>3 DEF StartConfirmIap
        <4>2. [Idle EXCEPT !.product = p, !.amount = IapPrice(p)] \in Request
          BY IapPriceIsNat, StartStates
        <4> QED
          BY <4>1, <4>2, AcceptedStep
      <3>4. ASSUME StartConfirm(r) \/ Redeliver(r)
            PROVE  req'[r].step \in {"retrieve", "findOrder"} /\ UNCHANGED teams
        <4>1. PICK o \in Orders :
                \/ Accept(r, "confirm", "retrieve", [Idle EXCEPT !.order = o])
                \/ Accept(r, "webhook", "findOrder", [Idle EXCEPT !.order = o])
          BY <3>4 DEF StartConfirm, Redeliver
        <4>2. [Idle EXCEPT !.order = o] \in Request
          BY StartStates
        <4> QED
          BY <4>1, <4>2, AcceptedStep
      <3>5. ASSUME \/ StartPublish(r) \/ StartUnpublish(r) \/ StartArchive(r)
                   \/ StartUnarchive(r) \/ StartRemoveTeam(r)
            PROVE  /\ req'[r].step \in {"load", "setUnpublished", "setArchived", "setDraft",
                                         "delete"}
                   /\ UNCHANGED teams
        BY <3>5, IdleIsRequest, AcceptedStep
           DEF StartPublish, StartUnpublish, StartArchive, StartUnarchive, StartRemoveTeam
      <3> QED
        BY <1>2, <3>1, <3>2, <3>3, <3>4, <3>5 DEF Start
    <2> QED
      BY <2>1 DEF GateInv
  <1> QED
    BY <1>1, <1>2

LEMMA GateKept ==
    ASSUME NEW r, Requests = {r}, {"registration", "subscription"} \cap Operations = {},
           MidPrice <= HighPrice, TypeOK, GateInv(r), [Next]_vars
    PROVE  GateInv(r)' /\ GateStep
  <1> USE DEF TypeOK, Request
  <1>0. req \in [Requests -> Request] /\ teams \in Nat /\ r \in Requests /\ PaidCents \in Nat
    BY PaidCentsIsNat
  <1>1. CASE Start(r)
    BY <1>0, <1>1, StartKeepsGate DEF GateStep
  <1>2. CASE GateStatus(r)
    BY <1>0, <1>2, PaidCentsKept DEF GateStatus, Goto, NoWrites, tournamentVars, orgVars,
                                     GateInv, GateStep
  <1>3. CASE GateTier(r)
    BY <1>0, <1>3, PaidCentsKept DEF GateTier, Allowed, Goto, Finish, Idle, NoWrites,
                                     tournamentVars, orgVars, GateInv, GateStep
  <1>4. CASE InsertTeam(r)
    <2> DEFINE k == req[r].count
    <2>1. k \in Nat /\ k > 0 /\ req[r].step = "insert"
      BY <1>0, <1>4 DEF InsertTeam, GateInv
    <2>2. status = "PUBLISHED" => subscribed \/ Fee(teams + k) <= PaidCents
      BY <2>1 DEF GateInv
    <2>3. /\ UNCHANGED <<status, subscribed, orders>>
          /\ teams' \in {teams, teams + 1}
      BY <1>4 DEF InsertTeam, orgVars
    <2>4. PaidCents' = PaidCents
      BY <2>3, PaidCentsKept
    <2>5. \A n \in Nat : n <= teams + k => Fee(n) <= Fee(teams + k)
      BY <1>0, <2>1, FeeGrows
    <2>6. Fee(teams + k) \in Nat /\ \A n \in Nat : Fee(n) \in Nat
      BY <1>0, <2>1, FeeIsNat
    <2>7. GateStep
      BY <1>0, <2>1, <2>2, <2>3, <2>5, <2>6 DEF GateStep
    <2>8. CASE k > 1
      <3>1. req'[r].step = "insert" /\ req'[r].count = k - 1
        BY <1>0, <1>4, <2>1, <2>8 DEF InsertTeam
      <3>2. teams' + (k - 1) \in Nat /\ teams' + (k - 1) <= teams + k
        BY <1>0, <2>1, <2>3, <2>8
      <3> QED
        BY <1>0, <2>2, <2>3, <2>4, <2>5, <2>6, <2>7, <2>8, <3>1, <3>2 DEF GateInv
    <2>9. CASE ~(k > 1)
      BY <1>0, <1>4, <2>7, <2>9 DEF InsertTeam, Finish, Idle, GateInv
    <2> QED
      BY <2>8, <2>9
  <1>5. CASE Outside
    <2>1. UNCHANGED <<status, teams, subscribed, orders, req>>
      BY <1>5 DEF Outside, ChangeStructure, ChangeSubscription, ChangeSuspension, RegisterTeam,
                  Buy, Pay, Spend, tournamentVars, orgVars
    <2> QED
      BY <1>0, <2>1, PaidCentsKept DEF GateInv, GateStep
  <1>6. CASE UNCHANGED vars
    BY <1>0, <1>6, PaidCentsKept DEF vars, GateInv, GateStep
  <1>7. CASE ~(Start(r) \/ GateStatus(r) \/ GateTier(r) \/ InsertTeam(r) \/ Outside
               \/ UNCHANGED vars)
    <2>1. req'[r].step \notin {"gateStatus", "gateTier", "insert"} /\ ~(teams' > teams)
      BY <1>0, <1>7, OtherStepsKeepGate DEF Next, Proceed
    <2> QED
      BY <2>1 DEF GateInv, GateStep
  <1> QED
    BY <1>1, <1>2, <1>3, <1>4, <1>5, <1>6, <1>7

\* While calls arrive one after the other, no subscription changes and no player registers,
\* every team added to a published tournament is within the tier that was paid for
\* (assertTeamAdditionAllowed, importFromCsv), whatever the batch and the prices.
THEOREM TeamGateHeld ==
    ASSUME NEW r, Requests = {r}, {"registration", "subscription"} \cap Operations = {},
           MidPrice <= HighPrice
    PROVE  Spec => TeamGateHolds
  <1>1. Init => GateInv(r)
    BY DEF Init, Idle, GateInv
  <1>2. TypeOK /\ GateInv(r) /\ [Next]_vars => GateInv(r)' /\ [GateStep]_vars
    BY GateKept
  <1> QED
    BY <1>1, <1>2, TypeCorrect, PTL DEF Spec, TeamGateHolds, GateStep

(***************************************************************************)
(* Registrations                                                           *)
(***************************************************************************)
CONSTANTS Names, None, Unlinked  \* of Registrations
VARIABLE registrations

Reg == INSTANCE Registrations

\* What Registrations assumes of the two values that are no registration.
NoTeamValues == None # Unlinked /\ None \notin Nat /\ Unlinked \notin Nat

(***************************************************************************)
(* The handlers' records                                                   *)
(***************************************************************************)
LEMMA RegIdleIsRequest == Reg!Idle \in Reg!Request /\ Reg!Idle.step = "idle"
  BY DEF Reg!Idle, Reg!Request, Reg!Ops, Reg!Steps

LEMMA NoTeamIsARegistration ==
    ASSUME NoTeamValues
    PROVE  None \notin Reg!Registrations /\ Unlinked \notin Reg!Registrations
  BY Bounds DEF NoTeamValues, Reg!Registrations

LEMMA RegGotoTypes ==
    ASSUME NEW r \in Requests, NEW s \in Reg!Steps, req \in [Requests -> Reg!Request],
           Reg!Goto(r, s)
    PROVE  /\ req' \in [Requests -> Reg!Request]
           /\ req'[r].step = s /\ req'[r].registration = req[r].registration
           /\ req'[r].op = req[r].op
           /\ \A q \in Requests \ {r} : req'[q] = req[q]
  <1> DEFINE new == [req[r] EXCEPT !.step = s]
  <1>1. /\ new \in Reg!Request /\ new.step = s /\ new.registration = req[r].registration
        /\ new.op = req[r].op
    BY DEF Reg!Request
  <1>2. req' = [req EXCEPT ![r] = new]
    BY DEF Reg!Goto
  <1> HIDE DEF new
  <1> QED
    BY <1>1, <1>2

LEMMA RegFinishTypes ==
    ASSUME NEW r \in Requests, req \in [Requests -> Reg!Request], Reg!Finish(r)
    PROVE  /\ req' \in [Requests -> Reg!Request]
           /\ req'[r].step = "idle"
           /\ \A q \in Requests \ {r} : req'[q] = req[q]
  BY RegIdleIsRequest DEF Reg!Finish

\* The state a call hands to Accept.
LEMMA RegStartStates ==
    /\ \A n \in Names, op \in {"register", "registerFree"} :
          /\ [Reg!Idle EXCEPT !.op = op, !.step = "create", !.name = n] \in Reg!Request
          /\ [Reg!Idle EXCEPT !.op = op, !.step = "create", !.name = n].step = "create"
    /\ \A o \in Reg!Registrations :
          [Reg!Idle EXCEPT !.op = "confirm", !.step = "retrieve", !.registration = o] \in Reg!Request
    /\ \A n \in Names :
          [Reg!Idle EXCEPT !.op = "addTeam", !.step = "insert", !.name = n] \in Reg!Request
    /\ \A o \in Reg!Registrations :
          /\ Reg!Delivery(o) \in Reg!Request /\ Reg!Delivery(o).step = "find"
          /\ Reg!Delivery(o).registration = o /\ Reg!Delivery(o).op = "webhook"
  BY DEF Reg!Idle, Reg!Request, Reg!Ops, Reg!Steps, Reg!Delivery

(***************************************************************************)
(* Steps that keep the claims of the handlers.                             *)
(***************************************************************************)
\* A step that leaves the rows and the sessions alone.
LEMMA RegFrameKeeps ==
    ASSUME Reg!HandlersInv, Reg!OpeningsInv, Reg!SessionsInv, NEW r \in Requests,
           UNCHANGED <<registrations, session>>, due' \subseteq due,
           \A q \in Requests \ {r} : req'[q] = req[q],
           ~Reg!Opens(r)', Reg!HandlerInv(r)'
    PROVE  Reg!HandlersInv' /\ Reg!OpeningsInv' /\ Reg!SessionsInv'
  <1>1. Reg!HandlersInv'
    <2> SUFFICES ASSUME NEW q \in Requests \ {r} PROVE Reg!HandlerInv(q)'
      BY DEF Reg!HandlersInv
    <2> QED
      BY DEF Reg!HandlersInv, Reg!HandlerInv, Reg!Opens, Reg!Pending
  <1>2. Reg!OpeningsInv'
    BY DEF Reg!OpeningsInv, Reg!Opens
  <1>3. Reg!SessionsInv'
    BY DEF Reg!SessionsInv
  <1> QED
    BY <1>1, <1>2, <1>3

\* A step that writes a row nobody else is opening.
LEMMA WriteKeeps ==
    ASSUME Reg!TypeOK, Reg!HandlersInv, Reg!OpeningsInv, Reg!SessionsInv,
           NEW r \in Requests, NEW o \in Reg!Registrations, NEW new \in Reg!Registration,
           registrations' = [registrations EXCEPT ![o] = new],
           UNCHANGED session, due' \subseteq due,
           \A q \in Requests \ {r} : req'[q] = req[q],
           new.status # "NONE", registrations[o].stamped => new.stamped,
           \A q \in Requests \ {r} : Reg!Opens(q) => req[q].registration # o,
           Reg!HandlerInv(r)',
           Reg!Opens(r)' => req'[r].registration = o
    PROVE  Reg!HandlersInv' /\ Reg!OpeningsInv' /\ Reg!SessionsInv'
  <1>0. /\ registrations'[o] = new
        /\ \A p \in Reg!Registrations \ {o} : registrations'[p] = registrations[p]
    BY DEF Reg!TypeOK
  <1>1. Reg!HandlersInv'
    <2> SUFFICES ASSUME NEW q \in Requests \ {r} PROVE Reg!HandlerInv(q)'
      BY DEF Reg!HandlersInv
    <2>1. Reg!HandlerInv(q) /\ req'[q] = req[q]
      BY DEF Reg!HandlersInv
    <2>2. CASE Reg!Opens(q)
      BY <1>0, <2>1, <2>2 DEF Reg!HandlerInv, Reg!Pending, Reg!Opens
    <2>3. CASE ~Reg!Opens(q)
      BY <2>1, <2>3 DEF Reg!HandlerInv, Reg!Opens, Reg!Opening
    <2> QED
      BY <2>2, <2>3
  <1>2. Reg!OpeningsInv'
    BY DEF Reg!OpeningsInv, Reg!Opens
  <1>3. Reg!SessionsInv'
    <2>1. /\ session[o] \in {"offered", "paid"} => registrations'[o].stamped
          /\ registrations'[o].status # "NONE" /\ registrations'[o] # Reg!NoRegistration
      BY <1>0 DEF Reg!SessionsInv, Reg!NoRegistration
    <2> QED
      BY <1>0, <2>1 DEF Reg!SessionsInv
  <1> QED
    BY <1>1, <1>2, <1>3

\* A row that is not PAID has no team, so it may change, and so may its session.
LEMMA UnpaidRowHasNoTeam ==
    ASSUME Reg!TypeOK, Reg!TeamsArePaidFor, UNCHANGED teams, NEW o \in Reg!Registrations,
           \/ registrations[o].status # "PAID"
           \/ session[o] \notin {"none", "paid"},
           \A p \in Reg!Registrations \ {o} :
              registrations'[p] = registrations[p] /\ session'[p] = session[p]
    PROVE  Reg!TeamsArePaidFor'
  BY DEF Reg!TeamsArePaidFor, Reg!TypeOK

(***************************************************************************)
(* A call arrives, or Stripe delivers an event.                            *)
(***************************************************************************)
LEMMA ArrivalKeeps ==
    ASSUME Reg!RegistrationInv, NEW r \in Requests, NEW new \in Reg!Request,
           req' = [req EXCEPT ![r] = new], calls' \in Nat,
           UNCHANGED <<teams, registrations, session, due, failures>>,
           new.step \in {"create", "retrieve", "find", "insert"},
           new.step \in {"retrieve", "find"} =>
              new.registration \in Reg!Registrations /\ new.op # "registerFree",
           new.step = "find" => session[new.registration] = "paid"
    PROVE  Reg!RegistrationInv'
  <1> USE DEF Reg!RegistrationInv
  <1>1. /\ req' \in [Requests -> Reg!Request] /\ req'[r] = new
        /\ \A q \in Requests \ {r} : req'[q] = req[q]
    BY DEF Reg!TypeOK
  <1>2. Reg!TypeOK'
    BY <1>1 DEF Reg!TypeOK
  <1>3. ~Reg!Opens(r)' /\ Reg!HandlerInv(r)'
    BY <1>1 DEF Reg!Opens, Reg!Opening, Reg!HandlerInv
  <1>4. Reg!HandlersInv' /\ Reg!OpeningsInv' /\ Reg!SessionsInv'
    BY <1>1, <1>3, RegFrameKeeps
  <1>5. Reg!TeamsArePaidFor'
    BY DEF Reg!TeamsArePaidFor
  <1> QED
    BY <1>2, <1>4, <1>5

LEMMA RegArrivalSteps ==
    ASSUME Reg!RegistrationInv, NEW r \in Requests,
           Reg!Start(r) \/ \E o \in Reg!Registrations : Reg!Deliver(r, o)
    PROVE  Reg!RegistrationInv' /\ UNCHANGED <<registrations, session>>
  <1> DEFINE Arrives(new) ==
               /\ req' = [req EXCEPT ![r] = new] /\ calls' \in Nat
               /\ UNCHANGED <<teams, registrations, session, due, failures>>
  <1>1. ASSUME NEW new \in Reg!Request, Reg!Accept(r, new) PROVE Arrives(new)
    BY <1>1 DEF Reg!Accept, Reg!Spend, Reg!RegistrationInv, Reg!TypeOK
  <1>2. CASE Reg!StartRegister(r)
    <2>1. PICK n \in Names, op \in {"register", "registerFree"} :
            Reg!Accept(r, [Reg!Idle EXCEPT !.op = op, !.step = "create", !.name = n])
      BY <1>2 DEF Reg!StartRegister
    <2> DEFINE new == [Reg!Idle EXCEPT !.op = op, !.step = "create", !.name = n]
    <2>2. new \in Reg!Request /\ new.step = "create"
      BY RegStartStates
    <2> HIDE DEF new
    <2>3. Arrives(new)
      BY <1>1, <2>1, <2>2 DEF new
    <2> QED
      BY <2>2, <2>3, ArrivalKeeps
  <1>3. CASE Reg!StartConfirm(r)
    <2>1. PICK o \in Reg!Registrations :
            Reg!Accept(r, [Reg!Idle EXCEPT !.op = "confirm", !.step = "retrieve", !.registration = o])
      BY <1>3 DEF Reg!StartConfirm
    <2> DEFINE new == [Reg!Idle EXCEPT !.op = "confirm", !.step = "retrieve",
                                       !.registration = o]
    <2>2. /\ new \in Reg!Request /\ new.step = "retrieve"
          /\ new.registration = o /\ new.op = "confirm"
      BY RegStartStates DEF Reg!Idle
    <2> HIDE DEF new
    <2>3. Arrives(new)
      BY <1>1, <2>1, <2>2 DEF new
    <2> QED
      BY <2>2, <2>3, ArrivalKeeps
  <1>4. CASE Reg!Redeliver(r)
    <2>1. PICK o \in Reg!Registrations : session[o] = "paid" /\ Reg!Accept(r, Reg!Delivery(o))
      BY <1>4 DEF Reg!Redeliver
    <2>2. /\ Reg!Delivery(o) \in Reg!Request /\ Reg!Delivery(o).step = "find"
          /\ Reg!Delivery(o).registration = o /\ Reg!Delivery(o).op = "webhook"
      BY RegStartStates
    <2>3. Arrives(Reg!Delivery(o))
      BY <1>1, <2>1, <2>2
    <2> QED
      BY <2>1, <2>2, <2>3, ArrivalKeeps
  <1>5. CASE Reg!StartAddTeam(r)
    <2>1. PICK n \in Names :
            Reg!Accept(r, [Reg!Idle EXCEPT !.op = "addTeam", !.step = "insert", !.name = n])
      BY <1>5 DEF Reg!StartAddTeam
    <2> DEFINE new == [Reg!Idle EXCEPT !.op = "addTeam", !.step = "insert", !.name = n]
    <2>2. new \in Reg!Request /\ new.step = "insert"
      BY RegStartStates DEF Reg!Idle
    <2> HIDE DEF new
    <2>3. Arrives(new)
      BY <1>1, <2>1, <2>2 DEF new
    <2> QED
      BY <2>2, <2>3, ArrivalKeeps
  <1>6. ASSUME NEW o \in Reg!Registrations, Reg!Deliver(r, o)
        PROVE  Reg!RegistrationInv' /\ UNCHANGED <<registrations, session>>
    <2>1. session[o] = "paid"
      BY <1>6 DEF Reg!Deliver, Reg!RegistrationInv, Reg!SessionsInv
    <2>2. /\ Reg!Delivery(o) \in Reg!Request /\ Reg!Delivery(o).step = "find"
          /\ Reg!Delivery(o).registration = o /\ Reg!Delivery(o).op = "webhook"
      BY RegStartStates
    <2>3. Arrives(Reg!Delivery(o))
      BY <1>6 DEF Reg!Deliver, Reg!RegistrationInv, Reg!TypeOK
    <2> QED
      BY <2>1, <2>2, <2>3, ArrivalKeeps
  <1> QED
    BY <1>2, <1>3, <1>4, <1>5, <1>6 DEF Reg!Start

(***************************************************************************)
(* Steps that write no registration and no session.                        *)
(***************************************************************************)
LEMMA ReadingSteps ==
    ASSUME Reg!RegistrationInv, NEW r \in Requests,
           Reg!RetrieveSession(r) \/ Reg!FindRegistration(r) \/ Reg!Fail(r)
    PROVE  Reg!RegistrationInv'
  <1> USE DEF Reg!RegistrationInv
  <1>0. req[r] \in Reg!Request /\ Reg!HandlerInv(r)
    BY DEF Reg!TypeOK, Reg!HandlersInv
  <1>1. /\ UNCHANGED <<teams, registrations, session, calls>>
        /\ due' \subseteq due /\ failures' \in Nat
    BY DEF Reg!RetrieveSession, Reg!FindRegistration, Reg!Answer, Reg!Fail, Reg!TypeOK
  <1>2. /\ req' \in [Requests -> Reg!Request]
        /\ \A q \in Requests \ {r} : req'[q] = req[q]
        /\ ~Reg!Opens(r)' /\ Reg!HandlerInv(r)'
    <2>1. CASE Reg!Finish(r)
      BY <2>1, RegFinishTypes DEF Reg!TypeOK, Reg!Opens, Reg!Opening, Reg!HandlerInv
    <2>2. CASE /\ Reg!RetrieveSession(r) /\ Reg!Goto(r, "find")
               /\ session[req[r].registration] = "paid"
      <3>1. /\ req'[r].step = "find" /\ req'[r].registration = req[r].registration
            /\ req'[r].op = req[r].op
            /\ req' \in [Requests -> Reg!Request]
            /\ \A q \in Requests \ {r} : req'[q] = req[q]
        BY <2>2, RegGotoTypes DEF Reg!TypeOK, Reg!Steps
      <3>2. req[r].registration \in Reg!Registrations /\ req[r].op # "registerFree"
        BY <1>0, <2>2 DEF Reg!RetrieveSession, Reg!HandlerInv
      <3> QED
        BY <1>1, <2>2, <3>1, <3>2 DEF Reg!Opens, Reg!Opening, Reg!HandlerInv
    <2>3. CASE Reg!FindRegistration(r) /\ Reg!Goto(r, "materialize")
      <3>1. /\ req'[r].step = "materialize" /\ req'[r].registration = req[r].registration
            /\ req'[r].op = req[r].op
            /\ req' \in [Requests -> Reg!Request]
            /\ \A q \in Requests \ {r} : req'[q] = req[q]
        BY <2>3, RegGotoTypes DEF Reg!TypeOK, Reg!Steps
      <3>2. /\ req[r].registration \in Reg!Registrations /\ session[req[r].registration] = "paid"
            /\ req[r].op # "registerFree"
        BY <1>0, <2>3 DEF Reg!FindRegistration, Reg!HandlerInv
      <3> QED
        BY <1>1, <3>1, <3>2 DEF Reg!Opens, Reg!Opening, Reg!HandlerInv
    <2> QED
      BY <2>1, <2>2, <2>3 DEF Reg!RetrieveSession, Reg!FindRegistration, Reg!Answer, Reg!Fail
  <1>3. Reg!TypeOK'
    BY <1>1, <1>2 DEF Reg!TypeOK
  <1>4. Reg!HandlersInv' /\ Reg!OpeningsInv' /\ Reg!SessionsInv'
    BY <1>1, <1>2, RegFrameKeeps
  <1> QED
    BY <1>1, <1>3, <1>4 DEF Reg!TeamsArePaidFor

LEMMA WritingTeams ==
    ASSUME NoTeamValues, Reg!RegistrationInv,
           Reg!RenameTeam \/ Reg!RemoveTeam \/ \E r \in Requests : Reg!InsertTeam(r)
    PROVE  Reg!RegistrationInv' /\ UNCHANGED <<registrations, session>>
  <1> USE DEF Reg!RegistrationInv
  <1>1. CASE Reg!RenameTeam \/ Reg!RemoveTeam
    <2>1. /\ UNCHANGED <<registrations, session, due, req, failures>>
          /\ calls' \in Nat
      BY <1>1 DEF Reg!RenameTeam, Reg!RemoveTeam, Reg!Spend, Reg!TypeOK
    <2>2. /\ teams' \in [Names -> Reg!Registrations \cup {None, Unlinked}]
          /\ Reg!TeamsArePaidFor'
      <3>1. CASE Reg!RenameTeam
        <4>1. PICK n \in Names, m \in Names :
                /\ teams[n] # None /\ teams[m] = None
                /\ teams' = [teams EXCEPT ![n] = None, ![m] = teams[n]]
          BY <3>1 DEF Reg!RenameTeam
        <4>2. /\ teams'[n] = None /\ teams'[m] = teams[n]
              /\ \A k \in Names \ {n, m} : teams'[k] = teams[k]
          BY <4>1 DEF Reg!TypeOK
        <4>3. teams' \in [Names -> Reg!Registrations \cup {None, Unlinked}]
          BY <4>1 DEF Reg!TypeOK
        <4> DEFINE was(k) == IF k = m THEN n ELSE k
        <4>4. \A k \in Names : teams'[k] \in Reg!Registrations =>
                 k # n /\ was(k) \in Names /\ teams[was(k)] = teams'[k]
          BY <4>1, <4>2, NoTeamIsARegistration
        <4>5. \A k, l \in Names : (k # n /\ l # n /\ was(k) = was(l)) => k = l
          OBVIOUS
        <4> HIDE DEF was
        <4>6. Reg!TeamsArePaidFor'
          <5> SUFFICES ASSUME NEW k \in Names, teams'[k] \in Reg!Registrations
                       PROVE  /\ registrations[teams'[k]].status = "PAID"
                              /\ session[teams'[k]] \in {"none", "paid"}
                              /\ \A l \in Names : teams'[l] = teams'[k] => l = k
            BY <2>1 DEF Reg!TeamsArePaidFor
          <5>1. k # n /\ was(k) \in Names /\ teams[was(k)] = teams'[k]
            BY <4>4
          <5>2. \A l \in Names : teams'[l] = teams'[k] => was(l) = was(k) /\ l # n
            BY <4>4, <5>1 DEF Reg!TeamsArePaidFor
          <5> QED
            BY <4>5, <5>1, <5>2 DEF Reg!TeamsArePaidFor
        <4> QED
          BY <4>3, <4>6
      <3>2. CASE Reg!RemoveTeam
        <4>1. PICK n \in Names : teams' = [teams EXCEPT ![n] = None]
          BY <3>2 DEF Reg!RemoveTeam
        <4>2. teams'[n] = None /\ \A k \in Names \ {n} : teams'[k] = teams[k]
          BY <4>1 DEF Reg!TypeOK
        <4>3. teams' \in [Names -> Reg!Registrations \cup {None, Unlinked}]
          BY <4>1 DEF Reg!TypeOK
        <4>4. Reg!TeamsArePaidFor'
          BY <2>1, <4>2, NoTeamIsARegistration DEF Reg!TeamsArePaidFor
        <4> QED
          BY <4>3, <4>4
      <3> QED
        BY <1>1, <3>1, <3>2
    <2>3. Reg!TypeOK'
      BY <2>1, <2>2 DEF Reg!TypeOK
    <2>4. Reg!HandlersInv' /\ Reg!OpeningsInv' /\ Reg!SessionsInv'
      BY <2>1 DEF Reg!HandlersInv, Reg!HandlerInv, Reg!OpeningsInv, Reg!Opens, Reg!SessionsInv,
                  Reg!Pending
    <2> QED
      BY <2>1, <2>2, <2>3, <2>4
  <1>2. ASSUME NEW r \in Requests, Reg!InsertTeam(r)
        PROVE  Reg!RegistrationInv' /\ UNCHANGED <<registrations, session>>
    <2>1. UNCHANGED <<registrations, session, due, calls, failures>>
      BY <1>2 DEF Reg!InsertTeam
    <2>2. /\ req' \in [Requests -> Reg!Request] /\ req'[r].step = "idle"
          /\ \A q \in Requests \ {r} : req'[q] = req[q]
      BY <1>2, RegFinishTypes DEF Reg!InsertTeam, Reg!TypeOK
    <2> DEFINE name == req[r].name
    <2>3. teams' = IF teams[name] = None THEN [teams EXCEPT ![name] = Unlinked] ELSE teams
      BY <1>2 DEF Reg!InsertTeam
    <2> HIDE DEF name
    <2>4. \A n \in Names : teams'[n] \in {teams[n], Unlinked}
      BY <2>3 DEF Reg!TypeOK
    <2>5. teams' \in [Names -> Reg!Registrations \cup {None, Unlinked}]
      BY <2>3 DEF Reg!TypeOK
    <2>6. Reg!TypeOK'
      BY <2>1, <2>2, <2>5 DEF Reg!TypeOK
    <2>7. Reg!TeamsArePaidFor'
      BY <2>1, <2>4, NoTeamIsARegistration DEF Reg!TeamsArePaidFor
    <2>8. ~Reg!Opens(r)' /\ Reg!HandlerInv(r)'
      BY <2>2 DEF Reg!Opens, Reg!Opening, Reg!HandlerInv
    <2>9. Reg!HandlersInv' /\ Reg!OpeningsInv' /\ Reg!SessionsInv'
      BY <2>1, <2>2, <2>8, RegFrameKeeps
    <2> QED
      BY <2>1, <2>6, <2>7, <2>9
  <1> QED
    BY <1>1, <1>2

(***************************************************************************)
(* Opening a registration.                                                 *)
(***************************************************************************)
LEMMA CreateStep ==
    ASSUME Reg!RegistrationInv, NEW r \in Requests, Reg!CreateRegistration(r)
    PROVE  Reg!RegistrationInv'
  <1> USE DEF Reg!RegistrationInv
  <1>0. req[r] \in Reg!Request
    BY DEF Reg!TypeOK
  <1> DEFINE next == IF req[r].op = "registerFree" THEN "materialize" ELSE "checkout"
             new == [status |-> "PENDING_PAYMENT", name |-> req[r].name, stamped |-> FALSE]
  <1>1. PICK o \in Reg!Registrations :
          /\ Reg!Fresh(o)
          /\ registrations' = [registrations EXCEPT ![o] = new]
          /\ req' = [req EXCEPT ![r].step = next, ![r].registration = o]
    BY DEF Reg!CreateRegistration
  <1>2. UNCHANGED <<teams, session, due, calls, failures>>
    BY DEF Reg!CreateRegistration
  <1>3. new \in Reg!Registration /\ new.status = "PENDING_PAYMENT" /\ ~new.stamped
    BY <1>0 DEF Reg!Registration, Reg!Request
  <1> DEFINE mine == [req[r] EXCEPT !.step = next, !.registration = o]
  <1>4. /\ mine \in Reg!Request /\ mine.step = next /\ mine.registration = o
        /\ mine.op = req[r].op
    BY <1>0 DEF Reg!Request, Reg!Steps
  <1>5. req' = [req EXCEPT ![r] = mine]
    BY <1>1
  <1>6. next \in {"materialize", "checkout"} /\ (next = "materialize" <=> req[r].op = "registerFree")
    OBVIOUS
  <1> HIDE DEF new, mine, next
  <1>7. /\ req' \in [Requests -> Reg!Request] /\ req'[r] = mine
        /\ \A q \in Requests \ {r} : req'[q] = req[q]
    BY <1>4, <1>5 DEF Reg!TypeOK
  <1>8. /\ registrations' \in [Reg!Registrations -> Reg!Registration] /\ registrations'[o] = new
        /\ \A p \in Reg!Registrations \ {o} : registrations'[p] = registrations[p]
    BY <1>1, <1>3 DEF Reg!TypeOK
  <1>9. Reg!TypeOK'
    BY <1>2, <1>7, <1>8 DEF Reg!TypeOK
  <1>10. /\ registrations[o] = Reg!NoRegistration /\ registrations[o].status = "NONE"
         /\ ~registrations[o].stamped /\ session[o] = "none"
    BY <1>1 DEF Reg!Fresh, Reg!NoRegistration, Reg!SessionsInv
  <1>11. \A q \in Requests \ {r} : Reg!Opens(q) => req[q].registration # o
    BY <1>10 DEF Reg!HandlersInv, Reg!HandlerInv, Reg!Pending
  <1>12. Reg!HandlerInv(r)' /\ (Reg!Opens(r)' => req'[r].registration = o)
    BY <1>2, <1>3, <1>4, <1>6, <1>7, <1>8, <1>10 DEF Reg!HandlerInv, Reg!Opens, Reg!Opening,
                                                     Reg!Pending
  <1>13. Reg!HandlersInv' /\ Reg!OpeningsInv' /\ Reg!SessionsInv'
    BY <1>1, <1>2, <1>3, <1>7, <1>10, <1>11, <1>12, WriteKeeps
  <1>14. Reg!TeamsArePaidFor'
    BY <1>2, <1>8, <1>10, UnpaidRowHasNoTeam
  <1> QED
    BY <1>9, <1>13, <1>14

LEMMA StampStep ==
    ASSUME Reg!RegistrationInv, NEW r \in Requests, Reg!StampSession(r)
    PROVE  Reg!RegistrationInv'
  <1> USE DEF Reg!RegistrationInv
  <1>0. req[r] \in Reg!Request /\ Reg!HandlerInv(r)
    BY DEF Reg!TypeOK, Reg!HandlersInv
  <1>1. PICK o \in Reg!Registrations :
          /\ o = req[r].registration /\ Reg!Pending(o)
          /\ ~registrations[o].stamped /\ session[o] = "created"
    BY <1>0 DEF Reg!StampSession, Reg!HandlerInv, Reg!Opens, Reg!Opening
  <1> DEFINE new == [registrations[o] EXCEPT !.stamped = TRUE]
  <1>2. /\ registrations' = [registrations EXCEPT ![o] = new]
        /\ UNCHANGED <<teams, session, due, calls, failures>>
    BY <1>1 DEF Reg!StampSession
  <1>3. new \in Reg!Registration /\ new.status = "PENDING_PAYMENT" /\ new.stamped
    BY <1>1 DEF Reg!Registration, Reg!Pending, Reg!TypeOK
  <1> HIDE DEF new
  <1>4. /\ req' \in [Requests -> Reg!Request]
        /\ req'[r].step = "respond" /\ req'[r].registration = o
        /\ \A q \in Requests \ {r} : req'[q] = req[q]
    BY <1>1, RegGotoTypes DEF Reg!StampSession, Reg!TypeOK, Reg!Steps
  <1>5. /\ registrations' \in [Reg!Registrations -> Reg!Registration] /\ registrations'[o] = new
        /\ \A p \in Reg!Registrations \ {o} : registrations'[p] = registrations[p]
    BY <1>2, <1>3 DEF Reg!TypeOK
  <1>6. Reg!TypeOK'
    BY <1>2, <1>4, <1>5 DEF Reg!TypeOK
  <1>7. \A q \in Requests \ {r} : Reg!Opens(q) => req[q].registration # o
    BY <1>1 DEF Reg!OpeningsInv, Reg!StampSession, Reg!Opens, Reg!Opening
  <1>8. Reg!HandlerInv(r)' /\ (Reg!Opens(r)' => req'[r].registration = o)
    BY <1>1, <1>2, <1>3, <1>4, <1>5 DEF Reg!HandlerInv, Reg!Opens, Reg!Opening, Reg!Pending
  <1>9. Reg!HandlersInv' /\ Reg!OpeningsInv' /\ Reg!SessionsInv'
    BY <1>2, <1>3, <1>4, <1>7, <1>8, WriteKeeps
  <1>10. Reg!TeamsArePaidFor'
    BY <1>1, <1>2, <1>5, UnpaidRowHasNoTeam DEF Reg!Pending
  <1> QED
    BY <1>6, <1>9, <1>10

LEMMA RegSessionSteps ==
    ASSUME Reg!RegistrationInv, NEW r \in Requests, Reg!CreateCheckout(r) \/ Reg!Respond(r)
    PROVE  Reg!RegistrationInv'
  <1> USE DEF Reg!RegistrationInv
  <1>0. req[r] \in Reg!Request /\ Reg!HandlerInv(r)
    BY DEF Reg!TypeOK, Reg!HandlersInv
  <1>1. PICK o \in Reg!Registrations, v \in {"created", "offered"} :
          /\ o = req[r].registration /\ Reg!Opens(r) /\ Reg!Pending(o)
          /\ session[o] \in {"none", "created"}
          /\ v = "offered" => registrations[o].stamped
          /\ session' = [session EXCEPT ![o] = v]
    BY <1>0 DEF Reg!CreateCheckout, Reg!Respond, Reg!HandlerInv, Reg!Opens, Reg!Opening
  <1>2. UNCHANGED <<teams, registrations, due, calls, failures>>
    BY DEF Reg!CreateCheckout, Reg!Respond
  <1>3. session'[o] = v /\ \A p \in Reg!Registrations \ {o} : session'[p] = session[p]
    BY <1>1 DEF Reg!TypeOK
  <1>4. /\ req' \in [Requests -> Reg!Request]
        /\ \A q \in Requests \ {r} : req'[q] = req[q]
        /\ Reg!Opens(r)' => req'[r].registration = o
        /\ Reg!HandlerInv(r)'
    <2>1. CASE Reg!CreateCheckout(r)
      <3>1. /\ req' \in [Requests -> Reg!Request]
            /\ req'[r].step = "stamp" /\ req'[r].registration = o
            /\ \A q \in Requests \ {r} : req'[q] = req[q]
        BY <1>1, <2>1, RegGotoTypes DEF Reg!CreateCheckout, Reg!TypeOK, Reg!Steps
      <3>2. ~registrations[o].stamped /\ session'[o] = "created"
        BY <1>0, <1>1, <2>1, <1>3 DEF Reg!CreateCheckout, Reg!HandlerInv, Reg!TypeOK
      <3> QED
        BY <1>1, <1>2, <3>1, <3>2 DEF Reg!HandlerInv, Reg!Opens, Reg!Opening, Reg!Pending
    <2>2. CASE Reg!Respond(r)
      <3>1. /\ req' \in [Requests -> Reg!Request] /\ req'[r].step = "idle"
            /\ \A q \in Requests \ {r} : req'[q] = req[q]
        BY <2>2, RegFinishTypes DEF Reg!Respond, Reg!TypeOK
      <3> QED
        BY <3>1 DEF Reg!HandlerInv, Reg!Opens, Reg!Opening
    <2> QED
      BY <2>1, <2>2
  <1>5. Reg!TypeOK'
    BY <1>1, <1>2, <1>4 DEF Reg!TypeOK
  <1>6. Reg!HandlersInv'
    <2> SUFFICES ASSUME NEW q \in Requests \ {r} PROVE Reg!HandlerInv(q)'
      BY <1>4 DEF Reg!HandlersInv
    <2>1. Reg!HandlerInv(q) /\ req'[q] = req[q] /\ (Reg!Opens(q) => req[q].registration # o)
      BY <1>1, <1>4 DEF Reg!HandlersInv, Reg!OpeningsInv
    <2>2. CASE Reg!Opens(q)
      BY <1>2, <1>3, <2>1, <2>2 DEF Reg!HandlerInv, Reg!Opens, Reg!Opening, Reg!Pending
    <2>3. CASE ~Reg!Opens(q)
      BY <1>1, <1>2, <1>3, <2>1, <2>3 DEF Reg!HandlerInv, Reg!Opens, Reg!Opening
    <2> QED
      BY <2>2, <2>3
  <1>7. Reg!OpeningsInv'
    BY <1>1, <1>4 DEF Reg!OpeningsInv, Reg!Opens
  <1>8. Reg!SessionsInv'
    <2>1. registrations[o] # Reg!NoRegistration
      BY <1>1 DEF Reg!Pending, Reg!NoRegistration
    <2>2. session'[o] # "paid" /\ session[o] # "paid"
      BY <1>1, <1>3
    <2> QED
      BY <1>1, <1>2, <1>3, <2>1, <2>2 DEF Reg!SessionsInv, Reg!TypeOK
  <1>9. Reg!TeamsArePaidFor'
    BY <1>1, <1>2, <1>3, UnpaidRowHasNoTeam DEF Reg!Pending
  <1> QED
    BY <1>5, <1>6, <1>7, <1>8, <1>9

LEMMA PayStep ==
    ASSUME Reg!RegistrationInv, NEW o \in Reg!Registrations, Reg!Pay(o)
    PROVE  Reg!RegistrationInv'
  <1> USE DEF Reg!RegistrationInv
  <1>1. /\ session[o] = "offered" /\ session'[o] = "paid"
        /\ \A p \in Reg!Registrations \ {o} : session'[p] = session[p]
        /\ UNCHANGED <<teams, registrations, req, calls, failures>>
        /\ due' = due \cup {o}
    BY DEF Reg!Pay, Reg!TypeOK
  <1>2. Reg!TypeOK'
    BY <1>1 DEF Reg!Pay, Reg!TypeOK
  <1>3. Reg!HandlersInv'
    <2> SUFFICES ASSUME NEW q \in Requests PROVE Reg!HandlerInv(q)'
      BY DEF Reg!HandlersInv
    <2>1. Reg!HandlerInv(q)
      BY DEF Reg!HandlersInv
    <2>2. CASE req[q].registration = o
      BY <1>1, <2>1, <2>2 DEF Reg!HandlerInv, Reg!Opens, Reg!Opening, Reg!Pending
    <2>3. CASE req[q].registration # o
      BY <1>1, <2>1, <2>3 DEF Reg!HandlerInv, Reg!Opens, Reg!Opening, Reg!Pending
    <2> QED
      BY <2>2, <2>3
  <1>4. Reg!OpeningsInv'
    BY <1>1 DEF Reg!OpeningsInv, Reg!Opens
  <1>5. Reg!SessionsInv'
    BY <1>1 DEF Reg!SessionsInv, Reg!TypeOK
  <1>6. Reg!TeamsArePaidFor'
    BY <1>1, UnpaidRowHasNoTeam
  <1> QED
    BY <1>2, <1>3, <1>4, <1>5, <1>6

(***************************************************************************)
(* The paid (or free) registration becomes a team.                         *)
(***************************************************************************)
LEMMA MaterializeStep ==
    ASSUME NoTeamValues, Reg!RegistrationInv, NEW r \in Requests, Reg!Materialize(r)
    PROVE  Reg!RegistrationInv'
  <1> USE DEF Reg!RegistrationInv
  <1>0. req[r] \in Reg!Request /\ Reg!HandlerInv(r)
    BY DEF Reg!TypeOK, Reg!HandlersInv
  <1>1. PICK o \in Reg!Registrations :
          /\ o = req[r].registration
          /\ session[o] \in {"none", "paid"}
          /\ session[o] = "none" => Reg!Opens(r) /\ ~registrations[o].stamped
    BY <1>0 DEF Reg!Materialize, Reg!HandlerInv, Reg!Opens
  <1>2. /\ UNCHANGED <<session, calls, failures>>
        /\ due' \subseteq due
        /\ Reg!Finish(r)
    BY DEF Reg!Materialize, Reg!Answer
  <1>3. /\ req' \in [Requests -> Reg!Request] /\ req'[r].step = "idle"
        /\ \A q \in Requests \ {r} : req'[q] = req[q]
        /\ ~Reg!Opens(r)' /\ Reg!HandlerInv(r)'
    BY <1>2, RegFinishTypes DEF Reg!TypeOK, Reg!Opens, Reg!Opening, Reg!HandlerInv
  <1>4. CASE UNCHANGED <<teams, registrations>>
    <2>1. Reg!TypeOK'
      BY <1>2, <1>3, <1>4 DEF Reg!TypeOK
    <2>2. Reg!HandlersInv' /\ Reg!OpeningsInv' /\ Reg!SessionsInv'
      BY <1>2, <1>3, <1>4, RegFrameKeeps
    <2> QED
      BY <1>2, <1>4, <2>1, <2>2 DEF Reg!TeamsArePaidFor
  <1> DEFINE n == registrations[o].name
             new == [registrations[o] EXCEPT !.status = "PAID"]
  <1>5. CASE /\ teams' = [m \in Names |-> IF m = n THEN o
                                        ELSE IF teams[m] = o THEN Unlinked ELSE teams[m]]
             /\ registrations' = [registrations EXCEPT ![o] = new]
    <2>1. /\ new \in Reg!Registration /\ new.status = "PAID"
          /\ new.stamped = registrations[o].stamped
      BY DEF Reg!Registration, Reg!TypeOK
    <2> HIDE DEF new, n
    <2>2. /\ registrations' \in [Reg!Registrations -> Reg!Registration]
          /\ registrations'[o] = new
          /\ \A p \in Reg!Registrations \ {o} : registrations'[p] = registrations[p]
      BY <1>5, <2>1 DEF Reg!TypeOK
    <2>3. Reg!TypeOK'
      BY <1>2, <1>3, <1>5, <2>2 DEF Reg!TypeOK
    <2>4. \A q \in Requests \ {r} : Reg!Opens(q) => req[q].registration # o
      <3> SUFFICES ASSUME NEW q \in Requests \ {r}, Reg!Opens(q) PROVE req[q].registration # o
        OBVIOUS
      <3>1. CASE session[o] = "none"
        BY <1>1, <3>1 DEF Reg!OpeningsInv
      <3>2. CASE session[o] = "paid"
        <4>1. Reg!HandlerInv(q)
          BY DEF Reg!HandlersInv
        <4>2. session[req[q].registration] # "paid"
          BY <4>1 DEF Reg!HandlerInv, Reg!Opens, Reg!Opening
        <4> QED
          BY <3>2, <4>2
      <3> QED
        BY <1>1, <3>1, <3>2
    <2>5. Reg!HandlersInv' /\ Reg!OpeningsInv' /\ Reg!SessionsInv'
      BY <1>2, <1>3, <1>5, <2>1, <2>4, WriteKeeps
    <2>6. Reg!TeamsArePaidFor'
      <3> SUFFICES ASSUME NEW k \in Names, teams'[k] \in Reg!Registrations
                   PROVE  /\ registrations'[teams'[k]].status = "PAID"
                          /\ session'[teams'[k]] \in {"none", "paid"}
                          /\ \A l \in Names : teams'[l] = teams'[k] => l = k
        BY DEF Reg!TeamsArePaidFor
      <3>1. CASE k = n
        BY <1>1, <1>2, <1>5, <2>1, <2>2, <3>1, NoTeamIsARegistration
      <3>2. CASE k # n
        <4>1. teams'[k] = teams[k] /\ teams[k] # o
          BY <1>5, <3>2, NoTeamIsARegistration
        <4>2. \A l \in Names : teams'[l] = teams'[k] => teams[l] = teams[k]
          BY <1>5, <4>1, NoTeamIsARegistration
        <4> QED
          BY <1>2, <2>2, <4>1, <4>2 DEF Reg!TeamsArePaidFor
      <3> QED
        BY <3>1, <3>2
    <2> QED
      BY <2>3, <2>5, <2>6
  <1>6. CASE registrations' = [registrations EXCEPT ![o].status = "PAID"]
             /\ teams' = [m \in Names |-> IF m = n THEN o
                                        ELSE IF teams[m] = o THEN Unlinked ELSE teams[m]]
    BY <1>5, <1>6
  <1> HIDE DEF new, n
  <1> QED
    BY <1>1, <1>4, <1>6 DEF Reg!Materialize, n

(***************************************************************************)
(* The invariant                                                           *)
(***************************************************************************)
LEMMA RegistrationInitially ==
    ASSUME NoTeamValues
    PROVE  Reg!Init => Reg!RegistrationInv
  <1> SUFFICES ASSUME Reg!Init PROVE Reg!RegistrationInv
    OBVIOUS
  <1> USE DEF Reg!Init
  <1>1. Reg!TypeOK
    BY Bounds, RegIdleIsRequest DEF Reg!TypeOK, Reg!NoRegistration, Reg!Registration
  <1>2. Reg!HandlersInv /\ Reg!OpeningsInv
    BY RegIdleIsRequest DEF Reg!HandlersInv, Reg!HandlerInv, Reg!OpeningsInv, Reg!Opens,
                            Reg!Opening
  <1>3. Reg!SessionsInv
    BY DEF Reg!SessionsInv, Reg!NoRegistration
  <1>4. Reg!TeamsArePaidFor
    BY NoTeamIsARegistration DEF Reg!TeamsArePaidFor
  <1> QED
    BY <1>1, <1>2, <1>3, <1>4 DEF Reg!RegistrationInv

LEMMA RegistrationStep ==
    ASSUME NoTeamValues
    PROVE  Reg!RegistrationInv /\ [Reg!Next]_(Reg!vars) => Reg!RegistrationInv'
  <1> SUFFICES ASSUME Reg!RegistrationInv, [Reg!Next]_(Reg!vars) PROVE Reg!RegistrationInv'
    OBVIOUS
  <1>1. ASSUME NEW r \in Requests, Reg!Proceed(r) PROVE Reg!RegistrationInv'
    BY <1>1, CreateStep, StampStep, RegSessionSteps, ReadingSteps, MaterializeStep, WritingTeams
       DEF Reg!Proceed
  <1>2. ASSUME NEW r \in Requests, Reg!Start(r) \/ Reg!Fail(r) PROVE Reg!RegistrationInv'
    BY <1>2, RegArrivalSteps, ReadingSteps
  <1>3. ASSUME NEW r \in Requests, NEW o \in Reg!Registrations, Reg!Deliver(r, o)
        PROVE  Reg!RegistrationInv'
    BY <1>3, RegArrivalSteps
  <1>4. ASSUME NEW o \in Reg!Registrations, Reg!Pay(o) PROVE Reg!RegistrationInv'
    BY <1>4, PayStep
  <1>5. CASE Reg!RenameTeam \/ Reg!RemoveTeam
    BY <1>5, WritingTeams
  <1>6. CASE UNCHANGED Reg!vars
    BY <1>6 DEF Reg!vars, Reg!RegistrationInv, Reg!TypeOK, Reg!HandlersInv, Reg!HandlerInv,
                Reg!OpeningsInv, Reg!Opens,
                Reg!SessionsInv, Reg!Pending, Reg!TeamsArePaidFor
  <1> QED
    BY <1>1, <1>2, <1>3, <1>4, <1>5, <1>6 DEF Reg!Next

LEMMA RegistrationInvariant ==
    ASSUME NoTeamValues
    PROVE  Reg!Spec => []Reg!RegistrationInv
  BY RegistrationInitially, RegistrationStep, PTL DEF Reg!Spec

\* Every row, session and handler keeps its type.
THEOREM RegTypeCorrect ==
    ASSUME NoTeamValues
    PROVE  Reg!Spec => []Reg!TypeOK
  BY RegistrationInvariant, PTL DEF Reg!RegistrationInv

\* A team that belongs to a registration is its only one, and was paid for when it
\* had to be, whatever interleaves and whatever is lost (createForPlayer, materialize).
THEOREM RegisteredTeamsArePaid ==
    ASSUME NoTeamValues
    PROVE  Reg!Spec => []Reg!TeamsArePaidFor
  BY RegistrationInvariant, PTL DEF Reg!RegistrationInv

(***************************************************************************)
(* The promise of PaymentLedger.                                           *)
(***************************************************************************)
\* A step that moves the stage of one checkout the way the ledger allows it.
LEMMA RegLedgerAdvances ==
    ASSUME NEW o \in Reg!Registrations,
           \A p \in Reg!Registrations \ {o} : Reg!Stage(p)' = Reg!Stage(p),
           \/ Reg!Stage(o) = "none" /\ Reg!Stage(o)' = "payable"
           \/ Reg!Stage(o) = "payable" /\ Reg!Stage(o)' = "paid"
           \/ Reg!Stage(o) = "paid" /\ Reg!Stage(o)' = "recorded"
    PROVE  Reg!Ledger!Next
  <1>1. \A p \in Reg!Registrations : Reg!Stages[p] = Reg!Stage(p) /\ Reg!Stages'[p] = Reg!Stage(p)'
    BY DEF Reg!Stages
  <1>2. Reg!Stages' = [Reg!Stages EXCEPT ![o] = Reg!Stage(o)']
    BY DEF Reg!Stages
  <1>3. \/ Reg!Ledger!Advance(o, "none", "payable")
        \/ Reg!Ledger!Advance(o, "payable", "paid")
        \/ Reg!Ledger!Advance(o, "paid", "recorded")
    BY <1>1, <1>2 DEF Reg!Ledger!Advance
  <1> QED
    BY <1>3 DEF Reg!Ledger!Next, Reg!Ledger!Open, Reg!Ledger!Pay, Reg!Ledger!Record

LEMMA RegLedgerStutters ==
    ASSUME \A p \in Reg!Registrations : Reg!Stage(p)' = Reg!Stage(p)
    PROVE  UNCHANGED Reg!Stages
  BY DEF Reg!Stages

LEMMA RegLedgerInitially == Reg!Init => Reg!Ledger!Init
  BY DEF Reg!Init, Reg!Ledger!Init, Reg!Stages, Reg!Stage, Reg!NoRegistration

LEMMA RegLedgerKeptByOpening ==
    ASSUME Reg!RegistrationInv, NEW r \in Requests,
           \/ Reg!CreateRegistration(r) \/ Reg!CreateCheckout(r)
           \/ Reg!StampSession(r) \/ Reg!Respond(r)
    PROVE  Reg!Ledger!Next \/ \A p \in Reg!Registrations : Reg!Stage(p)' = Reg!Stage(p)
  <1> USE DEF Reg!RegistrationInv, Reg!TypeOK
  <1>0. Reg!HandlerInv(r)
    BY DEF Reg!HandlersInv
  <1>1. CASE Reg!CreateRegistration(r)
    <2> DEFINE new == [status |-> "PENDING_PAYMENT", name |-> req[r].name, stamped |-> FALSE]
    <2>1. PICK o \in Reg!Registrations :
            Reg!Fresh(o) /\ registrations' = [registrations EXCEPT ![o] = new]
      BY <1>1 DEF Reg!CreateRegistration
    <2>2. ~new.stamped /\ UNCHANGED session
      BY <1>1 DEF Reg!CreateRegistration
    <2> HIDE DEF new
    <2>3. /\ registrations'[o] = new /\ ~registrations[o].stamped
          /\ \A p \in Reg!Registrations \ {o} : registrations'[p] = registrations[p]
      BY <2>1 DEF Reg!Fresh, Reg!NoRegistration
    <2>4. Reg!Stage(o) = "none"
      BY <2>3 DEF Reg!Stage, Reg!Awaited
    <2>5. ~registrations'[o].stamped
      BY <2>2, <2>3
    <2>6. Reg!Stage(o)' = "none"
      BY <2>5 DEF Reg!Stage, Reg!Awaited
    <2>7. \A p \in Reg!Registrations \ {o} : Reg!Stage(p)' = Reg!Stage(p)
      BY <2>2, <2>3 DEF Reg!Stage, Reg!Awaited
    <2> QED
      BY <2>4, <2>6, <2>7
  <1>2. CASE Reg!CreateCheckout(r)
    <2>1. PICK o \in Reg!Registrations : o = req[r].registration /\ ~registrations[o].stamped
      BY <1>0, <1>2 DEF Reg!CreateCheckout, Reg!HandlerInv, Reg!Opens, Reg!Opening
    <2>2. /\ \A p \in Reg!Registrations \ {o} : session'[p] = session[p]
          /\ UNCHANGED registrations
      BY <1>2, <2>1 DEF Reg!CreateCheckout
    <2> QED
      BY <2>1, <2>2 DEF Reg!Stage, Reg!Awaited
  <1>3. CASE Reg!StampSession(r)
    <2>1. PICK o \in Reg!Registrations :
            /\ o = req[r].registration /\ Reg!Pending(o)
            /\ ~registrations[o].stamped /\ session[o] = "created"
      BY <1>0, <1>3 DEF Reg!StampSession, Reg!HandlerInv, Reg!Opens, Reg!Opening
    <2> DEFINE new == [registrations[o] EXCEPT !.stamped = TRUE]
    <2>2. new.status = "PENDING_PAYMENT" /\ new.stamped
      BY <2>1 DEF Reg!Pending, Reg!Registration
    <2>3. registrations' = [registrations EXCEPT ![o] = new] /\ UNCHANGED session
      BY <1>3, <2>1 DEF Reg!StampSession
    <2> HIDE DEF new
    <2>4. /\ registrations'[o] = new
          /\ \A p \in Reg!Registrations \ {o} : registrations'[p] = registrations[p]
      BY <2>1, <2>3
    <2>5. Reg!Stage(o) = "none" /\ Reg!Stage(o)' = "payable"
      BY <2>1, <2>2, <2>3, <2>4 DEF Reg!Stage, Reg!Awaited
    <2>6. \A p \in Reg!Registrations \ {o} : Reg!Stage(p)' = Reg!Stage(p)
      BY <2>3, <2>4 DEF Reg!Stage, Reg!Awaited
    <2> QED
      BY <2>1, <2>5, <2>6, RegLedgerAdvances
  <1>4. CASE Reg!Respond(r)
    <2>1. PICK o \in Reg!Registrations : o = req[r].registration /\ session[o] = "created"
      BY <1>0, <1>4 DEF Reg!Respond, Reg!HandlerInv, Reg!Opens, Reg!Opening
    <2>2. /\ session'[o] = "offered"
          /\ \A p \in Reg!Registrations \ {o} : session'[p] = session[p]
          /\ UNCHANGED registrations
      BY <1>4, <2>1 DEF Reg!Respond
    <2> QED
      BY <2>1, <2>2 DEF Reg!Stage, Reg!Awaited
  <1> QED
    BY <1>1, <1>2, <1>3, <1>4

LEMMA RegLedgerKeptByPayment ==
    ASSUME Reg!RegistrationInv,
           (\E o \in Reg!Registrations : Reg!Pay(o)) \/ (\E r \in Requests : Reg!Materialize(r))
    PROVE  Reg!Ledger!Next \/ \A p \in Reg!Registrations : Reg!Stage(p)' = Reg!Stage(p)
  <1> USE DEF Reg!RegistrationInv, Reg!TypeOK
  <1>1. ASSUME NEW o \in Reg!Registrations, Reg!Pay(o)
        PROVE  Reg!Ledger!Next \/ \A p \in Reg!Registrations : Reg!Stage(p)' = Reg!Stage(p)
    <2>1. /\ session[o] = "offered" /\ session'[o] = "paid"
          /\ \A p \in Reg!Registrations \ {o} : session'[p] = session[p]
          /\ UNCHANGED registrations
      BY <1>1 DEF Reg!Pay
    <2>2. registrations[o].stamped
      BY <2>1 DEF Reg!SessionsInv
    <2>3. \A p \in Reg!Registrations \ {o} : Reg!Stage(p)' = Reg!Stage(p)
      BY <2>1 DEF Reg!Stage, Reg!Awaited
    <2>4. CASE Reg!Pending(o)
      <3>1. Reg!Stage(o) = "payable" /\ Reg!Stage(o)' = "paid"
        BY <2>1, <2>2, <2>4 DEF Reg!Stage, Reg!Awaited, Reg!Pending
      <3> QED
        BY <2>3, <3>1, RegLedgerAdvances
    <2>5. CASE ~Reg!Pending(o)
      BY <2>1, <2>2, <2>3, <2>5 DEF Reg!Stage, Reg!Awaited, Reg!Pending
    <2> QED
      BY <2>4, <2>5
  <1>2. ASSUME NEW r \in Requests, Reg!Materialize(r)
        PROVE  Reg!Ledger!Next \/ \A p \in Reg!Registrations : Reg!Stage(p)' = Reg!Stage(p)
    <2>0. UNCHANGED session
      BY <1>2 DEF Reg!Materialize
    <2>1. PICK o \in Reg!Registrations :
            /\ o = req[r].registration
            /\ registrations[o].stamped => session[o] = "paid"
      BY <1>2 DEF Reg!Materialize, Reg!HandlersInv, Reg!HandlerInv
    <2>2. CASE UNCHANGED registrations
      BY <2>0, <2>2 DEF Reg!Stage, Reg!Awaited
    <2> DEFINE new == [registrations[o] EXCEPT !.status = "PAID"]
    <2>3. CASE registrations' = [registrations EXCEPT ![o] = new]
      <3>1. new.status = "PAID" /\ new.stamped = registrations[o].stamped
        BY DEF Reg!Registration
      <3> HIDE DEF new
      <3>2. /\ registrations'[o] = new
            /\ \A p \in Reg!Registrations \ {o} : registrations'[p] = registrations[p]
        BY <2>3
      <3>3. \A p \in Reg!Registrations \ {o} : Reg!Stage(p)' = Reg!Stage(p)
        BY <2>0, <3>2 DEF Reg!Stage, Reg!Awaited
      <3>4. CASE ~registrations[o].stamped
        <4>1. Reg!Stage(o) = "none" /\ Reg!Stage(o)' = "none"
          BY <3>1, <3>2, <3>4 DEF Reg!Stage, Reg!Awaited
        <4> QED
          BY <3>3, <4>1
      <3>5. CASE registrations[o].stamped
        <4>1. Reg!Stage(o)' = "recorded"
          BY <3>1, <3>2, <3>5 DEF Reg!Stage, Reg!Awaited
        <4>2. session[o] = "paid" /\ registrations[o].status \in {"PENDING_PAYMENT", "PAID"}
          BY <2>1, <3>5 DEF Reg!SessionsInv, Reg!Registration
        <4>3. Reg!Stage(o) \in {"paid", "recorded"}
          BY <3>5, <4>2 DEF Reg!Stage, Reg!Awaited
        <4> QED
          BY <3>3, <4>1, <4>3, RegLedgerAdvances
      <3> QED
        BY <3>4, <3>5
    <2> QED
      BY <1>2, <2>1, <2>2, <2>3 DEF Reg!Materialize
  <1> QED
    BY <1>1, <1>2

\* Every other step leaves the rows and Stripe's sessions alone.
LEMMA RegLedgerStep ==
    ASSUME NoTeamValues, Reg!RegistrationInv, [Reg!Next]_(Reg!vars)
    PROVE  Reg!Ledger!Next \/ UNCHANGED Reg!Stages
  <1>1. CASE UNCHANGED <<registrations, session>>
    BY <1>1, RegLedgerStutters DEF Reg!Stage, Reg!Awaited
  <1>2. CASE \E r \in Requests :
               \/ Reg!CreateRegistration(r) \/ Reg!CreateCheckout(r)
               \/ Reg!StampSession(r) \/ Reg!Respond(r)
    BY <1>2, RegLedgerKeptByOpening, RegLedgerStutters
  <1>3. CASE (\E o \in Reg!Registrations : Reg!Pay(o)) \/ (\E r \in Requests : Reg!Materialize(r))
    BY <1>3, RegLedgerKeptByPayment, RegLedgerStutters
  <1>4. ASSUME NEW r \in Requests, Reg!Start(r) \/ \E o \in Reg!Registrations : Reg!Deliver(r, o)
        PROVE  UNCHANGED <<registrations, session>>
    BY <1>4, RegArrivalSteps
  <1>5. ASSUME NEW r \in Requests, Reg!RetrieveSession(r) \/ Reg!FindRegistration(r) \/ Reg!Fail(r)
        PROVE  UNCHANGED <<registrations, session>>
    BY <1>5 DEF Reg!RetrieveSession, Reg!FindRegistration, Reg!Fail
  <1>6. ASSUME Reg!RenameTeam \/ Reg!RemoveTeam \/ \E r \in Requests : Reg!InsertTeam(r)
        PROVE  UNCHANGED <<registrations, session>>
    BY <1>6, WritingTeams
  <1>7. CASE UNCHANGED Reg!vars
    BY <1>1, <1>7 DEF Reg!vars
  <1> QED
    BY <1>1, <1>2, <1>3, <1>4, <1>5, <1>6, <1>7 DEF Reg!Next, Reg!Proceed

\* Registrations implements PaymentLedger: every checkout is opened, paid and recorded
\* in that order and one way (createForPlayer, applyPaidRegistrationSession).
THEOREM RegistrationsKeepLedger ==
    ASSUME NoTeamValues
    PROVE  Reg!Spec => Reg!KeepsLedger
  <1>1. Reg!Init => Reg!Ledger!Init
    BY RegLedgerInitially
  <1>2. Reg!RegistrationInv /\ [Reg!Next]_(Reg!vars) => [Reg!Ledger!Next]_(Reg!Stages)
    BY RegLedgerStep
  <1> QED
    BY <1>1, <1>2, RegistrationInvariant, PTL DEF Reg!Spec, Reg!KeepsLedger, Reg!Ledger!Spec
================================================================================
