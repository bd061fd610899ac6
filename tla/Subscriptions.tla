----------------------------- MODULE Subscriptions -----------------------------
(***************************************************************************)
(* The annual subscriptions of the organizations (OrganizationsService):   *)
(* Stripe Checkout, a free price, and the auto-renewing subscription that  *)
(* one user buys on iOS.  As in Publication, a handler is a sequence of    *)
(* steps, one per awaited query or outside call, and the steps of several  *)
(* requests interleave.                                                    *)
(***************************************************************************)
EXTENDS Integers

CONSTANTS
    Organizations,  \* the organizations the buyer may administer
    Nowhere,        \* stands for the absence of an organization
    Price,          \* ORGANIZATION_ANNUAL_SUBSCRIPTION_PRICE_CENTS
    Requests,       \* the requests the API serves concurrently
    Operations,     \* the calls and outside events considered
    MaxCalls,       \* bound: calls and outside events in one behaviour
    MaxFailures     \* bound: requests lost half-way

ASSUME Parameters ==
    /\ Nowhere \notin Organizations
    /\ Price \in Nat /\ MaxCalls \in Nat /\ MaxFailures \in Nat

VARIABLES
    subs,       \* the OrganizationSubscription rows
    over,       \* rows and App Store periods whose expiry date has passed
    suspended,  \* organizations with suspendedAt set
    oldest,     \* the buyer's oldest ORG_ADMIN membership
    session,    \* Stripe: the checkout session created for each row
    due,        \* Stripe: sessions whose webhook delivery was not acknowledged
    bought,     \* StoreKit: the organization each period was bought for
    notices,    \* RevenueCat: periods whose webhook delivery was not acknowledged
    req,        \* what each request in flight does next, and what it has read
    calls,      \* calls still to come
    failures    \* requests lost so far

stripeVars == <<session, due>>
storeVars == <<bought, notices>>
orgVars == <<suspended, oldest, over>>
vars == <<subs, over, suspended, oldest, session, due, bought, notices, req,
          calls, failures>>

\* A call creates at most one row or one period, never both.
Rows == 1 .. MaxCalls
Txns == 1 .. MaxCalls
None == 0

NoRow == [status |-> "NONE", organization |-> Nowhere, session |-> None, txn |-> None]

\* session is stripeCheckoutSessionId: the session made for row s is called s.
Row == [status : {"NONE", "PENDING_PAYMENT", "ACTIVE"},
        organization : Organizations \cup {Nowhere},
        session : Rows \cup {None}, txn : Txns \cup {None}]

Stamped(s) == subs[s].session # None

Pending(s) == subs[s].status = "PENDING_PAYMENT"

\* A row made from an App Store period ends with it, any other one a year later.
Running(s) ==
    /\ subs[s].status = "ACTIVE"
    /\ IF subs[s].txn # None THEN <<"period", subs[s].txn>> \notin over
                             ELSE <<"row", s>> \notin over

Subscribed(organization) ==
    \E s \in Rows : subs[s].organization = organization /\ Running(s)

Recorded(t) == \E s \in Rows : subs[s].txn = t

\* The row created next.
Fresh(s) == subs[s] = NoRow /\ \A p \in Rows : p < s => subs[p] # NoRow

Create(status, organization, txn) == \E s \in Rows :
    /\ Fresh(s)
    /\ subs' = [subs EXCEPT ![s] = [NoRow EXCEPT !.status = status, !.txn = txn,
                                                 !.organization = organization]]

(***************************************************************************)
(* Requests in flight                                                      *)
(***************************************************************************)
Steps == {"idle",
          "check", "createActive", "createPending", "checkout", "stamp", "respond",
          "retrieve", "findRow", "record", "receipt",       \* Stripe payments
          "fetch", "attribute", "findTxn", "recordIap"}     \* App Store periods

Ops == {"none", "subscribe", "confirm", "webhook", "confirmIap", "notice"}

Idle == [op |-> "none", step |-> "idle", organization |-> Nowhere, row |-> None,
         txn |-> None]

Request == [op : Ops, step : Steps, organization : Organizations \cup {Nowhere},
            row : Rows \cup {None}, txn : Txns \cup {None}]

Init ==
    /\ subs = [s \in Rows |-> NoRow]
    /\ over = {}
    /\ suspended = {}
    /\ oldest \in Organizations
    /\ session = [s \in Rows |-> "none"]
    /\ due = {}
    /\ bought = [t \in Txns |-> Nowhere]
    /\ notices = {}
    /\ req = [r \in Requests |-> Idle]
    /\ calls = MaxCalls
    /\ failures = 0

Spend(op) == op \in Operations /\ calls > 0 /\ calls' = calls - 1

Accept(r, op, step, state) ==
    /\ Spend(op)
    /\ req[r].step = "idle"
    /\ req' = [req EXCEPT ![r] = [state EXCEPT !.op = op, !.step = step]]
    /\ UNCHANGED <<subs, orgVars, stripeVars, storeVars, failures>>

Goto(r, step) == req' = [req EXCEPT ![r].step = step]

Finish(r) == req' = [req EXCEPT ![r] = Idle]

\* A step that only reads.
NoWrites == UNCHANGED <<subs, orgVars, stripeVars, storeVars, calls, failures>>

OnlyRows == UNCHANGED <<orgVars, stripeVars, storeVars, calls, failures>>

OnlySessions == UNCHANGED <<subs, orgVars, due, storeVars, calls, failures>>

(***************************************************************************)
(* subscribe                                                               *)
(***************************************************************************)
StartSubscribe(r) == \E o \in Organizations :
    o \notin suspended /\ Accept(r, "subscribe", "check", [Idle EXCEPT !.organization = o])

\* Mutant: an organization with a running subscription is not refused.
CheckNothing(r) ==
    /\ req[r].step = "check"
    /\ Goto(r, CASE req[r].op = "confirmIap" -> "fetch"
                 [] req[r].op # "confirmIap" /\ Price = 0 -> "createActive"
                 [] OTHER -> "createPending")
    /\ NoWrites

\* subscribe and confirmSubscriptionPaymentViaIap ask hasActiveSubscription.
CheckNotSubscribed(r) ==
    /\ req[r].step = "check"
    /\ CASE Subscribed(req[r].organization) -> Finish(r)
         [] ~Subscribed(req[r].organization) /\ req[r].op = "confirmIap" -> Goto(r, "fetch")
         [] OTHER -> Goto(r, IF Price = 0 THEN "createActive" ELSE "createPending")
    /\ NoWrites

CreateActive(r) ==
    /\ req[r].step = "createActive"
    /\ Create("ACTIVE", req[r].organization, None)
    /\ Finish(r)
    /\ OnlyRows

\* Mutant: the row is created as already paid.
CreatePaid(r) ==
    /\ req[r].step = "createPending"
    /\ Create("ACTIVE", req[r].organization, None)
    /\ req' = [req EXCEPT ![r].step = "checkout",
                          ![r].row = CHOOSE s \in Rows : Fresh(s)]
    /\ OnlyRows

CreatePending(r) ==
    /\ req[r].step = "createPending"
    /\ Create("PENDING_PAYMENT", req[r].organization, None)
    /\ req' = [req EXCEPT ![r].step = "checkout",
                          ![r].row = CHOOSE s \in Rows : Fresh(s)]
    /\ OnlyRows

\* Mutant: the client is sent to the page before its session is on the row.
CreateCheckoutAndRespond(r) ==
    /\ req[r].step = "checkout"
    /\ session' = [session EXCEPT ![req[r].row] = "offered"]
    /\ Goto(r, "stamp")
    /\ OnlySessions

CreateCheckout(r) ==
    /\ req[r].step = "checkout"
    /\ session' = [session EXCEPT ![req[r].row] = "created"]
    /\ Goto(r, "stamp")
    /\ OnlySessions

StampSession(r) ==
    /\ req[r].step = "stamp"
    /\ subs' = [subs EXCEPT ![req[r].row].session = req[r].row]
    /\ Goto(r, "respond")
    /\ OnlyRows

Respond(r) ==
    /\ req[r].step = "respond"
    /\ session' = [session EXCEPT ![req[r].row] = "offered"]
    /\ Finish(r)
    /\ OnlySessions

(***************************************************************************)
(* Stripe: the customer pays a page that was handed out; the event is      *)
(* delivered until it is acknowledged, possibly several times at once.     *)
(***************************************************************************)
Pay(s) ==
    /\ session[s] = "offered"
    /\ session' = [session EXCEPT ![s] = "paid"]
    /\ due' = due \cup {s}
    /\ UNCHANGED <<subs, orgVars, storeVars, req, calls, failures>>

Deliver(r, s) ==
    /\ s \in due
    /\ req[r].step = "idle"
    /\ req' = [req EXCEPT ![r] = [Idle EXCEPT !.op = "webhook", !.step = "findRow",
                                             !.row = s]]
    /\ NoWrites

Redeliver(r) == \E s \in Rows :
    /\ session[s] = "paid"
    /\ Accept(r, "webhook", "findRow", [Idle EXCEPT !.row = s])

\* The handler answers; a webhook's answer acknowledges the event.
Answer(r) ==
    /\ Finish(r)
    /\ due' = IF req[r].op = "webhook" THEN due \ {req[r].row} ELSE due
    /\ notices' = IF req[r].op = "notice" THEN notices \ {req[r].txn} ELSE notices
    /\ UNCHANGED <<orgVars, session, bought, calls, failures>>

\* confirmSubscriptionPayment, from the browser back on the success page.
StartConfirm(r) == \E s \in Rows :
    /\ Stamped(s) /\ Pending(s)
    /\ session[s] \in {"offered", "paid"}
    /\ Accept(r, "confirm", "retrieve", [Idle EXCEPT !.row = s])

\* Mutant: the session is taken for paid without asking Stripe.
TrustClient(r) ==
    /\ req[r].step = "retrieve"
    /\ Goto(r, "findRow")
    /\ NoWrites

RetrieveSession(r) ==
    /\ req[r].step = "retrieve"
    /\ IF session[req[r].row] = "paid" THEN Goto(r, "findRow") ELSE Finish(r)
    /\ NoWrites

\* Mutant: a delivery is acknowledged before the payment is recorded.
FindRowAndAnswer(r) ==
    /\ req[r].step = "findRow"
    /\ LET s == req[r].row IN
       IF Stamped(s) /\ Pending(s) THEN Goto(r, "record") ELSE Finish(r)
    /\ due' = due \ {req[r].row}
    /\ UNCHANGED <<subs, orgVars, session, storeVars, calls, failures>>

\* applyPaidSubscriptionSession: "was it applied already?" is only asked here.
FindRow(r) ==
    /\ req[r].step = "findRow"
    /\ IF Stamped(req[r].row) /\ Pending(req[r].row)
       THEN Goto(r, "record") /\ NoWrites
       ELSE Answer(r) /\ UNCHANGED subs

\* The year starts when the payment is recorded, and again when a second
\* delivery records it once more.
RecordPayment(r) ==
    /\ req[r].step = "record"
    /\ subs' = [subs EXCEPT ![req[r].row].status = "ACTIVE"]
    /\ over' = over \ {<<"row", req[r].row>>}
    /\ Goto(r, "receipt")
    /\ UNCHANGED <<suspended, oldest, stripeVars, storeVars, calls, failures>>

\* sendSubscriptionReceipt; a mail that cannot be sent is only logged.
SendReceipt(r) ==
    /\ req[r].step = "receipt"
    /\ Answer(r)
    /\ UNCHANGED subs

(***************************************************************************)
(* iOS: the subscription is bought on the device for one organization and  *)
(* Apple renews it; RevenueCat notifies each period until acknowledged.    *)
(***************************************************************************)
Latest(t) == bought[t] # Nowhere /\ \A u \in Txns : u > t => bought[u] = Nowhere

\* A period starts when none is running: the user buys, or Apple renews.
StartPeriod == \E t \in Txns :
    /\ Spend("period")
    /\ bought[t] = Nowhere
    /\ \A u \in Txns : u < t => bought[u] # Nowhere /\ <<"period", u>> \in over
    /\ \E o \in Organizations :
          /\ t > 1 => o = bought[t - 1]
          /\ bought' = [bought EXCEPT ![t] = o]
    /\ notices' = notices \cup {t}
    /\ UNCHANGED <<subs, orgVars, stripeVars, req, failures>>

\* The app asks for the organization it bought the subscription for.
StartConfirmIap(r) == \E t \in Txns :
    /\ Latest(t)
    /\ bought[t] \notin suspended
    /\ Accept(r, "confirmIap", "check", [Idle EXCEPT !.organization = bought[t]])

\* fetchSubscriberUntil: RevenueCat's records may lag behind the store; the
\* newest period they show must still be running.
FetchSubscriber(r) ==
    /\ req[r].step = "fetch"
    /\ \/ \E t \in Txns :
             /\ bought[t] # Nowhere
             /\ <<"period", t>> \notin over
             /\ req' = [req EXCEPT ![r].step = "findTxn", ![r].txn = t]
       \/ Finish(r)
    /\ NoWrites

Notify(r, t) ==
    /\ t \in notices
    /\ req[r].step = "idle"
    /\ req' = [req EXCEPT ![r] = [Idle EXCEPT !.op = "notice", !.step = "attribute",
                                             !.txn = t]]
    /\ NoWrites

\* handleRevenueCatSubscriptionWebhookEvent: the event names the user only.
Attribute(r) ==
    /\ req[r].step = "attribute"
    /\ IF oldest = Nowhere
       THEN Answer(r) /\ UNCHANGED subs
       ELSE /\ req' = [req EXCEPT ![r].step = "findTxn", ![r].organization = oldest]
            /\ NoWrites

\* Mutant: a notification is acknowledged before its period is recorded.
FindTransactionAndAnswer(r) ==
    /\ req[r].step = "findTxn"
    /\ IF Recorded(req[r].txn) THEN Finish(r) ELSE Goto(r, "recordIap")
    /\ notices' = notices \ {req[r].txn}
    /\ UNCHANGED <<subs, orgVars, stripeVars, bought, calls, failures>>

FindTransaction(r) ==
    /\ req[r].step = "findTxn"
    /\ IF Recorded(req[r].txn) THEN Answer(r) /\ UNCHANGED subs
                               ELSE Goto(r, "recordIap") /\ NoWrites

\* Mutant: no unique index on revenueCatTransactionId.
RecordPeriodAgain(r) ==
    /\ req[r].step = "recordIap"
    /\ Create("ACTIVE", req[r].organization, req[r].txn)
    /\ Goto(r, "receipt")
    /\ OnlyRows

\* The unique index refuses a second row for the period: the request fails
\* and, for a notification, is not acknowledged.
RecordPeriod(r) ==
    /\ req[r].step = "recordIap"
    /\ \/ /\ ~Recorded(req[r].txn)
          /\ Create("ACTIVE", req[r].organization, req[r].txn)
          /\ Goto(r, "receipt")
       \/ /\ Recorded(req[r].txn)
          /\ Finish(r)
          /\ UNCHANGED subs
    /\ OnlyRows

(***************************************************************************)
(* Time, the super admin and the buyer's memberships.                      *)
(***************************************************************************)
\* An expiry date passes.
Expire == \E x \in ({"row"} \X Rows) \cup ({"period"} \X Txns) :
    /\ Spend("expire")
    /\ \/ x[1] = "row" /\ subs[x[2]].status = "ACTIVE" /\ subs[x[2]].txn = None
       \/ x[1] = "period" /\ bought[x[2]] # Nowhere
    /\ x \notin over
    /\ over' = over \cup {x}
    /\ UNCHANGED <<subs, suspended, oldest, stripeVars, storeVars, req, failures>>

ChangeSuspension == \E o \in Organizations :
    /\ Spend("suspension")
    /\ suspended' = IF o \in suspended THEN suspended \ {o} ELSE suspended \cup {o}
    /\ UNCHANGED <<subs, over, oldest, stripeVars, storeVars, req, failures>>

\* The buyer leaves the oldest organization, or the last one.
ChangeMembership == \E o \in Organizations \cup {Nowhere} :
    /\ Spend("membership")
    /\ oldest' = o
    /\ UNCHANGED <<subs, over, suspended, stripeVars, storeVars, req, failures>>

\* A request is lost between two of its steps.
Fail(r) ==
    /\ req[r].step # "idle"
    /\ failures < MaxFailures
    /\ failures' = failures + 1
    /\ Finish(r)
    /\ UNCHANGED <<subs, orgVars, stripeVars, storeVars, calls>>

Start(r) ==
    StartSubscribe(r) \/ StartConfirm(r) \/ StartConfirmIap(r) \/ Redeliver(r)

Proceed(r) ==
    \/ CheckNotSubscribed(r) \/ CreateActive(r) \/ CreatePending(r)
    \/ CreateCheckout(r) \/ StampSession(r) \/ Respond(r)
    \/ RetrieveSession(r) \/ FindRow(r) \/ RecordPayment(r) \/ SendReceipt(r)
    \/ FetchSubscriber(r) \/ Attribute(r) \/ FindTransaction(r) \/ RecordPeriod(r)

Outside ==
    \/ StartPeriod \/ Expire \/ ChangeSuspension \/ ChangeMembership
    \/ \E s \in Rows : Pay(s)

Next ==
    \/ \E r \in Requests : Start(r) \/ Proceed(r) \/ Fail(r)
    \/ \E r \in Requests, s \in Rows : Deliver(r, s)
    \/ \E r \in Requests, t \in Txns : Notify(r, t)
    \/ Outside

Spec == Init /\ [][Next]_vars

\* A request that is not lost runs to its end; Stripe and RevenueCat deliver
\* an event until a request slot has acknowledged it.
Fairness ==
    /\ \A r \in Requests : WF_vars(Proceed(r))
    /\ \A s \in Rows : WF_vars(\E r \in Requests : Deliver(r, s))
    /\ \A t \in Txns : WF_vars(\E r \in Requests : Notify(r, t))

FairSpec == Spec /\ Fairness

--------------------------------------------------------------------------------
(***************************************************************************)
(* Properties                                                              *)
(***************************************************************************)
\* The columns, the outside services and the handlers' locals hold values of
\* their types.
TypeOK ==
    /\ subs \in [Rows -> Row]
    /\ over \subseteq ({"row"} \X Rows) \cup ({"period"} \X Txns)
    /\ suspended \subseteq Organizations
    /\ oldest \in Organizations \cup {Nowhere}
    /\ session \in [Rows -> {"none", "created", "offered", "paid"}]
    /\ due \subseteq Rows
    /\ bought \in [Txns -> Organizations \cup {Nowhere}]
    /\ notices \subseteq Txns
    /\ req \in [Requests -> Request]
    /\ calls \in Nat
    /\ failures \in Nat

\* A subscription is ACTIVE only against a paid session, a bought period or a
\* free price (applyPaidSubscriptionSession, applyPaidSubscriptionViaIap).
ActiveWasPaid ==
    \A s \in Rows : subs[s].status = "ACTIVE" =>
        \/ Price = 0
        \/ session[s] = "paid"
        \/ subs[s].txn # None /\ bought[subs[s].txn] # Nowhere

\* However confirmations and notifications race, one App Store period never
\* makes two subscriptions (schema.prisma:903, the unique index).
PeriodRecordedOnce ==
    \A s, p \in Rows :
        (s # p /\ subs[s].txn # None) => subs[s].txn # subs[p].txn

(***************************************************************************)
(* The promise of PaymentLedger, read off the rows and Stripe's sessions.  *)
(***************************************************************************)
Stage(s) ==
    CASE ~Stamped(s) -> "none"
      [] Stamped(s) /\ subs[s].status = "ACTIVE" -> "recorded"
      [] Stamped(s) /\ Pending(s) /\ session[s] = "paid" -> "paid"
      [] OTHER -> "payable"

Stages == [s \in Rows |-> Stage(s)]

Ledger == INSTANCE PaymentLedger WITH Checkouts <- Rows, stage <- Stages

\* Each checkout goes from payable to paid to recorded, in that order and one way
\* (subscribe, applyPaidSubscriptionSession).
KeepsLedger == Ledger!Spec

(***************************************************************************)
(* The inductive invariant behind ActiveWasPaid and KeepsLedger.           *)
(***************************************************************************)
Opening == {"checkout", "stamp", "respond"}

\* What a request in flight may rely on about the row or period it works for.
HandlerInv(r) ==
    LET s == req[r].row IN
    /\ req[r].step \in Opening => s \in Rows /\ Pending(s) /\ subs[s].txn = None
    /\ req[r].step = "checkout" => ~Stamped(s) /\ session[s] = "none"
    /\ req[r].step = "stamp" => ~Stamped(s) /\ session[s] = "created"
    /\ req[r].step = "respond" => Stamped(s) /\ session[s] = "created"
    /\ req[r].step = "retrieve" => s \in Rows
    /\ req[r].step \in {"findRow", "record"} => s \in Rows /\ session[s] = "paid"
    /\ req[r].step = "record" => Stamped(s)
    /\ req[r].step = "createActive" => Price = 0
    /\ req[r].step \in {"attribute", "findTxn", "recordIap"} =>
          req[r].txn \in Txns /\ bought[req[r].txn] # Nowhere

HandlersInv == \A r \in Requests : HandlerInv(r)

\* Two requests never open a checkout for the same row.
OpeningsInv ==
    \A r, q \in Requests :
        (r # q /\ req[r].step \in Opening /\ req[q].step \in Opening) =>
            req[r].row # req[q].row

SessionsInv ==
    /\ \A s \in Rows :
          /\ session[s] \in {"offered", "paid"} => Stamped(s)
          /\ subs[s] = NoRow => session[s] = "none"
          /\ Stamped(s) => subs[s].status # "NONE"
    /\ \A s \in due : session[s] = "paid"
    /\ \A t \in notices : bought[t] # Nowhere

SubscriptionsInv ==
    TypeOK /\ HandlersInv /\ OpeningsInv /\ SessionsInv /\ ActiveWasPaid

\* payments-webhook.controller.ts:56: with Stripe delivering until acknowledged,
\* what a customer paid is eventually recorded, whatever requests are lost.
PaidIsRecorded == \A s \in Rows : Stage(s) = "paid" ~> Stage(s) = "recorded"

\* If the buyer always administers some organization, every period Apple charged
\* for ends up as a subscription, even if the app's confirmation is lost or
\* refused (handleRevenueCatSubscriptionWebhookEvent).
PeriodIsRecorded ==
    [](oldest # Nowhere) => \A t \in Txns : bought[t] # Nowhere ~> Recorded(t)

\* organizations.service.ts:214 "rejected rather than stacking/extending, keeping
\* "one active row at a time" simple": no organization has two running subscriptions.
OneActiveRow ==
    \A s, p \in Rows :
        (s # p /\ Running(s) /\ Running(p)) => subs[s].organization # subs[p].organization

\* organizations.service.ts:563 "resolved back to their organization the same way
\* the rest of the app derives it": a period benefits the one it was bought for.
CreditedToBuyer ==
    \A s \in Rows : subs[s].txn # None => subs[s].organization = bought[subs[s].txn]
================================================================================
