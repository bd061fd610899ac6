------------------------------ MODULE Publication ------------------------------
(***************************************************************************)
(* The publication of one tournament: its life cycle, the publication      *)
(* orders that pay for it, and the three ways an order gets paid           *)
(* (TournamentsService; Stripe Checkout, a free tier, an iOS purchase).    *)
(* A handler is a sequence of steps, one per awaited query or outside      *)
(* call (queries issued together by one Promise.all, and the queries of    *)
(* one read-only check, are one step).  The database gives no isolation    *)
(* between steps; an array passed to $transaction is one step.             *)
(***************************************************************************)
EXTENDS Integers, FiniteSetsExt

CONSTANTS
    FreeMaxTeams,  \* TOURNAMENT_PUBLICATION_TIER_FREE_MAX_TEAMS
    MidMaxTeams,   \* TOURNAMENT_PUBLICATION_TIER_MID_MAX_TEAMS
    MidPrice,      \* price of the STANDARD tier
    HighPrice,     \* price of the LARGE tier
    InitialTeams,  \* team counts the tournament may start with
    Batches,       \* numbers of teams added by one call
    Requests,      \* the requests the API serves concurrently
    Operations,    \* the calls and outside events considered
    MaxCalls,      \* bound: calls and outside events in one behaviour
    MaxFailures    \* bound: requests lost half-way

ASSUME Tiers ==
    /\ FreeMaxTeams \in Nat /\ MidMaxTeams \in Nat
    /\ MidPrice \in Nat /\ HighPrice \in Nat

ASSUME Bounds ==
    /\ MaxCalls \in Nat /\ MaxFailures \in Nat
    /\ InitialTeams \subseteq Nat /\ Batches \subseteq Nat \ {0}

VARIABLES
    status,      \* Tournament.status
    archivedAt,  \* Tournament.archivedAt is set
    teams,       \* number of Team rows
    ready,       \* assertReadyToPublish would pass
    subscribed,  \* hasActiveSubscription
    suspended,   \* Organization.suspendedAt is set
    orders,      \* the TournamentPublicationOrder rows
    session,     \* Stripe: the checkout session created for each order
    due,         \* Stripe: sessions whose webhook delivery was not acknowledged
    bought,      \* StoreKit: the product bought by each transaction
    req,         \* what each request in flight does next, and what it has read
    calls,       \* calls still to come
    failures     \* requests lost so far

tournamentVars == <<status, archivedAt, teams, ready>>
orgVars == <<subscribed, suspended>>
stripeVars == <<session, due>>
vars == <<status, archivedAt, teams, ready, subscribed, suspended, orders,
          session, due, bought, req, calls, failures>>

\* A call creates at most one order, and buys at most once.
Orders == 1 .. MaxCalls
Txns == 1 .. MaxCalls
NoTxn == 0
NoSession == 0

Statuses == {"DRAFT", "PUBLISHED", "UNPUBLISHED", "ARCHIVED"}

Products == {"STANDARD", "LARGE", "UPGRADE"}

NoOrder == [status |-> "NONE", tier |-> 0, session |-> NoSession, txn |-> NoTxn]

\* session is stripeCheckoutSessionId: the session made for order o is called o.
Order == [status : {"NONE", "PENDING_PAYMENT", "PAID"}, tier : Nat,
          session : Orders \cup {NoSession}, txn : Txns \cup {NoTxn}]

Stamped(o) == orders[o].session # NoSession

Pending(o) == orders[o].status = "PENDING_PAYMENT"

PaidOrders == {o \in Orders : orders[o].status = "PAID"}

PaidCents == MapThenSumSet(LAMBDA o : orders[o].tier, PaidOrders)

Fee(n) ==
    CASE n <= FreeMaxTeams -> 0
      [] n > FreeMaxTeams /\ n <= MidMaxTeams -> MidPrice
      [] OTHER -> HighPrice

IapPrice(p) ==
    CASE p = "STANDARD" -> MidPrice
      [] p = "LARGE" -> HighPrice
      [] p = "UPGRADE" -> IF HighPrice > MidPrice THEN HighPrice - MidPrice ELSE 0

(***************************************************************************)
(* Requests in flight                                                      *)
(***************************************************************************)
Steps == {"idle",
          "load", "ready", "price",                   \* the three paying calls
          "createFree", "setPublished",
          "createOrder", "checkout", "stamp", "respond",
          "retrieve", "findOrder", "record", "receipt",  \* Stripe payments
          "readTxns", "fetch", "checkTxn", "recordIap",  \* iOS purchases
          "setUnpublished", "setArchived", "setDraft",
          "gateStatus", "gateTier", "insert", "delete"}  \* TeamsService

Ops == {"none", "publish", "payForTier", "payForTeams", "confirm", "webhook",
        "confirmIap", "unpublish", "archive", "unarchive", "addTeams", "removeTeam"}

Idle == [op |-> "none", step |-> "idle", order |-> 0, amount |-> 0, count |-> 0,
         product |-> "STANDARD", txn |-> NoTxn, seen |-> {}]

Request == [op : Ops, step : Steps, order : Orders \cup {0}, amount : Nat,
            count : Nat, product : Products, txn : Txns \cup {NoTxn},
            seen : SUBSET Txns]

Init ==
    /\ status = "DRAFT"
    /\ archivedAt = FALSE
    /\ teams \in InitialTeams
    /\ ready \in BOOLEAN
    /\ subscribed = FALSE
    /\ suspended = FALSE
    /\ orders = [o \in Orders |-> NoOrder]
    /\ session = [o \in Orders |-> "none"]
    /\ due = {}
    /\ bought = [t \in Txns |-> "NONE"]
    /\ req = [r \in Requests |-> Idle]
    /\ calls = MaxCalls
    /\ failures = 0

Spend(op) == op \in Operations /\ calls > 0 /\ calls' = calls - 1

\* A request arrives and its first check passes.
Accept(r, op, step, state) ==
    /\ Spend(op)
    /\ req[r].step = "idle"
    /\ req' = [req EXCEPT ![r] = [state EXCEPT !.op = op, !.step = step]]
    /\ UNCHANGED <<tournamentVars, orgVars, orders, stripeVars, bought, failures>>

Goto(r, step) == req' = [req EXCEPT ![r].step = step]

Finish(r) == req' = [req EXCEPT ![r] = Idle]

\* A step that only reads.
NoWrites == UNCHANGED <<tournamentVars, orgVars, orders, stripeVars, bought, calls, failures>>

\* Only the tournament's status is written.
OnlyStatus == UNCHANGED <<archivedAt, teams, ready, orgVars, orders, stripeVars,
                          bought, calls, failures>>

\* The row created next.
Fresh(o) == orders[o] = NoOrder /\ \A p \in Orders : p < o => orders[p] # NoOrder

(***************************************************************************)
(* publish, payForTournamentTier and payForTeamAdditionTier: the checks,   *)
(* the price of what is not paid for yet, and a checkout for it.           *)
(***************************************************************************)
StartPublish(r) == ~suspended /\ Accept(r, "publish", "load", Idle)

StartPayForTier(r) == \E price \in {MidPrice, HighPrice} :
    ~suspended /\ Accept(r, "payForTier", "load", [Idle EXCEPT !.amount = price])

StartPayForTeams(r) == \E k \in Batches :
    ~suspended /\ Accept(r, "payForTeams", "load", [Idle EXCEPT !.count = k])

\* getOrThrow and assertEditable; confirmPublicationPaymentViaIap passes here too.
Load(r) ==
    /\ req[r].step = "load"
    /\ CASE status = "ARCHIVED" -> Finish(r)
         [] status # "ARCHIVED" /\ req[r].op = "publish" -> Goto(r, "ready")
         [] status # "ARCHIVED" /\ req[r].op = "confirmIap" -> Goto(r, "readTxns")
         [] OTHER -> Goto(r, "price")
    /\ NoWrites

CheckReady(r) ==
    /\ req[r].step = "ready"
    /\ IF ready THEN Goto(r, "price") ELSE Finish(r)
    /\ NoWrites

Required(r) ==
    CASE req[r].op = "payForTier" -> req[r].amount
      [] req[r].op # "payForTier" /\ subscribed -> 0
      [] OTHER -> Fee(teams + req[r].count)

\* Only the gap between what is required and what has been paid is charged.
Price(r) ==
    /\ req[r].step = "price"
    /\ \/ \E gap \in 1 .. Required(r) :
             /\ PaidCents + gap = Required(r)
             /\ req' = [req EXCEPT ![r].step = "createOrder", ![r].amount = gap]
       \/ /\ Required(r) <= PaidCents
          /\ IF req[r].op # "publish" THEN Finish(r)
             ELSE Goto(r, IF PaidOrders # {} THEN "setPublished" ELSE "createFree")
    /\ NoWrites

\* Mutant: the tournament is published before its free order exists.
CreateFreeOrderLater(r) ==
    /\ req[r].step = "createFree"
    /\ Goto(r, "setPublished")
    /\ status' = "PUBLISHED"
    /\ OnlyStatus

CreateFreeOrder(r) ==
    /\ req[r].step = "createFree"
    /\ \E o \in Orders :
          /\ Fresh(o)
          /\ orders' = [orders EXCEPT ![o] = [NoOrder EXCEPT !.status = "PAID"]]
    /\ Goto(r, "setPublished")
    /\ UNCHANGED <<tournamentVars, orgVars, stripeVars, bought, calls, failures>>

SetPublished(r) ==
    /\ req[r].step = "setPublished"
    /\ status' = "PUBLISHED"
    /\ Finish(r)
    /\ OnlyStatus

\* createPendingPublicationCheckout: the row, then the session, then the
\* session's id on the row; only then does the client get the page's URL.
CreateOrder(r) ==
    /\ req[r].step = "createOrder"
    /\ \E o \in Orders :
          /\ Fresh(o)
          /\ orders' = [orders EXCEPT ![o] = [NoOrder EXCEPT !.status = "PENDING_PAYMENT",
                                                             !.tier = req[r].amount]]
          /\ req' = [req EXCEPT ![r].step = "checkout", ![r].order = o]
    /\ UNCHANGED <<tournamentVars, orgVars, stripeVars, bought, calls, failures>>

\* Mutant: the client is sent to the page before its session is on the row.
CreateCheckoutAndRespond(r) ==
    /\ req[r].step = "checkout"
    /\ session' = [session EXCEPT ![req[r].order] = "offered"]
    /\ Goto(r, "stamp")
    /\ UNCHANGED <<tournamentVars, orgVars, orders, due, bought, calls, failures>>

CreateCheckout(r) ==
    /\ req[r].step = "checkout"
    /\ session' = [session EXCEPT ![req[r].order] = "created"]
    /\ Goto(r, "stamp")
    /\ UNCHANGED <<tournamentVars, orgVars, orders, due, bought, calls, failures>>

StampSession(r) ==
    /\ req[r].step = "stamp"
    /\ orders' = [orders EXCEPT ![req[r].order].session = req[r].order]
    /\ Goto(r, "respond")
    /\ UNCHANGED <<tournamentVars, orgVars, stripeVars, bought, calls, failures>>

Respond(r) ==
    /\ req[r].step = "respond"
    /\ session' = [session EXCEPT ![req[r].order] = "offered"]
    /\ Finish(r)
    /\ UNCHANGED <<tournamentVars, orgVars, orders, due, bought, calls, failures>>

(***************************************************************************)
(* Stripe: the customer pays a page that was handed out, and the event is  *)
(* delivered until an answer acknowledges it, possibly several times and   *)
(* while an earlier delivery is still being handled.                       *)
(***************************************************************************)
Pay(o) ==
    /\ session[o] = "offered"
    /\ session' = [session EXCEPT ![o] = "paid"]
    /\ due' = due \cup {o}
    /\ UNCHANGED <<tournamentVars, orgVars, orders, bought, req, calls, failures>>

Deliver(r, o) ==
    /\ o \in due
    /\ req[r].step = "idle"
    /\ req' = [req EXCEPT ![r] = [Idle EXCEPT !.op = "webhook", !.step = "findOrder",
                                             !.order = o]]
    /\ NoWrites

Redeliver(r) == \E o \in Orders :
    /\ session[o] = "paid"
    /\ Accept(r, "webhook", "findOrder", [Idle EXCEPT !.order = o])

\* The handler answers; a webhook's answer acknowledges the event.
Answer(r) ==
    /\ Finish(r)
    /\ due' = IF req[r].op = "webhook" THEN due \ {req[r].order} ELSE due

\* confirmPublicationPayment: the browser comes back with the session's id.
StartConfirm(r) == \E o \in Orders :
    /\ Stamped(o) /\ Pending(o)
    /\ session[o] \in {"offered", "paid"}
    /\ Accept(r, "confirm", "retrieve", [Idle EXCEPT !.order = o])

RetrieveSession(r) ==
    /\ req[r].step = "retrieve"
    /\ IF session[req[r].order] = "paid" THEN Goto(r, "findOrder") ELSE Finish(r)
    /\ NoWrites

\* Mutant: a delivery is acknowledged before the payment is recorded.
FindOrderAndAnswer(r) ==
    /\ req[r].step = "findOrder"
    /\ LET o == req[r].order IN
       IF Stamped(o) /\ Pending(o) THEN Goto(r, "record") ELSE Finish(r)
    /\ due' = due \ {req[r].order}
    /\ UNCHANGED <<tournamentVars, orgVars, orders, session, bought, calls, failures>>

\* applyPaidPublicationSession: "was it applied already?" is only asked here.
FindOrder(r) ==
    /\ req[r].step = "findOrder"
    /\ LET o == req[r].order IN
       \/ /\ Stamped(o) /\ Pending(o)
          /\ Goto(r, "record")
          /\ UNCHANGED due
       \/ /\ ~(Stamped(o) /\ Pending(o))
          /\ Answer(r)
    /\ UNCHANGED <<tournamentVars, orgVars, orders, session, bought, calls, failures>>

\* One transaction: the order is PAID and the tournament PUBLISHED.
RecordPayment(r) ==
    /\ req[r].step = "record"
    /\ orders' = [orders EXCEPT ![req[r].order].status = "PAID"]
    /\ status' = "PUBLISHED"
    /\ Goto(r, "receipt")
    /\ UNCHANGED <<archivedAt, teams, ready, orgVars, stripeVars, bought, calls, failures>>

\* sendPublicationReceipt; a mail that cannot be sent is only logged.
SendReceipt(r) ==
    /\ req[r].step = "receipt"
    /\ Answer(r)
    /\ UNCHANGED <<tournamentVars, orgVars, orders, session, bought, calls, failures>>

(***************************************************************************)
(* iOS: the purchase is made on the device, then the app asks the API to   *)
(* confirm it against RevenueCat's records, which may lag.  RevenueCat's   *)
(* own webhook only logs, so it is no action here.                         *)
(***************************************************************************)
Buy == \E t \in Txns, p \in Products :
    /\ Spend("buy")
    /\ bought[t] = "NONE" /\ \A u \in Txns : u < t => bought[u] # "NONE"
    /\ bought' = [bought EXCEPT ![t] = p]
    /\ UNCHANGED <<tournamentVars, orgVars, orders, stripeVars, req, failures>>

StartConfirmIap(r) == \E p \in Products :
    /\ ~suspended
    /\ IapPrice(p) > 0
    /\ Accept(r, "confirmIap", "load", [Idle EXCEPT !.product = p, !.amount = IapPrice(p)])

ReadTransactions(r) ==
    /\ req[r].step = "readTxns"
    /\ req' = [req EXCEPT ![r].step = "fetch",
                          ![r].seen = {orders[o].txn : o \in Orders} \ {NoTxn}]
    /\ NoWrites

\* The newest purchase of the product, among those RevenueCat shows already,
\* that no order has.
FetchSubscriber(r) ==
    /\ req[r].step = "fetch"
    /\ \E visible \in {1 .. n : n \in 0 .. MaxCalls} :
          LET new == {t \in visible \ req[r].seen : bought[t] = req[r].product} IN
          \/ \E t \in new :
                /\ \A u \in new : u <= t
                /\ req' = [req EXCEPT ![r].step = "checkTxn", ![r].txn = t]
          \/ /\ new = {}
             /\ Finish(r)
    /\ NoWrites

Recorded(t) == \E o \in Orders : orders[o].txn = t

CheckTransaction(r) ==
    /\ req[r].step = "checkTxn"
    /\ IF Recorded(req[r].txn) THEN Finish(r) ELSE Goto(r, "recordIap")
    /\ NoWrites

PaidPurchase(r) == [NoOrder EXCEPT !.status = "PAID", !.tier = req[r].amount,
                                   !.txn = req[r].txn]

\* Mutant: no unique index on revenueCatTransactionId.
RecordPurchaseAgain(r) ==
    /\ req[r].step = "recordIap"
    /\ \E o \in Orders : Fresh(o) /\ orders' = [orders EXCEPT ![o] = PaidPurchase(r)]
    /\ status' = "PUBLISHED"
    /\ Goto(r, "receipt")
    /\ UNCHANGED <<archivedAt, teams, ready, orgVars, stripeVars, bought, calls, failures>>

\* One transaction, aborted when another order has taken the transaction id.
RecordPurchase(r) ==
    /\ req[r].step = "recordIap"
    /\ \/ /\ ~Recorded(req[r].txn)
          /\ \E o \in Orders : Fresh(o) /\ orders' = [orders EXCEPT ![o] = PaidPurchase(r)]
          /\ status' = "PUBLISHED"
          /\ Goto(r, "receipt")
       \/ /\ Recorded(req[r].txn)
          /\ Finish(r)
          /\ UNCHANGED <<orders, status>>
    /\ UNCHANGED <<archivedAt, teams, ready, orgVars, stripeVars, bought, calls, failures>>

(***************************************************************************)
(* unpublish, archive, unarchive: a check on the status read, then an      *)
(* unconditional update.                                                   *)
(***************************************************************************)
StartUnpublish(r) == status = "PUBLISHED" /\ Accept(r, "unpublish", "setUnpublished", Idle)

StartArchive(r) == status # "ARCHIVED" /\ Accept(r, "archive", "setArchived", Idle)

StartUnarchive(r) == status = "ARCHIVED" /\ Accept(r, "unarchive", "setDraft", Idle)

SetUnpublished(r) ==
    /\ req[r].step = "setUnpublished"
    /\ status' = "UNPUBLISHED"
    /\ Finish(r)
    /\ OnlyStatus

SetArchived(r) ==
    /\ req[r].step = "setArchived"
    /\ status' = "ARCHIVED"
    /\ archivedAt' = TRUE
    /\ Finish(r)
    /\ UNCHANGED <<teams, ready, orgVars, orders, stripeVars, bought, calls, failures>>

SetDraft(r) ==
    /\ req[r].step = "setDraft"
    /\ status' = "DRAFT"
    /\ archivedAt' = FALSE
    /\ Finish(r)
    /\ UNCHANGED <<teams, ready, orgVars, orders, stripeVars, bought, calls, failures>>

(***************************************************************************)
(* TeamsService.create (one team), importFromCsv (a batch) and remove, as  *)
(* far as the number of teams goes.                                        *)
(***************************************************************************)
StartAddTeams(r) == \E k \in Batches :
    status # "ARCHIVED" /\ Accept(r, "addTeams", "gateStatus", [Idle EXCEPT !.count = k])

\* assertTeamAdditionAllowed: only a published tournament is locked to its tier.
GateStatus(r) ==
    /\ req[r].step = "gateStatus"
    /\ Goto(r, IF status = "PUBLISHED" THEN "gateTier" ELSE "insert")
    /\ NoWrites

\* Mutant: the batch is priced without its last team.
AllowedWithoutLast(r) == subscribed \/ Fee(teams + req[r].count - 1) <= PaidCents

Allowed(r) == subscribed \/ Fee(teams + req[r].count) <= PaidCents

GateTier(r) ==
    /\ req[r].step = "gateTier"
    /\ IF Allowed(r) THEN Goto(r, "insert") ELSE Finish(r)
    /\ NoWrites

\* One row per team; a row that is refused (name taken, unknown category) is skipped.
InsertTeam(r) ==
    /\ req[r].step = "insert"
    /\ teams' \in {teams, teams + 1}
    /\ IF req[r].count > 1 THEN req' = [req EXCEPT ![r].count = @ - 1] ELSE Finish(r)
    /\ UNCHANGED <<status, archivedAt, ready, orgVars, orders, stripeVars, bought,
                   calls, failures>>

StartRemoveTeam(r) ==
    status # "ARCHIVED" /\ teams > 0 /\ Accept(r, "removeTeam", "delete", Idle)

\* The delete throws when another request has deleted the team first.
DeleteTeam(r) ==
    /\ req[r].step = "delete"
    /\ \/ teams > 0 /\ teams' = teams - 1
       \/ UNCHANGED teams
    /\ Finish(r)
    /\ UNCHANGED <<status, archivedAt, ready, orgVars, orders, stripeVars, bought,
                   calls, failures>>

(***************************************************************************)
(* What the rest of the API does to this tournament and its organization,  *)
(* each as one write: the structure of a category is chosen or removed, a  *)
(* subscription starts or expires, a super admin suspends or reinstates,   *)
(* and a player's paid registration adds a team.                           *)
(***************************************************************************)
ChangeStructure ==
    /\ Spend("structure")
    /\ ready' = ~ready
    /\ UNCHANGED <<status, archivedAt, teams, orgVars, orders, stripeVars, bought,
                   req, failures>>

ChangeSubscription ==
    /\ Spend("subscription")
    /\ subscribed' = ~subscribed
    /\ UNCHANGED <<tournamentVars, suspended, orders, stripeVars, bought, req, failures>>

ChangeSuspension ==
    /\ Spend("suspension")
    /\ suspended' = ~suspended
    /\ UNCHANGED <<tournamentVars, subscribed, orders, stripeVars, bought, req, failures>>

RegisterTeam ==
    /\ Spend("registration")
    /\ teams' = teams + 1
    /\ UNCHANGED <<status, archivedAt, ready, orgVars, orders, stripeVars, bought,
                   req, failures>>

(***************************************************************************)
(* A request is lost between two of its steps: an error, a timeout, a      *)
(* stopped process.  A lost webhook request is not acknowledged.           *)
(***************************************************************************)
Fail(r) ==
    /\ req[r].step # "idle"
    /\ failures < MaxFailures
    /\ failures' = failures + 1
    /\ Finish(r)
    /\ UNCHANGED <<tournamentVars, orgVars, orders, stripeVars, bought, calls>>

Start(r) ==
    \/ StartPublish(r) \/ StartPayForTier(r) \/ StartPayForTeams(r)
    \/ StartConfirm(r) \/ StartConfirmIap(r) \/ Redeliver(r)
    \/ StartUnpublish(r) \/ StartArchive(r) \/ StartUnarchive(r)
    \/ StartAddTeams(r) \/ StartRemoveTeam(r)

Proceed(r) ==
    \/ Load(r) \/ CheckReady(r) \/ Price(r)
    \/ CreateFreeOrder(r) \/ SetPublished(r)
    \/ CreateOrder(r) \/ CreateCheckout(r) \/ StampSession(r) \/ Respond(r)
    \/ RetrieveSession(r) \/ FindOrder(r) \/ RecordPayment(r) \/ SendReceipt(r)
    \/ ReadTransactions(r) \/ FetchSubscriber(r) \/ CheckTransaction(r) \/ RecordPurchase(r)
    \/ SetUnpublished(r) \/ SetArchived(r) \/ SetDraft(r)
    \/ GateStatus(r) \/ GateTier(r) \/ InsertTeam(r) \/ DeleteTeam(r)

Outside ==
    \/ ChangeStructure \/ ChangeSubscription \/ ChangeSuspension
    \/ RegisterTeam \/ Buy
    \/ \E o \in Orders : Pay(o)

Next ==
    \/ \E r \in Requests : Start(r) \/ Proceed(r) \/ Fail(r)
    \/ \E r \in Requests, o \in Orders : Deliver(r, o)
    \/ Outside

Spec == Init /\ [][Next]_vars

\* A request that is not lost runs to its end, and Stripe keeps delivering an
\* event nobody has acknowledged to whichever request slot gets free.
Fairness ==
    /\ \A r \in Requests : WF_vars(Proceed(r))
    /\ \A o \in Orders : WF_vars(\E r \in Requests : Deliver(r, o))

FairSpec == Spec /\ Fairness

--------------------------------------------------------------------------------
(***************************************************************************)
(* Properties                                                              *)
(***************************************************************************)
\* The columns, the outside services and the handlers' locals hold values of
\* their types.
TypeOK ==
    /\ status \in Statuses
    /\ archivedAt \in BOOLEAN
    /\ teams \in Nat
    /\ ready \in BOOLEAN
    /\ subscribed \in BOOLEAN
    /\ suspended \in BOOLEAN
    /\ orders \in [Orders -> Order]
    /\ session \in [Orders -> {"none", "created", "offered", "paid"}]
    /\ due \subseteq Orders
    /\ bought \in [Txns -> Products \cup {"NONE"}]
    /\ req \in [Requests -> Request]
    /\ calls \in Nat
    /\ failures \in Nat

\* However calls, payments, webhooks and failures interleave (publish,
\* applyPaidPublicationSession, applyPaidPublicationViaIap), a tournament is
\* only ever PUBLISHED with a PAID order behind it.
PublishedWasPaid == status = "PUBLISHED" => PaidOrders # {}

\* tournaments.service.ts:818 "the DB's own @unique constraint [...] is the real
\* guard": concurrent confirmations never spend one App Store transaction on two orders.
TransactionSpentOnce ==
    \A o, p \in Orders :
        (o # p /\ orders[o].txn # NoTxn) => orders[o].txn # orders[p].txn

(***************************************************************************)
(* The promise of PaymentLedger, read off the rows and Stripe's sessions.  *)
(***************************************************************************)
Stage(o) ==
    CASE ~Stamped(o) -> "none"
      [] Stamped(o) /\ orders[o].status = "PAID" -> "recorded"
      [] Stamped(o) /\ Pending(o) /\ session[o] = "paid" -> "paid"
      [] OTHER -> "payable"

Stages == [o \in Orders |-> Stage(o)]

Ledger == INSTANCE PaymentLedger WITH Checkouts <- Orders, stage <- Stages

\* Each checkout goes from payable to paid to recorded, in that order and one way
\* (createPendingPublicationCheckout, applyPaidPublicationSession).
KeepsLedger == Ledger!Spec

(***************************************************************************)
(* The inductive invariant behind PublishedWasPaid and KeepsLedger.        *)
(***************************************************************************)
Opening == {"checkout", "stamp", "respond"}

\* What a request in flight may rely on about the order it works for.
HandlerInv(r) ==
    LET o == req[r].order IN
    /\ req[r].step \in Opening => o \in Orders /\ Pending(o)
    /\ req[r].step = "checkout" => ~Stamped(o) /\ session[o] = "none"
    /\ req[r].step = "stamp" => ~Stamped(o) /\ session[o] = "created"
    /\ req[r].step = "respond" => Stamped(o) /\ session[o] = "created"
    /\ req[r].step = "retrieve" => o \in Orders
    /\ req[r].step \in {"findOrder", "record"} => o \in Orders /\ session[o] = "paid"
    /\ req[r].step = "record" => Stamped(o)
    /\ req[r].step = "setPublished" => PaidOrders # {}

HandlersInv == \A r \in Requests : HandlerInv(r)

\* Two requests never open a checkout for the same order.
OpeningsInv ==
    \A r, q \in Requests :
        (r # q /\ req[r].step \in Opening /\ req[q].step \in Opening) =>
            req[r].order # req[q].order

SessionsInv ==
    /\ \A o \in Orders :
          /\ session[o] \in {"offered", "paid"} => Stamped(o)
          /\ orders[o] = NoOrder => session[o] = "none"
          /\ Stamped(o) => orders[o].status # "NONE"
    /\ \A o \in due : session[o] = "paid"

PublicationInv ==
    TypeOK /\ HandlersInv /\ OpeningsInv /\ SessionsInv /\ PublishedWasPaid

\* payments-webhook.controller.ts:50: with Stripe delivering until acknowledged,
\* what a customer paid is eventually recorded, whatever requests are lost.
PaidIsRecorded ==
    \A o \in Orders : Stage(o) = "paid" ~> Stage(o) = "recorded"

\* tournaments.service.ts:220 "it blocks a team being added past the paid tier":
\* a call that adds a team to a published tournament stays within what was paid.
TeamGateHolds ==
    [][(status = "PUBLISHED" /\ teams' > teams) =>
           (subscribed \/ Fee(teams') <= PaidCents)]_vars

\* tournaments.service.ts:223 "always charges exactly the gap [...], never less,
\* never double": what was paid always adds up to the price of one tier.
PaidTotalIsATierPrice == PaidCents \in {0, MidPrice, HighPrice}

\* tournaments.service.ts:1507 "Ce tournoi est archivé, désarchivez-le avant de le
\* modifier": only unarchive takes a tournament out of the archive.
ArchivedUntilUnarchived == archivedAt <=> status = "ARCHIVED"
================================================================================
