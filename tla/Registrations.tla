----------------------------- MODULE Registrations -----------------------------
(***************************************************************************)
(* Teams that players register for one published tournament, free or paid  *)
(* through Stripe Checkout (RegistrationsService), beside the teams its    *)
(* organizers create, rename and remove.  A registration asks whether its  *)
(* team's name is free when it is opened; the team itself, whose name is   *)
(* unique in the tournament, is only created once the registration is paid.*)
(* A handler is a sequence of steps, one per awaited query or outside call.*)
(***************************************************************************)
EXTENDS Integers

CONSTANTS
    Names,        \* team names
    Requests,     \* the requests the API serves concurrently
    Operations,   \* the calls and outside events considered
    MaxCalls,     \* bound: calls and outside events in one behaviour
    MaxFailures,  \* bound: requests lost half-way
    None,         \* no team has the name
    Unlinked      \* a team no registration points to

\* What is assumed of the constants.
Parameters ==
    /\ MaxCalls \in Nat /\ MaxFailures \in Nat
    /\ None # Unlinked /\ None \notin Nat /\ Unlinked \notin Nat

VARIABLES
    teams,          \* the Team row of each name, by the registration linked to it
    registrations,  \* the Registration rows
    session,        \* Stripe: the checkout session created for each registration
    due,            \* Stripe: sessions whose webhook delivery was not acknowledged
    req,            \* what each request in flight does next, and for what
    calls,          \* calls still to come
    failures        \* requests lost so far

vars == <<teams, registrations, session, due, req, calls, failures>>

\* A call opens at most one registration.
Registrations == 1 .. MaxCalls

NoRegistration == [status |-> "NONE", name |-> None, stamped |-> FALSE]

\* stamped: stripeCheckoutSessionId is set.
Registration == [status : {"NONE", "PENDING_PAYMENT", "PAID"}, name : Names \cup {None},
                 stamped : BOOLEAN]

Steps == {"idle", "create", "checkout", "stamp", "respond",
          "retrieve", "find", "materialize", "insert"}

Ops == {"none", "register", "registerFree", "confirm", "webhook", "addTeam"}

Idle == [op |-> "none", step |-> "idle", registration |-> 0, name |-> None]

Request == [op : Ops, step : Steps, registration : Registrations \cup {0},
            name : Names \cup {None}]

Init ==
    /\ teams = [n \in Names |-> None]
    /\ registrations = [o \in Registrations |-> NoRegistration]
    /\ session = [o \in Registrations |-> "none"]
    /\ due = {}
    /\ req = [r \in Requests |-> Idle]
    /\ calls = MaxCalls
    /\ failures = 0

Spend(op) == op \in Operations /\ calls > 0 /\ calls' = calls - 1

\* A request arrives and its first checks pass.
Accept(r, state) ==
    /\ Spend(state.op)
    /\ req[r].step = "idle"
    /\ req' = [req EXCEPT ![r] = state]
    /\ UNCHANGED <<teams, registrations, session, due, failures>>

Goto(r, step) == req' = [req EXCEPT ![r].step = step]

Finish(r) == req' = [req EXCEPT ![r] = Idle]

(***************************************************************************)
(* createForPlayer: the name is free, the row, then a team at once (a free *)
(* category) or the session, its id on the row and the page's URL.         *)
(***************************************************************************)
StartRegister(r) == \E n \in Names, op \in {"register", "registerFree"} :
    /\ teams[n] = None
    /\ Accept(r, [Idle EXCEPT !.op = op, !.step = "create", !.name = n])

Fresh(o) ==
    /\ registrations[o] = NoRegistration
    /\ \A p \in Registrations : p < o => registrations[p] # NoRegistration

CreateRegistration(r) ==
    /\ req[r].step = "create"
    /\ \E o \in Registrations :
          /\ Fresh(o)
          /\ registrations' = [registrations EXCEPT ![o] =
                [status |-> "PENDING_PAYMENT", name |-> req[r].name, stamped |-> FALSE]]
          /\ req' = [req EXCEPT
                ![r].step = IF req[r].op = "registerFree" THEN "materialize" ELSE "checkout",
                ![r].registration = o]
    /\ UNCHANGED <<teams, session, due, calls, failures>>

\* Mutant: the player is sent to the page before its session is on the row.
CreateCheckoutAndRespond(r) ==
    /\ req[r].step = "checkout"
    /\ session' = [session EXCEPT ![req[r].registration] = "offered"]
    /\ Goto(r, "stamp")
    /\ UNCHANGED <<teams, registrations, due, calls, failures>>

CreateCheckout(r) ==
    /\ req[r].step = "checkout"
    /\ session' = [session EXCEPT ![req[r].registration] = "created"]
    /\ Goto(r, "stamp")
    /\ UNCHANGED <<teams, registrations, due, calls, failures>>

StampSession(r) ==
    /\ req[r].step = "stamp"
    /\ registrations' = [registrations EXCEPT ![req[r].registration].stamped = TRUE]
    /\ Goto(r, "respond")
    /\ UNCHANGED <<teams, session, due, calls, failures>>

Respond(r) ==
    /\ req[r].step = "respond"
    /\ session' = [session EXCEPT ![req[r].registration] = "offered"]
    /\ Finish(r)
    /\ UNCHANGED <<teams, registrations, due, calls, failures>>

(***************************************************************************)
(* Stripe: the player pays a page that was handed out, and the event is    *)
(* delivered until an answer acknowledges it, possibly several times and   *)
(* while an earlier delivery is still being handled.                       *)
(***************************************************************************)
Pay(o) ==
    /\ session[o] = "offered"
    /\ session' = [session EXCEPT ![o] = "paid"]
    /\ due' = due \cup {o}
    /\ UNCHANGED <<teams, registrations, req, calls, failures>>

Delivery(o) == [Idle EXCEPT !.op = "webhook", !.step = "find", !.registration = o]

Deliver(r, o) ==
    /\ o \in due
    /\ req[r].step = "idle"
    /\ req' = [req EXCEPT ![r] = Delivery(o)]
    /\ UNCHANGED <<teams, registrations, session, due, calls, failures>>

Redeliver(r) == \E o \in Registrations : session[o] = "paid" /\ Accept(r, Delivery(o))

\* The handler answers; a webhook's answer acknowledges the event.
Answer(r) ==
    /\ Finish(r)
    /\ due' = IF req[r].op = "webhook" THEN due \ {req[r].registration} ELSE due

Awaited(o) == registrations[o].stamped /\ registrations[o].status = "PENDING_PAYMENT"

\* confirmRegistrationPayment: the browser comes back with the session's id.
StartConfirm(r) == \E o \in Registrations :
    /\ Awaited(o)
    /\ session[o] \in {"offered", "paid"}
    /\ Accept(r, [Idle EXCEPT !.op = "confirm", !.step = "retrieve", !.registration = o])

\* Mutant: the session's payment status is not looked at.
RetrieveAnySession(r) ==
    /\ req[r].step = "retrieve"
    /\ Goto(r, "find")
    /\ UNCHANGED <<teams, registrations, session, due, calls, failures>>

RetrieveSession(r) ==
    /\ req[r].step = "retrieve"
    /\ IF session[req[r].registration] = "paid" THEN Goto(r, "find") ELSE Finish(r)
    /\ UNCHANGED <<teams, registrations, session, due, calls, failures>>

\* Mutant: a delivery is acknowledged before the team exists.
FindRegistrationAndAnswer(r) ==
    /\ req[r].step = "find"
    /\ IF Awaited(req[r].registration) THEN Goto(r, "materialize") ELSE Finish(r)
    /\ due' = due \ {req[r].registration}
    /\ UNCHANGED <<teams, registrations, session, calls, failures>>

\* applyPaidRegistrationSession: "was it applied already?" is only asked here.
FindRegistration(r) ==
    /\ req[r].step = "find"
    /\ \/ /\ Awaited(req[r].registration)
          /\ Goto(r, "materialize")
          /\ UNCHANGED due
       \/ /\ ~Awaited(req[r].registration)
          /\ Answer(r)
    /\ UNCHANGED <<teams, registrations, session, calls, failures>>

(***************************************************************************)
(* materialize: one transaction creates the team and marks the             *)
(* registration PAID and linked to it (any earlier link is lost).  When    *)
(* the name is taken the transaction is rolled back and the handler throws:*)
(* a webhook delivery is then not acknowledged.                            *)
(***************************************************************************)
Materialize(r) ==
    /\ req[r].step = "materialize"
    /\ LET o == req[r].registration
           n == registrations[o].name
       IN
       \/ /\ teams[n] = None
          /\ teams' = [m \in Names |-> IF m = n THEN o
                                       ELSE IF teams[m] = o THEN Unlinked ELSE teams[m]]
          /\ registrations' = [registrations EXCEPT ![o].status = "PAID"]
          /\ Answer(r)
       \/ /\ teams[n] # None
          /\ Finish(r)
          /\ UNCHANGED <<teams, registrations, due>>
    /\ UNCHANGED <<session, calls, failures>>

(***************************************************************************)
(* TeamsService.create, update and remove.  The name asked for is free     *)
(* when create looks, and the unique index decides when it writes; update  *)
(* and remove are reduced to their write, which subsumes their checks.     *)
(***************************************************************************)
StartAddTeam(r) == \E n \in Names :
    /\ teams[n] = None
    /\ Accept(r, [Idle EXCEPT !.op = "addTeam", !.step = "insert", !.name = n])

InsertTeam(r) ==
    /\ req[r].step = "insert"
    /\ teams' = IF teams[req[r].name] = None
                THEN [teams EXCEPT ![req[r].name] = Unlinked]
                ELSE teams
    /\ Finish(r)
    /\ UNCHANGED <<registrations, session, due, calls, failures>>

RenameTeam == \E n, m \in Names :
    /\ Spend("renameTeam")
    /\ teams[n] # None /\ teams[m] = None
    /\ teams' = [teams EXCEPT ![n] = None, ![m] = teams[n]]
    /\ UNCHANGED <<registrations, session, due, req, failures>>

RemoveTeam == \E n \in Names :
    /\ Spend("removeTeam")
    /\ teams[n] # None
    /\ teams' = [teams EXCEPT ![n] = None]
    /\ UNCHANGED <<registrations, session, due, req, failures>>

\* A request is lost between two of its steps; a lost webhook is not acknowledged.
Fail(r) ==
    /\ req[r].step # "idle"
    /\ failures < MaxFailures
    /\ failures' = failures + 1
    /\ Finish(r)
    /\ UNCHANGED <<teams, registrations, session, due, calls>>

Start(r) == StartRegister(r) \/ StartConfirm(r) \/ Redeliver(r) \/ StartAddTeam(r)

Proceed(r) ==
    \/ CreateRegistration(r) \/ CreateCheckout(r) \/ StampSession(r) \/ Respond(r)
    \/ RetrieveSession(r) \/ FindRegistration(r) \/ Materialize(r)
    \/ InsertTeam(r)

Next ==
    \/ \E r \in Requests : Start(r) \/ Proceed(r) \/ Fail(r)
    \/ \E r \in Requests, o \in Registrations : Deliver(r, o)
    \/ \E o \in Registrations : Pay(o)
    \/ RenameTeam
    \/ RemoveTeam

Spec == Init /\ [][Next]_vars

\* A request that is not lost runs to its end.  Stripe retries each event on a
\* schedule of its own, whatever becomes of the others: its next delivery is
\* handled although the request slots of the model are busy again and again.
Fairness ==
    /\ \A r \in Requests : WF_vars(Proceed(r))
    /\ \A o \in Registrations : SF_vars(\E r \in Requests : Deliver(r, o))

FairSpec == Spec /\ Fairness

--------------------------------------------------------------------------------
(***************************************************************************)
(* Properties                                                              *)
(***************************************************************************)
\* Rows, sessions and the handlers' locals hold values of their types.
TypeOK ==
    /\ teams \in [Names -> Registrations \cup {None, Unlinked}]
    /\ registrations \in [Registrations -> Registration]
    /\ session \in [Registrations -> {"none", "created", "offered", "paid"}]
    /\ due \subseteq Registrations
    /\ req \in [Requests -> Request]
    /\ calls \in Nat
    /\ failures \in Nat

\* ADR 0005:40 "Registration matérialise Team/Player uniquement une fois PAID": a
\* team linked to a registration is the only one, the registration is PAID, and if
\* it had a checkout the player paid it (createForPlayer, materialize).
TeamsArePaidFor ==
    \A n \in Names : teams[n] \in Registrations =>
        /\ registrations[teams[n]].status = "PAID"
        /\ session[teams[n]] \in {"none", "paid"}
        /\ \A m \in Names : teams[m] = teams[n] => m = n

Stage(o) ==
    CASE ~registrations[o].stamped -> "none"
      [] registrations[o].stamped /\ registrations[o].status = "PAID" -> "recorded"
      [] Awaited(o) /\ session[o] = "paid" -> "paid"
      [] OTHER -> "payable"

Stages == [o \in Registrations |-> Stage(o)]

Ledger == INSTANCE PaymentLedger WITH Checkouts <- Registrations, stage <- Stages

\* Each paid registration goes from payable to paid to recorded, in that order and
\* one way (createForPlayer, applyPaidRegistrationSession).
KeepsLedger == Ledger!Spec

(***************************************************************************)
(* The inductive invariant behind TeamsArePaidFor and KeepsLedger.         *)
(***************************************************************************)
Pending(o) == registrations[o].status = "PENDING_PAYMENT"

Opening == {"checkout", "stamp", "respond"}

\* createForPlayer, between the creation of its row and its answer.
Opens(r) ==
    \/ req[r].step \in Opening
    \/ req[r].step = "materialize" /\ req[r].op = "registerFree"

\* What a request in flight may rely on about the registration it works for.
HandlerInv(r) ==
    LET o == req[r].registration IN
    /\ Opens(r) => o \in Registrations /\ Pending(o)
    /\ req[r].step = "checkout" => ~registrations[o].stamped /\ session[o] = "none"
    /\ req[r].step = "stamp" => ~registrations[o].stamped /\ session[o] = "created"
    /\ req[r].step = "respond" => registrations[o].stamped /\ session[o] = "created"
    /\ req[r].step \in {"retrieve", "find"} => o \in Registrations /\ req[r].op # "registerFree"
    /\ req[r].step = "find" => session[o] = "paid"
    /\ req[r].step = "materialize" =>
          /\ o \in Registrations
          /\ IF req[r].op = "registerFree"
             THEN ~registrations[o].stamped /\ session[o] = "none"
             ELSE session[o] = "paid"

HandlersInv == \A r \in Requests : HandlerInv(r)

\* Two requests never open the same registration.
OpeningsInv ==
    \A r, q \in Requests :
        (r # q /\ Opens(r) /\ Opens(q)) => req[r].registration # req[q].registration

SessionsInv ==
    /\ \A o \in Registrations :
          /\ session[o] \in {"offered", "paid"} => registrations[o].stamped
          /\ registrations[o] = NoRegistration => session[o] = "none"
          /\ registrations[o].stamped => registrations[o].status # "NONE"
    /\ \A o \in due : session[o] = "paid"

RegistrationInv ==
    TypeOK /\ HandlersInv /\ OpeningsInv /\ SessionsInv /\ TeamsArePaidFor

NameTaken(o) == \E n \in Names : n = registrations[o].name /\ teams[n] # None

\* payments-webhook.controller.ts:50: with Stripe delivering until acknowledged,
\* a player who paid gets the team, unless its name is taken in the meantime.
PaidBecomesTeamUnlessTaken ==
    \A o \in Registrations : Stage(o) = "paid" ~> (Stage(o) = "recorded" \/ NameTaken(o))

\* registrations.e2e-spec.ts:218 "materializes the team once the webhook confirms
\* payment": a player who paid gets the team.
PaidBecomesTeam ==
    \A o \in Registrations : Stage(o) = "paid" ~> Stage(o) = "recorded"
================================================================================
