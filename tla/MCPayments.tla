------------------------------ MODULE MCPayments -------------------------------
(***************************************************************************)
(* The paid flows other than the publication of a tournament, checked in   *)
(* one run.  A behaviour is of one part: annual subscriptions with a price *)
(* to pay, with every call and event; with a free price and two            *)
(* organizations served one request at a time; or the registrations of     *)
(* players.  The parts share the requests, Stripe's sessions and the       *)
(* bounds; what only one of them keeps is empty in the others.             *)
(***************************************************************************)
EXTENDS Subscriptions

CONSTANTS
    o2, r1,           \* a second organization, one of the requests
    Names,            \* team names
    NoTeam, Unlinked  \* None and Unlinked of Registrations

VARIABLES teams, registrations, part

Everything == {"subscribe", "confirm", "webhook", "expire", "period", "confirmIap",
               "suspension", "membership"}

Free == INSTANCE Subscriptions WITH
    Organizations <- Organizations \cup {o2}, Price <- 0, Requests <- {r1},
    Operations <- {"subscribe", "expire", "suspension"}, MaxCalls <- 5

Reg == INSTANCE Registrations WITH
    None <- NoTeam,
    Operations <- {"register", "registerFree", "confirm", "webhook",
                   "addTeam", "renameTeam", "removeTeam"}

ASSUME Reg!Parameters

teamVars == <<teams, registrations>>
registrationVars == Reg!vars
subscriptionVars == <<subs, orgVars, storeVars>>
allVars == <<vars, teamVars, part>>

NoRegistrations ==
    /\ teams = [n \in Names |-> NoTeam]
    /\ registrations = [o \in Reg!Registrations |-> Reg!NoRegistration]

NoSubscriptions ==
    /\ subs = [s \in Rows |-> NoRow] /\ over = {} /\ suspended = {} /\ oldest = Nowhere
    /\ bought = [t \in Txns |-> Nowhere] /\ notices = {}

MCInit ==
    \/ part = "paid" /\ Init /\ NoRegistrations
    \/ part = "free" /\ Free!Init /\ NoRegistrations
    \/ part = "registrations" /\ Reg!Init /\ NoSubscriptions

MCNext ==
    /\ \/ part = "paid" /\ Next /\ UNCHANGED teamVars
       \/ part = "free" /\ Free!Next /\ UNCHANGED teamVars
       \/ part = "registrations" /\ Reg!Next /\ UNCHANGED subscriptionVars
    /\ UNCHANGED part

\* The fairness of FairSpec, in the scenario its constants give, and of Reg!FairSpec.
FairStep(r) ==
    \/ part = "paid" /\ Proceed(r) /\ UNCHANGED teamVars
    \/ part = "registrations" /\ Reg!Proceed(r) /\ UNCHANGED subscriptionVars

MCFairness ==
    /\ \A r \in Requests : WF_allVars(FairStep(r) /\ UNCHANGED part)
    /\ \A s \in Rows : WF_vars(part = "paid" /\ \E r \in Requests : Deliver(r, s))
    /\ \A t \in Txns : WF_vars(part = "paid" /\ \E r \in Requests : Notify(r, t))
    /\ \A o \in Reg!Registrations :
          SF_registrationVars(part = "registrations" /\ \E r \in Requests : Reg!Deliver(r, o))

MCSpec == MCInit /\ [][MCNext]_allVars /\ MCFairness

\* Where there is a price: SubscriptionsInv, what handlers rely on between their steps,
\* ActiveWasPaid and PeriodRecordedOnce (applyPaidSubscriptionSession, recordIapPeriod).
PaidSubscriptionsHold ==
    part = "paid" => SubscriptionsInv /\ ActiveWasPaid /\ PeriodRecordedOnce

\* OneActiveRow, with a free price and one request at a time (subscribe).
OneActiveRowWhenFree == part = "free" => Free!OneActiveRow

\* TeamsArePaidFor of the registrations: a team linked to a registration is its only one
\* and was paid for (createForPlayer, materialize).
TeamsArePaidFor == part = "registrations" => Reg!TeamsArePaidFor

\* KeepsLedger of the subscriptions and of the registrations: every checkout is opened,
\* paid and recorded in that order and one way (applyPaidSubscriptionSession,
\* applyPaidRegistrationSession).
CheckoutsKeepLedger ==
    /\ part = "paid" => Ledger!Init
    /\ part = "registrations" => Reg!Ledger!Init
    /\ [][/\ part = "paid" => [Ledger!Next]_Stages
          /\ part = "registrations" => [Reg!Ledger!Next]_(Reg!Stages)]_allVars

\* PaidIsRecorded and PeriodIsRecorded: what is paid on Stripe or charged by Apple is
\* recorded in the end, retries and notifications being sent until they are acknowledged.
ChargesAreRecorded == PaidIsRecorded /\ PeriodIsRecorded

\* PaidBecomesTeamUnlessTaken of the registrations: with Stripe delivering until it is
\* acknowledged, a player who paid gets the team unless its name is taken.
PaidBecomesTeamUnlessTaken == Reg!PaidBecomesTeamUnlessTaken
================================================================================
