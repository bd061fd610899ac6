------------------------------- MODULE PageCalls -------------------------------
(***************************************************************************)
(* A page of the web or mobile application in front of the API.  A handler *)
(* sets signals up to its await; its call travels and is served, or        *)
(* refused; what follows the await then runs on the page as it is by then. *)
(* Calls are served, and answered, in any order.                           *)
(***************************************************************************)
EXTENDS Integers, FiniteSets, Functions, TLC

CONSTANTS
    Connections,  \* the calls the page may have in flight
    Clicks,       \* the operations considered
    MaxClicks,    \* bound: what the user does in one behaviour
    None

VARIABLES
    page,    \* the signals of the page
    server,  \* what the API stores
    wire,    \* each connection's call: sent, served with its answer, or refused
    left     \* clicks still to come

vars == <<page, server, wire, left>>

Idle == [op |-> "idle", at |-> "idle"]

NoCalls == wire = [c \in Connections |-> Idle] /\ left = MaxClicks

AtRest == \A c \in Connections : wire[c] = Idle

\* One thing the user does.
Spend(op) == left > 0 /\ op \in Clicks /\ left' = left - 1

\* A click whose handler goes on to a call.
Click(c, op) == wire[c] = Idle /\ Spend(op)

\* f, and g where f says nothing: TLC's f @@ g, written out for the proofs.
Overlay(f, g) ==
    [x \in DOMAIN f \cup DOMAIN g |-> IF x \in DOMAIN f THEN f[x] ELSE g[x]]

Send(c, call) == wire' = [wire EXCEPT ![c] = Overlay([at |-> "sent"], call)]
Hang(c) == wire' = [wire EXCEPT ![c] = Idle]

\* The API at work on a call of that name.
Serve(c, op) == wire[c].at = "sent" /\ wire[c].op = op /\ UNCHANGED <<page, left>>
Answer(c, data) == wire' = [wire EXCEPT ![c] = Overlay([at |-> "back", data |-> data], @)]
Refuse(c) == wire' = [wire EXCEPT ![c].at = "refused"] /\ UNCHANGED server

\* What follows the await of that call.
Back(c, op) == wire[c].at = "back" /\ wire[c].op = op /\ UNCHANGED <<server, left>>
Refused(c) == wire[c].at = "refused" /\ UNCHANGED <<server, left>>
================================================================================
