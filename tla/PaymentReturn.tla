----------------------------- MODULE PaymentReturn -----------------------------
(***************************************************************************)
(* The three pages Stripe sends a customer back to (a tournament's         *)
(* publication, an organization's subscription, a player's registration):  *)
(* the page asks the API to confirm the session, which looks at Stripe,    *)
(* and unless that settles it reads the status again MaxPolls times, with  *)
(* a pause between.  Stripe's own event comes before, after, or never.     *)
(* A registration is recorded with its team, whose name must still be free,*)
(* and its page reads the player's newest registration of the tournament.  *)
(***************************************************************************)
EXTENDS PageCalls

CONSTANTS
    Flows,        \* what is paid for
    MaxPolls,     \* how many times a page reads the status
    MaxFailures   \* bound: calls lost

\* "tier": a payment for a tournament that is published already.  Of a registration,
\* name: whether another team has its team's name, or had; newer: another one of the
\* same player and tournament, opened later.
Init ==
    /\ \E flow \in Flows, paid, session \in BOOLEAN :
       /\ server = [flow |-> flow, paid |-> paid, recorded |-> FALSE, due |-> paid,
                    name |-> "free", newer |-> None, lost |-> 0]
       /\ page = [session |-> session, step |-> "start", attempt |-> 0, shown |-> None,
                  loading |-> TRUE, paidAtFirst |-> paid]
    /\ NoCalls

\* The status that ends the wait: PUBLISHED, ACTIVE, or any but PENDING_PAYMENT, of the
\* first registration listed for the tournament, the newest (findForThisTournament).
Settled(s) ==
    IF s.newer = None THEN s.recorded \/ s.flow = "tier" ELSE s.newer = "settled"

(***************************************************************************)
(* The page                                                                *)
(***************************************************************************)
\* The address holds the session, unless the page is opened by hand.
Confirm(c) ==
    /\ page.step = "start" /\ page.session /\ wire[c] = Idle /\ Send(c, [op |-> "confirm"])
    /\ page' = [page EXCEPT !.step = "calling"] /\ UNCHANGED <<server, left>>

Poll(c) ==
    /\ page.step = "poll" \/ (page.step = "start" /\ ~page.session)
    /\ wire[c] = Idle /\ Send(c, [op |-> "poll"])
    /\ page' = [page EXCEPT !.step = "calling"] /\ UNCHANGED <<server, left>>

Shows(settled) == [page EXCEPT !.shown = IF settled THEN "settled" ELSE "pending"]

GotConfirm(c) ==
    /\ Back(c, "confirm") /\ Hang(c)
    /\ page' = [Shows(wire[c].data) EXCEPT !.step = IF wire[c].data THEN "done" ELSE "poll",
                                           !.loading = ~wire[c].data]

\* A confirmation that fails is left to the polls.
ConfirmFailed(c) ==
    /\ Refused(c) /\ wire[c].op = "confirm" /\ Hang(c)
    /\ page' = [page EXCEPT !.step = "poll"]

GotPoll(c) ==
    /\ Back(c, "poll") /\ Hang(c)
    /\ LET ends == wire[c].data \/ page.attempt = MaxPolls - 1 IN
       page' = [Shows(wire[c].data) EXCEPT !.step = IF ends THEN "done" ELSE "pause",
                                           !.loading = ~ends]

\* A poll that fails is caught by nobody: the page goes on loading.
PollFailed(c) ==
    /\ Refused(c) /\ wire[c].op = "poll" /\ Hang(c)
    /\ page' = [page EXCEPT !.step = "thrown"]

Pause ==
    /\ page.step = "pause" /\ UNCHANGED <<server, wire, left>>
    /\ page' = [page EXCEPT !.step = "poll", !.attempt = @ + 1]

(***************************************************************************)
(* The API and Stripe                                                      *)
(***************************************************************************)
\* materialize creates the team with its registration: refused, nothing is recorded.
Recordable(s) == s.recorded \/ s.name # "taken"

\* Mutant: the status is taken from Stripe's session, and the row left to the event.
ConfirmedByStripe(c) ==
    /\ Serve(c, "confirm") /\ UNCHANGED server
    /\ Answer(c, Settled([server EXCEPT !.recorded = server.paid \/ @]))

\* A session that Stripe shows paid is recorded as its event would be.
ServeConfirm(c) ==
    /\ Serve(c, "confirm")
    /\ \/ /\ server.paid => Recordable(server)
          /\ server' = [server EXCEPT !.recorded = @ \/ server.paid]
          /\ Answer(c, Settled(server'))
       \/ server.paid /\ ~Recordable(server) /\ Refuse(c)

ServePoll(c) == Serve(c, "poll") /\ UNCHANGED server /\ Answer(c, Settled(server))

\* A call is lost before it is served, or its answer is.
Lose(c) ==
    /\ server.lost < MaxFailures /\ wire[c].at \in {"sent", "back"}
    /\ wire' = [wire EXCEPT ![c].at = "refused"]
    /\ server' = [server EXCEPT !.lost = @ + 1] /\ UNCHANGED <<page, left>>

\* A payment that took longer than the customer's way back.
Pay ==
    /\ ~server.paid /\ server' = [server EXCEPT !.paid = TRUE, !.due = TRUE]
    /\ UNCHANGED <<page, wire, left>>

\* A delivery that fails, the name being taken, leaves the event due.
Deliver ==
    /\ server.due /\ Recordable(server)
    /\ server' = [server EXCEPT !.due = FALSE, !.recorded = TRUE]
    /\ UNCHANGED <<page, wire, left>>

(***************************************************************************)
(* Beside a registration: a team takes its name while it is not recorded,  *)
(* once, and may give it back; its player registers another team, free or  *)
(* to be paid.                                                             *)
(***************************************************************************)
TakeName ==
    /\ server.flow = "registration" /\ ~server.recorded /\ server.name = "free"
    /\ server' = [server EXCEPT !.name = "taken"] /\ UNCHANGED <<page, wire, left>>

FreeName ==
    /\ server.name = "taken"
    /\ server' = [server EXCEPT !.name = "freed"] /\ UNCHANGED <<page, wire, left>>

RegisterAgain ==
    /\ server.flow = "registration" /\ server.newer = None
    /\ \E status \in {"pending", "settled"} : server' = [server EXCEPT !.newer = status]
    /\ UNCHANGED <<page, wire, left>>

PayAgain ==
    /\ server.newer = "pending"
    /\ server' = [server EXCEPT !.newer = "settled"] /\ UNCHANGED <<page, wire, left>>

Next ==
    \/ Pause \/ Pay \/ Deliver \/ TakeName \/ FreeName \/ RegisterAgain \/ PayAgain
    \/ \E c \in Connections :
       \/ Confirm(c) \/ ServeConfirm(c) \/ GotConfirm(c) \/ ConfirmFailed(c)
       \/ Poll(c) \/ ServePoll(c) \/ GotPoll(c) \/ PollFailed(c) \/ Lose(c)

Spec == Init /\ [][Next]_vars

--------------------------------------------------------------------------------
\* What a page says is settled was bought: the purchase it comes back from, a tier of a
\* tournament already published, or a newer registration of the same player.
Bought(s) == s.recorded \/ s.flow = "tier" \/ s.newer = "settled"

\* No call lost, no other team of that name, no newer registration.
Undisturbed(s) == s.lost = 0 /\ s.name = "free" /\ s.newer = None

\* A page that says it is settled is right of something bought; and one that comes back
\* paid for, with its session, gives up only if a call was lost, the team's name was
\* taken, or a newer registration is read in place of its own: else the purchase is
\* recorded and shown, without waiting for Stripe's event.
ReturnTellsTruth ==
    /\ page.shown = "settled" => Bought(server)
    /\ page.step = "done" /\ page.session /\ page.paidAtFirst /\ Undisturbed(server) =>
          page.shown = "settled" /\ server.recorded
================================================================================
