----------------------------- MODULE PaymentLedger -----------------------------
(***************************************************************************)
(* What every paid flow of the API promises its customers: a checkout page *)
(* is only handed out once the database row it pays for is known by its    *)
(* session, the customer may then pay it, and what was paid is recorded,   *)
(* once and for ever.                                                      *)
(***************************************************************************)
CONSTANT Checkouts   \* the checkout sessions a customer may be sent to

VARIABLE stage       \* how far each of them is

Stages == {"none", "payable", "paid", "recorded"}

Init == stage = [c \in Checkouts |-> "none"]

Advance(c, from, to) ==
    /\ stage[c] = from
    /\ stage' = [stage EXCEPT ![c] = to]

\* The row carries the session's id.
Open(c) == Advance(c, "none", "payable")

\* The customer pays on the payment provider's page.
Pay(c) == Advance(c, "payable", "paid")

\* The row is marked paid.
Record(c) == Advance(c, "paid", "recorded")

Next == \E c \in Checkouts : Open(c) \/ Pay(c) \/ Record(c)

Spec == Init /\ [][Next]_stage
================================================================================
