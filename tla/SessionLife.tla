------------------------------ MODULE SessionLife ------------------------------
(***************************************************************************)
(* What refresh tokens promise of a session: it begins once, with a login, *)
(* and when it has ended it never begins again.  Rotating its token is not *)
(* visible here.                                                           *)
(***************************************************************************)
CONSTANT Sessions

VARIABLE stage

Stages == {"none", "open", "ended"}

Init == stage = [s \in Sessions |-> "none"]

Begin(s) ==
    /\ stage[s] = "none"
    /\ stage' = [stage EXCEPT ![s] = "open"]

\* A logout ends one session, a password reset all those of an account.
End(ending) ==
    /\ \A s \in ending : stage[s] = "open"
    /\ stage' = [s \in Sessions |-> IF s \in ending THEN "ended" ELSE stage[s]]

Next ==
    \/ \E s \in Sessions : Begin(s)
    \/ \E ending \in SUBSET Sessions : End(ending)

Spec == Init /\ [][Next]_stage
================================================================================
