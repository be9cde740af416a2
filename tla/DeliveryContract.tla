--------------------------- MODULE DeliveryContract ---------------------------
(***************************************************************************)
(* What the delivery pipeline promises of a notification: once accepted,   *)
(* it is tried until a try succeeds or MaxRetries tries have failed, and   *)
(* then its outcome is final.                                              *)
(***************************************************************************)
EXTENDS Naturals

CONSTANT MaxRetries

VARIABLES
    outcome,   \* what became of the notification
    used       \* how many tries failed

Outcomes == {"new", "open", "delivered", "failed"}

Init == outcome = "new" /\ used = 0

Accept == outcome = "new" /\ outcome' = "open" /\ UNCHANGED used

Deliver == outcome = "open" /\ outcome' = "delivered" /\ UNCHANGED used

FailTry ==
    /\ outcome = "open"
    /\ used' = used + 1
    /\ outcome' = IF used + 1 >= MaxRetries THEN "failed" ELSE "open"

Next == Accept \/ Deliver \/ FailTry

Safety == Init /\ [][Next]_<<outcome, used>>
Spec == Safety /\ WF_<<outcome, used>>(Deliver \/ FailTry)
=============================================================================
