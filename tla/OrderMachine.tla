---------------------------- MODULE OrderMachine ---------------------------
(***************************************************************************)
(* What an order's life should look like to its customer and the shop:     *)
(* every payment, cancellation and status change acts on the order's       *)
(* present state, one at a time.                                           *)
(***************************************************************************)
CONSTANTS Start, AdminStatuses   \* initial <<status, paid>> pairs; what admins set

VARIABLES status, paid

vars == <<status, paid>>

Init == \E o \in Start : status = o[1] /\ paid = o[2]

Pay ==
    /\ status # "CANCELLED" /\ ~paid
    /\ status' = "PROCESSING"
    /\ paid' = TRUE

Cancel ==
    /\ status \in {"PENDING", "CONFIRMED"}
    /\ status' = "CANCELLED"
    /\ UNCHANGED paid

Set ==
    /\ status' \in AdminStatuses
    /\ UNCHANGED paid

Next == Pay \/ Cancel \/ Set

Spec == Init /\ [][Next]_vars
============================================================================
