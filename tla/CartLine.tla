------------------------------ MODULE CartLine ------------------------------
(***************************************************************************)
(* What one line of a cart promises its customer: every call that succeeds *)
(* takes effect once, on the quantity as it is at that moment; a call that *)
(* fails has no effect.                                                    *)
(***************************************************************************)
EXTENDS Integers

CONSTANTS Calls, Kind, Qty, Start, MaxQty

VARIABLES quantity, done   \* 0: the product is not in the cart; calls that succeeded

vars == <<quantity, done>>

Init == quantity \in Start /\ done = {}

\* The quantities a call may leave.
After(c) ==
    CASE Kind[c] = "add" -> {quantity + Qty[c]}
      [] Kind[c] = "set" -> IF Qty[c] = 0 \/ quantity > 0 THEN {Qty[c]} ELSE {}
      [] Kind[c] = "cleanup" -> {quantity, 0}
      [] OTHER -> {0}

Apply(c) ==
    /\ c \notin done
    /\ quantity' \in After(c) /\ quantity' <= MaxQty
    /\ done' = done \cup {c}

Next == \E c \in Calls : Apply(c)

Spec == Init /\ [][Next]_vars
============================================================================
