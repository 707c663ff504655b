------------------------- MODULE MCOrderLifecycle --------------------------
(* Small instances of OrderLifecycle: calls of every kind on one order.    *)
EXTENDS OrderLifecycle, TLC

CONSTANTS c1, c2, c3, c4, c5, c6, c7

Five == {c1, c2, c3, c4, c5}
Seven == Five \cup {c6, c7}

\* The owner pays twice and cancels twice; a stranger tries to pay.
CustomerKinds == c1 :> "pay" @@ c2 :> "pay" @@ c3 :> "cancel" @@ c4 :> "cancel" @@ c5 :> "pay"

\* Everyone: the owner twice, a stranger, staff, and the demo endpoints.
EveryKind == c1 :> "pay" @@ c2 :> "pay" @@ c3 :> "cancel" @@ c4 :> "cancelUnsafe"
             @@ c5 :> "pay" @@ c6 :> "set" @@ c7 :> "payUnsafe"

Ship == [c \in Calls |-> "SHIPPED"]

CardOrder == {<<"CONFIRMED", FALSE>>}
WalletOrder == {<<"CONFIRMED", TRUE>>}
============================================================================
