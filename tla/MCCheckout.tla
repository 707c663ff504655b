---------------------------- MODULE MCCheckout -----------------------------
(* Small instances of Checkout: two users, two products, three checkouts.  *)
EXTENDS Checkout, TLC

CONSTANTS u1, u2, r1, r2, r3

TwoUsers == {u1, u2}
TwoProducts == {1, 2}
Three == {r1, r2, r3}
Prices == 1 :> 1 @@ 2 :> 2

\* Two checkouts of u1 race with each other and with one of u2.
Owners == r1 :> u1 @@ r2 :> u1 @@ r3 :> u2
AllCards == [r \in Three |-> "card"]
AllWallets == r1 :> "wallet" @@ r2 :> "task" @@ r3 :> "wallet"
MixedKinds == r1 :> "card" @@ r2 :> "task" @@ r3 :> "card"

ScarceStock == 1 :> 2 @@ 2 :> 1
SomeMoney == u1 :> 4 @@ u2 :> 3

Cart(a, b) == 1 :> a @@ 2 :> b
BothBuyBoth == {u1 :> Cart(1, 1) @@ u2 :> Cart(1, 1)}
VariedCarts == BothBuyBoth \cup {u1 :> Cart(2, 0) @@ u2 :> Cart(1, 1)}
============================================================================
