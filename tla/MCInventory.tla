---------------------------- MODULE MCInventory -----------------------------
(* Small instances of Inventory: eight calls on one product.               *)
EXTENDS Inventory, TLC

CONSTANTS c1, c2, c3, c4, c5, c6, c7, c8

Eight == {c1, c2, c3, c4, c5, c6, c7, c8}
Three == {c1, c2, c3}
Quantities == [c \in Eight |-> IF c = c1 THEN 2 ELSE 1]
Ones == [c \in Three |-> 1]

\* One call of every kind.
AllKinds == c1 :> "optimistic" @@ c2 :> "deduct" @@ c3 :> "restock"
            @@ c4 :> "patch" @@ c5 :> "race" @@ c6 :> "reserve"
            @@ c7 :> "reserveUnsafe" @@ c8 :> "unsafeOrder"

\* A sale and a change of the product's description.
SaleAndPatch == c1 :> "deduct" @@ c2 :> "patch" @@ c3 :> "deduct"

ThreeReserve == [c \in Three |-> "reserve"]
============================================================================
