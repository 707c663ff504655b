------------------------------ MODULE Catalog ------------------------------
(***************************************************************************)
(* What the shop sells and what a purchase is made of: product ids (locked *)
(* in numeric order), prices, baskets (the rows of one user's cart, at     *)
(* most one row per product: CartItem.unique_together) and orders.         *)
(***************************************************************************)
EXTENDS Integers, FiniteSetsExt

CONSTANTS
    Users,        \* users_user rows
    Products,     \* primary keys of products_product rows
    Price,        \* unit price of each product
    MaxQty,       \* bound: largest quantity a cart row reaches
    MaxTotal      \* largest total the column numeric(12,2) can hold

ASSUME CatalogAssumption ==
    /\ Products \subseteq Nat
    /\ Price \in [Products -> Nat]
    /\ MaxQty \in Nat
    /\ MaxTotal \in Nat

\* A quantity per product; 0 stands for "no row".
Basket == [Products -> 0 .. MaxQty]
Empty == [p \in Products |-> 0]
Rows(b) == {p \in Products : b[p] > 0}

\* sum(price * quantity), the order total.
Cost(b) == MapThenSumSet(LAMBDA p : Price[p] * b[p], Products)

\* An Order with its OrderItems and Payment: paid is Payment.status = COMPLETED
\* at creation (wallet) as opposed to PENDING (credit card).
Order == [items : Basket, total : 0 .. MaxTotal, paid : BOOLEAN]
NoOrder == [items |-> Empty, total |-> 0, paid |-> FALSE]
============================================================================
