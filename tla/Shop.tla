------------------------------- MODULE Shop --------------------------------
(***************************************************************************)
(* What checkout promises (README, "Transaction Integrity / ACID"): an     *)
(* order, its stock deduction and its wallet payment happen together or    *)
(* not at all, as if each checkout ran alone.                              *)
(***************************************************************************)
EXTENDS Integers

CONSTANTS
    Products, Basket, Empty, NoOrder, MaxTotal,
    Cost(_),      \* the total of a basket
    Requests,     \* checkout calls
    Owner,        \* the user each call is made for
    PaysNow,      \* the calls paid from the wallet
    InitStock, InitWallet,
    MaxStock      \* bound on stock after a restock

VARIABLES stock, wallet, order

vars == <<stock, wallet, order>>

Init ==
    /\ stock = InitStock
    /\ wallet = InitWallet
    /\ order = [r \in Requests |-> NoOrder]

\* One whole checkout: all lines in stock, the wallet covers the total, and
\* stock, wallet and order change in one step.
Purchase(r) ==
    /\ order[r] = NoOrder
    /\ \E b \in Basket \ {Empty} :
        /\ \A p \in Products : b[p] <= stock[p]
        /\ Cost(b) \in 0 .. MaxTotal
        /\ r \in PaysNow => Cost(b) <= wallet[Owner[r]]
        /\ stock' = [p \in Products |-> stock[p] - b[p]]
        /\ wallet' = IF r \in PaysNow
                     THEN [wallet EXCEPT ![Owner[r]] = @ - Cost(b)] ELSE wallet
        /\ order' = [order EXCEPT ![r] =
                        [items |-> b, total |-> Cost(b), paid |-> r \in PaysNow]]

Supply(p) ==
    /\ \E q \in 1 .. MaxStock :
        /\ stock[p] + q <= MaxStock
        /\ stock' = [stock EXCEPT ![p] = @ + q]
    /\ UNCHANGED <<wallet, order>>

Next ==
    \/ \E r \in Requests : Purchase(r)
    \/ \E p \in Products : Supply(p)

Spec == Init /\ [][Next]_vars
============================================================================
