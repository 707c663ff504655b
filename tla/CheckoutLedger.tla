--------------------------- MODULE CheckoutLedger ---------------------------
(***************************************************************************)
(* What the committed rows add up to: the inventory log, the wallets and   *)
(* the carts against the orders, for every finite set of checkouts.        *)
(***************************************************************************)
EXTENDS CheckoutProofs, FiniteSetLemmas

\* Only a commit writes orders, PURCHASE rows and wallets.
LEMMA OnlyCommitWrites ==
    ASSUME [Next]_vars
    PROVE  (\E r \in Requests : Commit(r)) \/ UNCHANGED <<order, bought, wallet>>
<1>1. ASSUME NEW r \in Requests, Refuse(r) \/ Abort(r)
      PROVE  UNCHANGED <<order, bought, wallet>>
    BY <1>1 DEF Refuse, Abort, Rollback, goods
<1>2. ASSUME NEW r \in Requests, Step(r)
      PROVE  Commit(r) \/ UNCHANGED <<order, bought, wallet>>
    BY <1>1, <1>2 DEF Step, LockUser, ReadCart, FindCartEmpty, LockProduct,
       RefuseBasket, Fulfil, Overflow, DeadlockAbort, goods
<1>3. ASSUME NEW r \in Requests, Fault(r) PROVE UNCHANGED <<order, bought, wallet>>
    BY <1>1, <1>3 DEF Fault, LoseConnection, Crash
<1>4. ASSUME NEW u \in Users, CartEdit(u) PROVE UNCHANGED <<order, bought, wallet>>
    BY <1>4 DEF CartEdit, InsertItem, BumpItem, SetItem, RemoveItem, ClearCart,
       Edit, goods
<1>5. ASSUME NEW p \in Products, Admin(p) PROVE UNCHANGED <<order, bought, wallet>>
    BY <1>5 DEF Admin, DeleteProduct, Restock
<1>6. CASE Finished \/ UNCHANGED vars
    BY <1>6 DEF Finished, vars, goods
<1> QED BY <1>2, <1>3, <1>4, <1>5, <1>6 DEF Next

\* A commit adds one order, which was none before.
LEMMA CommitAddsOrder ==
    ASSUME TypeOK, OrdersOnce, NEW r \in Requests, Commit(r)
    PROVE  /\ order[r] = NoOrder
           /\ order'[r] = [items |-> basket[r], total |-> Cost(basket[r]),
                           paid |-> UsesWallet(r)]
           /\ \A s \in Requests \ {r} : order'[s] = order[s]
<1>1. pc[r] = "commit"
    BY DEF Commit
<1> QED BY <1>1 DEF TypeOK, OrdersOnce, Commit

LEMMA LogMatchesOrdersStep ==
    Inv /\ OrdersOnce /\ LogMatchesOrders /\ [Next]_vars => LogMatchesOrders'
<1> SUFFICES ASSUME Inv, OrdersOnce, LogMatchesOrders, [Next]_vars,
                    NEW p \in Products
             PROVE  bought'[p] = SumFunctionOnSet(Lines(p)', Requests)
    BY DEF LogMatchesOrders
<1>1. CASE UNCHANGED <<order, bought, wallet>>
    BY <1>1 DEF LogMatchesOrders, Lines
<1>2. ASSUME NEW r \in Requests, Commit(r)
      PROVE  bought'[p] = SumFunctionOnSet(Lines(p)', Requests)
    <2>1. /\ order[r] = NoOrder /\ order'[r].items = basket[r]
          /\ \A s \in Requests \ {r} : order'[s] = order[s]
        <3>1. TypeOK
            BY DEF Inv
        <3>2. /\ order[r] = NoOrder
              /\ order'[r] = [items |-> basket[r], total |-> Cost(basket[r]),
                              paid |-> UsesWallet(r)]
              /\ \A s \in Requests \ {r} : order'[s] = order[s]
            BY ONLY <3>1, <1>2, OrdersOnce, CommitAddsOrder, Zenon
        <3> QED BY ONLY <3>2
    <2>2. \A s \in Requests : order[s].items \in Basket
        BY DEF Inv, TypeOK, Order
    <2>3. basket[r] \in Basket /\ bought[p] \in Nat
        BY DEF Inv, TypeOK
    <2>4. Numeric(Lines(p), Requests) /\ Lines(p)'[r] \in Int
        <3>1. \A s \in Requests : Lines(p)[s] = order[s].items[p]
            BY DEF Lines
        <3>2. \A s \in Requests : order[s].items[p] \in Nat
            BY <2>2, BasketIsNat
        <3>3. Lines(p)'[r] = basket[r][p]
            BY <2>1 DEF Lines
        <3> QED BY <3>1, <3>2, <3>3, <2>3, BasketIsNat DEF Numeric
    <2>5. \A s \in Requests \ {r} : Lines(p)'[s] = Lines(p)[s]
        BY <2>1 DEF Lines
    <2>6. Lines(p)[r] = 0 /\ Lines(p)'[r] = basket[r][p]
        BY <2>1 DEF Lines, NoOrder, Empty
    <2>7. SumFunctionOnSet(Lines(p)', Requests) =
              SumFunctionOnSet(Lines(p), Requests) + Lines(p)'[r] - Lines(p)[r]
        BY ONLY <2>4, <2>5, FiniteRequests, SumChange
    <2>8. bought[p] = SumFunctionOnSet(Lines(p), Requests)
        BY DEF LogMatchesOrders
    <2>9. bought'[p] = bought[p] + basket[r][p]
        BY <1>2 DEF Commit
    <2> QED BY ONLY <2>3, <2>6, <2>7, <2>8, <2>9, BasketIsNat
<1> QED BY <1>1, <1>2, OnlyCommitWrites

\* The PURCHASE rows of a product add up to its order items, whatever fails
\* or is retried in between.
THEOREM LogMatches == Spec => []LogMatchesOrders
<1>1. Init => OrdersOnce
    BY DEF Init, OrdersOnce, Start
<1>2. Init => LogMatchesOrders
    <2> SUFFICES ASSUME Init, NEW p \in Products
                 PROVE  bought[p] = SumFunctionOnSet(Lines(p), Requests)
        BY DEF LogMatchesOrders
    <2>1. \A r \in Requests : Lines(p)[r] = 0
        BY DEF Init, Lines, NoOrder, Empty
    <2>2. bought[p] = 0
        BY DEF Init, Empty
    <2> QED BY <2>1, <2>2, FiniteRequests, SumZero
<1>3. Inv => TypeOK
    BY DEF Inv
<1> QED BY <1>1, <1>2, <1>3, InitInv, NextInv, OrdersOnceStep, LogMatchesOrdersStep, PTL
        DEF Spec

\* Units are neither made nor lost: what a product began with and was restocked
\* by is on the shelf or in an order.
UnitsConserved ==
    \A p \in Products :
        InitStock[p] + restocked[p] = stock[p] + SumFunctionOnSet(Lines(p), Requests)

\* No unit disappears in a rollback, a retry or a crash, or is sold twice.
THEOREM NoUnitLost == Spec => []UnitsConserved
<1>1. TypeOK /\ LogExplainsStock /\ LogMatchesOrders => UnitsConserved
    <2> SUFFICES ASSUME TypeOK, LogExplainsStock, LogMatchesOrders, NEW p \in Products
                 PROVE  InitStock[p] + restocked[p]
                            = stock[p] + SumFunctionOnSet(Lines(p), Requests)
        BY DEF UnitsConserved
    <2>1. SumFunctionOnSet(Lines(p), Requests) = bought[p]
        BY DEF LogMatchesOrders
    <2>2. stock[p] = InitStock[p] + restocked[p] - bought[p]
        BY DEF LogExplainsStock
    <2>3. bought[p] \in Nat /\ restocked[p] \in Nat /\ InitStock[p] \in Int
        BY CheckoutAssumption, BasketIsNat DEF TypeOK
    <2> QED BY ONLY <2>1, <2>2, <2>3
<1> QED BY <1>1, TypeCorrect, StockAudit, LogMatches, PTL
----------------------------------------------------------------------------
(* The wallets. *)

LEMMA PaidBySums ==
    ASSUME TypeOK, NEW u \in Users
    PROVE  /\ IsFiniteSet(PaidBy(u))
           /\ Numeric(Totals, PaidBy(u))
           /\ SumFunctionOnSet(Totals, PaidBy(u)) \in Int
<1>1. IsFiniteSet(PaidBy(u))
    BY FiniteRequests, FS_Subset DEF PaidBy
<1>2. \A r \in Requests : Totals[r] = order[r].total /\ order[r].total \in Int
    BY CatalogAssumption DEF TypeOK, Order, Totals
<1>3. Numeric(Totals, PaidBy(u))
    BY <1>2 DEF Numeric, PaidBy
<1> QED BY <1>1, <1>3, SumType

LEMMA WalletMatchesOrdersStep ==
    Inv /\ Inv' /\ OrdersOnce /\ WalletMatchesOrders /\ [Next]_vars
        => WalletMatchesOrders'
<1> SUFFICES ASSUME Inv, Inv', OrdersOnce, WalletMatchesOrders, [Next]_vars,
                    NEW u \in Users
             PROVE  InitWallet[u] - wallet'[u] = SumFunctionOnSet(Totals', PaidBy(u)')
    BY DEF WalletMatchesOrders
<1>1. CASE UNCHANGED <<order, bought, wallet>>
    BY <1>1 DEF WalletMatchesOrders, Totals, PaidBy
<1>2. ASSUME NEW r \in Requests, Commit(r)
      PROVE  InitWallet[u] - wallet'[u] = SumFunctionOnSet(Totals', PaidBy(u)')
    <2> DEFINE paid == PaidBy(u)
               before == SumFunctionOnSet(Totals, paid)
    <2>1. TypeOK /\ TypeOK'
        BY DEF Inv
    <2>2. /\ order[r] = NoOrder
          /\ order'[r] = [items |-> basket[r], total |-> Cost(basket[r]),
                          paid |-> UsesWallet(r)]
          /\ \A s \in Requests \ {r} : order'[s] = order[s]
        BY ONLY <2>1, <1>2, OrdersOnce, CommitAddsOrder, Zenon
    <2>3. r \notin paid /\ \A s \in paid : s \in Requests /\ Totals'[s] = Totals[s]
        BY <2>2 DEF PaidBy, NoOrder, Totals
    <2>4. IsFiniteSet(paid) /\ before \in Int
        BY <2>1, PaidBySums
    <2>5. SumFunctionOnSet(Totals', paid) = before
        BY <2>3, <2>4, SumSame
    <2>6. InitWallet[u] - wallet[u] = before
        BY DEF WalletMatchesOrders
    <2>7. InitWallet[u] \in Int /\ wallet[u] \in Int
        BY <2>1, CheckoutAssumption DEF TypeOK
    <2>8. CASE UsesWallet(r) /\ Owner[r] = u
        <3>1. PaidBy(u)' = paid \cup {r}
            BY <2>2, <2>8 DEF PaidBy
        <3>2. IsFiniteSet(PaidBy(u)') /\ Numeric(Totals', PaidBy(u)')
            <4>1. IsFiniteSet(PaidBy(u)')
                BY <3>1, <2>4, FS_AddElement
            <4>2. \A s \in Requests : Totals'[s] \in Int
                BY <2>1, CatalogAssumption DEF TypeOK, Order, Totals
            <4> QED BY <4>1, <4>2 DEF Numeric, PaidBy
        <3>3. SumFunctionOnSet(Totals', PaidBy(u)') =
                  Totals'[r] + SumFunctionOnSet(Totals', PaidBy(u)' \ {r})
            BY <3>1, <3>2, SumRemove
        <3>4. PaidBy(u)' \ {r} = paid
            BY <3>1, <2>3
        <3>5. SumFunctionOnSet(Totals', PaidBy(u)' \ {r}) = before
            BY ONLY <3>4, <2>5, Zenon
        <3>6. Totals'[r] = Cost(basket[r])
            BY <2>2 DEF Totals
        <3>7. pc[r] = "commit"
            BY <1>2 DEF Commit
        <3>8. Cost(basket[r]) \in Int
            BY <3>7, CatalogAssumption DEF Inv, CommitIsValid
        <3>9. funds[r] = wallet[u]
            BY <3>7, <2>8 DEF Inv, CopiesAreCurrent, HoldsUser
        <3>10. wallet'[u] = wallet[u] - Cost(basket[r])
            BY <1>2, <2>1, <2>8, <3>9 DEF Commit, TypeOK
        <3> QED BY ONLY <2>4, <2>6, <2>7, <3>3, <3>5, <3>6, <3>8, <3>10
    <2>9. CASE ~(UsesWallet(r) /\ Owner[r] = u)
        <3>1. PaidBy(u)' = paid
            BY <2>2, <2>9 DEF PaidBy, NoOrder
        <3>2. SumFunctionOnSet(Totals', PaidBy(u)') = before
            BY ONLY <3>1, <2>5, Zenon
        <3>3. wallet'[u] = wallet[u]
            BY <1>2, <2>1, <2>9, CheckoutAssumption DEF Commit, TypeOK
        <3> QED BY ONLY <2>6, <3>2, <3>3
    <2> QED BY <2>8, <2>9
<1> QED BY <1>1, <1>2, OnlyCommitWrites

\* A wallet loses exactly the totals of its user's wallet orders, although
\* every checkout writes back a balance computed in Python.
THEOREM WalletMatches == Spec => []WalletMatchesOrders
<1>1. Init => OrdersOnce
    BY DEF Init, OrdersOnce, Start
<1>2. Init => WalletMatchesOrders
    <2> SUFFICES ASSUME Init, NEW u \in Users
                 PROVE  InitWallet[u] - wallet[u] = SumFunctionOnSet(Totals, PaidBy(u))
        BY DEF WalletMatchesOrders
    <2>1. PaidBy(u) = {}
        BY DEF Init, PaidBy, NoOrder
    <2>2. SumFunctionOnSet(Totals, PaidBy(u)) = 0
        BY <2>1, SumEmpty, Zenon
    <2>3. InitWallet[u] \in Int /\ wallet[u] = InitWallet[u]
        BY CheckoutAssumption DEF Init
    <2> QED BY <2>2, <2>3
<1>3. Inv => TypeOK
    BY DEF Inv
<1> QED BY <1>1, <1>2, <1>3, InitInv, NextInv, OrdersOnceStep, WalletMatchesOrdersStep, PTL
        DEF Spec
----------------------------------------------------------------------------
(* The carts of users who pay by wallet only: the lock on the user row     *)
(* keeps their checkouts apart.                                            *)

OnlyWallets(u) == \A r \in Requests : Owner[r] = u => UsesWallet(r)

\* While such a checkout runs, the cart rows are the ones it read, and the ones
\* it deletes.
CartSteady ==
    edits = 0 => \A r \in Requests :
        OnlyWallets(Owner[r]) /\ pc[r] \in {"lock", "commit"} =>
            \A p \in listed :
                /\ cart[Owner[r]][p] = basket[r][p]
                /\ pc[r] = "commit" => dropped[r][p] = basket[r][p]

\* The part of CartConverted about the users who pay by wallet.
WalletCartsConverted ==
    edits = 0 => \A u \in Users : OnlyWallets(u) => Converted(u)

CartInv == CartSteady /\ WalletCartsConverted

\* A checkout that ends without an order leaves the carts alone.
LEMMA CartRollback ==
    ASSUME TypeOK, CartSteady, NEW r \in Requests, Refuse(r) \/ Abort(r)
    PROVE  CartSteady' /\ UNCHANGED <<cart, order, listed, edits>>
<1>1. PICK to \in {Start(r), "failed"} : Rollback(r, to)
    BY DEF Refuse, Abort
<1>2. /\ pc'[r] \notin {"lock", "commit"}
      /\ \A s \in Requests \ {r} : /\ pc'[s] = pc[s] /\ basket'[s] = basket[s]
                                   /\ dropped'[s] = dropped[s]
      /\ UNCHANGED <<cart, order, listed, edits>>
    BY <1>1 DEF Rollback, goods, TypeOK, Start
<1>3. CartSteady'
    BY <1>2 DEF CartSteady, OnlyWallets, UsesWallet
<1> QED BY <1>2, <1>3

\* A commit moves the basket from the cart to the order.
LEMMA CartCommit ==
    ASSUME Inv, Inv', OrdersOnce, CartInv, NEW r \in Requests, Commit(r)
    PROVE  CartInv'
<1> DEFINE u == Owner[r]
<1>1. TypeOK /\ TypeOK' /\ u \in Users
    BY CheckoutAssumption DEF Inv
<1>2. /\ pc[r] = "commit" /\ pc' = [pc EXCEPT ![r] = "done"]
      /\ UNCHANGED <<listed, basket, dropped, edits>>
      /\ cart' = [cart EXCEPT ![u] = [p \in Products |->
                                        IF dropped[r][p] > 0 THEN 0 ELSE cart[u][p]]]
    BY DEF Commit
<1>3. /\ order[r] = NoOrder
      /\ order'[r] = [items |-> basket[r], total |-> Cost(basket[r]),
                      paid |-> UsesWallet(r)]
      /\ \A s \in Requests \ {r} : order'[s] = order[s]
    BY ONLY <1>1, OrdersOnce, CommitAddsOrder, Commit(r), Zenon
<1>4. \A v \in Users \ {u} : cart'[v] = cart[v]
    BY <1>1, <1>2 DEF TypeOK
<1>5. CartSteady'
    <2> SUFFICES ASSUME edits = 0, NEW s \in Requests, OnlyWallets(Owner[s]),
                        pc'[s] \in {"lock", "commit"}, NEW p \in listed
                 PROVE  /\ cart'[Owner[s]][p] = basket[s][p]
                        /\ pc'[s] = "commit" => dropped[s][p] = basket[s][p]
        BY <1>2 DEF CartSteady, OnlyWallets, UsesWallet
    <2>1. s # r /\ pc'[s] = pc[s]
        BY <1>1, <1>2 DEF TypeOK
    <2>2. Owner[s] # u
        BY <1>2, <2>1 DEF OnlyWallets, HoldsUser, Inv, LocksExclusive
    <2>3. cart'[Owner[s]] = cart[Owner[s]]
        BY <1>4, <2>2, CheckoutAssumption
    <2> QED BY <2>1, <2>3 DEF CartInv, CartSteady
<1>6. ASSUME edits = 0, NEW v \in Users, OnlyWallets(v) PROVE Converted(v)'
    <2> DEFINE mine == {s \in Requests : Owner[s] = v}
    <2>1. PICK c \in InitCarts : \A p \in listed : cart[v][p] + Ordered(v, p) = c[v][p]
        BY <1>6 DEF CartInv, WalletCartsConverted, Converted
    <2>2. ASSUME NEW p \in listed PROVE cart'[v][p] + Ordered(v, p)' = c[v][p]
        <3>0. p \in Products
            BY <1>1 DEF TypeOK
        <3>1. IsFiniteSet(mine)
            BY FiniteRequests, FS_Subset
        <3>2. \A s \in Requests \ {r} : Lines(p)'[s] = Lines(p)[s]
            BY <1>3 DEF Lines
        <3>3. CASE v # u
            <4>1. SumFunctionOnSet(Lines(p)', mine) = SumFunctionOnSet(Lines(p), mine)
                BY <3>1, <3>2, <3>3, SumSame
            <4>2. cart'[v] = cart[v]
                BY <1>4, <3>3
            <4> QED BY <2>1, <4>1, <4>2 DEF Ordered
        <3>4. CASE v = u
            <4>1. /\ cart[u][p] = basket[r][p] /\ dropped[r][p] = basket[r][p]
                BY <1>2, <1>6, <3>4 DEF CartInv, CartSteady
            <4>2. basket[r][p] \in Nat
                BY <1>1, <3>0, BasketIsNat DEF TypeOK
            <4>3. cart'[u][p] = 0
                <5>1. cart'[u][p] = IF dropped[r][p] > 0 THEN 0 ELSE cart[u][p]
                    BY <1>1, <1>2, <3>0 DEF TypeOK
                <5> QED BY ONLY <4>1, <4>2, <5>1
            <4>4. Lines(p)[r] = 0 /\ Lines(p)'[r] = basket[r][p]
                BY <1>3, <3>0 DEF Lines, NoOrder, Empty
            <4>5. Numeric(Lines(p), mine)
                <5>1. \A s \in Requests : order[s].items \in Basket
                    BY <1>1 DEF TypeOK, Order
                <5>2. \A s \in Requests : Lines(p)[s] = order[s].items[p]
                    BY DEF Lines
                <5> QED BY <3>0, <5>1, <5>2, BasketIsNat DEF Numeric
            <4>6. SumFunctionOnSet(Lines(p)', mine) =
                      SumFunctionOnSet(Lines(p), mine) + Lines(p)'[r] - Lines(p)[r]
                <5>1. r \in mine
                    BY <3>4
                <5>2. \A s \in mine \ {r} : Lines(p)'[s] = Lines(p)[s]
                    BY <3>2
                <5>3. Lines(p)'[r] \in Int
                    BY <4>2, <4>4
                <5> HIDE DEF mine
                <5> QED BY ONLY <3>1, <4>5, <5>1, <5>2, <5>3, SumChange
            <4>7. SumFunctionOnSet(Lines(p), mine) \in Int
                BY <3>1, <4>5, SumType
            <4>8. Ordered(v, p) = SumFunctionOnSet(Lines(p), mine)
                BY DEF Ordered
            <4>9. Ordered(v, p)' = SumFunctionOnSet(Lines(p)', mine)
                BY DEF Ordered
            <4>10. cart[v][p] + Ordered(v, p) = c[v][p]
                BY <2>1
            <4> QED BY ONLY <3>4, <4>1, <4>2, <4>3, <4>4, <4>6, <4>7, <4>8, <4>9, <4>10
        <3> QED BY <3>3, <3>4
    <2> QED BY <1>2, <2>2 DEF Converted
<1> QED BY <1>2, <1>5, <1>6 DEF CartInv, WalletCartsConverted, OnlyWallets, UsesWallet
\* Nothing else changes what a cart and the orders add up to: the other steps
\* leave both alone, count as an edit, or delete the product.
LEMMA CartKept ==
    ASSUME TypeOK, CartInv, CartSteady', order' = order, edits' = edits,
           listed' \subseteq listed,
           \A u \in Users, p \in listed' : cart'[u][p] = cart[u][p]
    PROVE  CartInv'
<1> SUFFICES ASSUME edits = 0, NEW u \in Users, OnlyWallets(u)
             PROVE  Converted(u)'
    BY DEF CartInv, WalletCartsConverted, OnlyWallets, UsesWallet
<1>1. PICK c \in InitCarts : \A p \in listed : cart[u][p] + Ordered(u, p) = c[u][p]
    BY DEF CartInv, WalletCartsConverted, Converted
<1>2. \A p \in listed' : Ordered(u, p)' = Ordered(u, p)
    BY DEF Ordered, Lines
<1>3. \A p \in listed' : cart'[u][p] + Ordered(u, p)' = c[u][p]
    BY <1>1, <1>2
<1> QED BY <1>3 DEF Converted

LEMMA CartInvStep == Inv /\ Inv' /\ OrdersOnce /\ CartInv /\ [Next]_vars => CartInv'
<1> SUFFICES ASSUME Inv, Inv', OrdersOnce, CartInv, [Next]_vars PROVE CartInv'
    OBVIOUS
<1>0. TypeOK /\ TypeOK' /\ CartSteady
    BY DEF Inv, CartInv
<1>1. ASSUME CartSteady', UNCHANGED <<cart, order, listed, edits>> PROVE CartInv'
    BY <1>0, <1>1, CartKept
<1>2. ASSUME NEW r \in Requests, Refuse(r) \/ Abort(r) PROVE CartInv'
    BY <1>0, <1>1, <1>2, CartRollback
<1>3. ASSUME NEW r \in Requests, Step(r) PROVE CartInv'
    <2> USE <1>0
    <2>1. CASE LockUser(r)
        <3>1. CartSteady'
            BY <2>1 DEF LockUser, goods, CartSteady, OnlyWallets, UsesWallet, TypeOK
        <3> QED BY <2>1, <3>1, <1>1 DEF LockUser, goods
    <2>2. CASE ReadCart(r)
        <3>1. CartSteady'
            BY <2>2 DEF ReadCart, goods, CartSteady, OnlyWallets, UsesWallet, TypeOK
        <3> QED BY <2>2, <3>1, <1>1 DEF ReadCart, goods
    <2>3. ASSUME NEW p \in Products, LockProduct(r, p) PROVE CartInv'
        <3>1. CartSteady'
            BY <2>3 DEF LockProduct, goods, CartSteady, OnlyWallets, UsesWallet
        <3> QED BY <2>3, <3>1, <1>1 DEF LockProduct, goods
    <2>4. CASE Fulfil(r)
        <3>1. CartSteady'
            BY <2>4 DEF Fulfil, goods, CartSteady, OnlyWallets, UsesWallet, TypeOK
        <3> QED BY <2>4, <3>1, <1>1 DEF Fulfil, goods
    <2>5. CASE Commit(r)
        BY <2>5, CartCommit
    <2>6. CASE FindCartEmpty(r) \/ RefuseBasket(r) \/ Overflow(r) \/ DeadlockAbort(r)
        BY <2>6, <1>2 DEF FindCartEmpty, RefuseBasket, Overflow, DeadlockAbort
    <2> QED BY <1>3, <2>1, <2>2, <2>3, <2>4, <2>5, <2>6 DEF Step
<1>4. ASSUME NEW r \in Requests, Fault(r) PROVE CartInv'
    BY <1>2, <1>4 DEF Fault, LoseConnection, Crash
<1>5. ASSUME NEW u \in Users, CartEdit(u) PROVE CartInv'
    <2>1. edits' = edits + 1
        BY <1>5 DEF CartEdit, InsertItem, BumpItem, SetItem, RemoveItem, ClearCart, Edit
    <2>2. edits' # 0
        BY <2>1, <1>0, CheckoutAssumption DEF TypeOK
    <2> QED BY <2>2 DEF CartInv, CartSteady, WalletCartsConverted
<1>6. ASSUME NEW p \in Products, Admin(p) PROVE CartInv'
    <2>1. CASE DeleteProduct(p)
        <3>1. /\ listed' = listed \ {p} /\ UNCHANGED <<order, pc, basket, dropped, edits>>
              /\ \A u \in Users, q \in listed' : cart'[u][q] = cart[u][q]
            BY <2>1, <1>0 DEF DeleteProduct, local, TypeOK, Basket
        <3>2. CartSteady'
            BY <3>1, <1>0, CheckoutAssumption DEF CartSteady, OnlyWallets, UsesWallet
        <3> QED BY <1>0, <3>1, <3>2, CartKept
    <2>2. ASSUME NEW q \in 1 .. MaxStock, Restock(p, q) PROVE CartInv'
        <3>1. UNCHANGED <<cart, order, listed, pc, basket, dropped, edits>>
            BY <2>2 DEF Restock, local
        <3>2. CartSteady'
            BY <3>1, <1>0 DEF CartSteady, OnlyWallets, UsesWallet
        <3> QED BY <3>1, <3>2, <1>1
    <2> QED BY <1>6, <2>1, <2>2 DEF Admin
<1>7. CASE Finished \/ UNCHANGED vars
    <2>1. UNCHANGED <<cart, order, listed, pc, basket, dropped, edits>>
        BY <1>7 DEF Finished, vars, goods, local
    <2>2. CartSteady'
        BY <2>1, <1>0 DEF CartSteady, OnlyWallets, UsesWallet
    <2> QED BY <2>1, <2>2, <1>1
<1> QED BY <1>3, <1>4, <1>5, <1>6, <1>7 DEF Next

LEMMA CartInvInit == Init => CartInv
<1> SUFFICES ASSUME Init PROVE CartInv
    OBVIOUS
<1>1. CartSteady
    BY DEF Init, Start, CartSteady
<1>2. ASSUME NEW u \in Users PROVE Converted(u)
    <2>1. \A p \in listed : Ordered(u, p) = 0
        <3> SUFFICES ASSUME NEW p \in listed PROVE Ordered(u, p) = 0
            OBVIOUS
        <3> DEFINE mine == {r \in Requests : Owner[r] = u}
        <3>1. IsFiniteSet(mine)
            BY FiniteRequests, FS_Subset
        <3>2. \A r \in mine : Lines(p)[r] = 0
            BY DEF Init, Lines, NoOrder, Empty
        <3> QED BY <3>1, <3>2, SumZero DEF Ordered
    <2>2. \A p \in listed : cart[u][p] \in Int
        BY CheckoutAssumption, BasketIsNat DEF Init
    <2>3. \A p \in listed : cart[u][p] + Ordered(u, p) = cart[u][p]
        BY <2>1, <2>2
    <2> QED BY <2>3 DEF Init, Converted
<1> QED BY <1>1, <1>2 DEF CartInv, WalletCartsConverted

\* Checkouts convert the carts of the users who pay by wallet, whatever the
\* others do: each cart row is ordered once or still in the cart, however the
\* checkouts of a user interleave, fail or are retried.
THEOREM WalletUsersConvertCarts == Spec => []WalletCartsConverted
<1>1. Init => OrdersOnce
    BY DEF Init, OrdersOnce, Start
<1>2. Inv => TypeOK
    BY DEF Inv
<1>3. CartInv => WalletCartsConverted
    BY DEF CartInv
<1> QED BY <1>1, <1>2, <1>3, InitInv, NextInv, OrdersOnceStep, CartInvInit,
           CartInvStep, PTL DEF Spec

\* In a shop without card checkouts every cart is converted.
THEOREM WalletsConvertCarts ==
    (\A r \in Requests : UsesWallet(r)) => (Spec => []CartConverted)
<1> SUFFICES ASSUME \A r \in Requests : UsesWallet(r) PROVE Spec => []CartConverted
    OBVIOUS
<1>1. WalletCartsConverted => CartConverted
    BY DEF WalletCartsConverted, OnlyWallets, CartConverted
<1> QED BY <1>1, WalletUsersConvertCarts, PTL
============================================================================
