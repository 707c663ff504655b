-------------------------- MODULE CheckoutProofs ---------------------------
(***************************************************************************)
(* Safety of Checkout for every set of users, products and requests.       *)
(***************************************************************************)
EXTENDS Checkout, FiniteSetLemmas

\* A row lock has one holder, and product locks are held only while a
\* checkout is between reading its cart and committing.
LocksExclusive ==
    \A r, s \in Requests : r # s =>
        /\ held[r] \cap held[s] = {}
        /\ HoldsUser(r) /\ HoldsUser(s) => Owner[r] # Owner[s]

LocksOnlyInside ==
    \A r \in Requests : held[r] # {} => pc[r] \in {"lock", "commit"}

\* A checkout that is about to commit has passed every validation.
CommitIsValid ==
    \A r \in Requests : pc[r] = "commit" =>
        Fulfillable(r) /\ Cost(basket[r]) \in 0 .. MaxTotal

\* Cart rows are deleted by the last statement before the commit.
DropsOnlyInCommit ==
    \A r \in Requests : pc[r] \notin {"commit", "done"} => Rows(dropped[r]) = {}

\* A checkout locks and commits at least one line, and places one order.
OrdersOnce ==
    \A r \in Requests :
        /\ pc[r] # "done" => order[r] = NoOrder
        /\ pc[r] \in {"lock", "commit"} => basket[r] # Empty

\* What the user's cart can hold while a wallet checkout is under way.
CartWithinBasket ==
    \A r \in Requests : UsesWallet(r) /\ pc[r] = "lock" =>
        Rows(cart[Owner[r]]) \subseteq Rows(basket[r])

Inv ==
    /\ TypeOK
    /\ LocksExclusive
    /\ LocksOnlyInside
    /\ CommitIsValid
    /\ CopiesAreCurrent
    /\ LogExplainsStock
    /\ NeverOversold
    /\ CartWithinBasket
    /\ DropsOnlyInCommit
    /\ WalletDropsOnlyOrdered

----------------------------------------------------------------------------
LEMMA EmptyIsBasket ==
    Empty \in Basket /\ Empty \in [Products -> Nat] /\ NoOrder \in Order
BY CatalogAssumption DEF Empty, Basket, NoOrder, Order

LEMMA BasketIsNat == \A c \in Basket, p \in Products : c[p] \in Nat
BY CatalogAssumption DEF Basket

LEMMA NatIsInt == [Products -> Nat] \subseteq [Products -> Int]
OBVIOUS

LEMMA InitInv == Init => Inv
<1> SUFFICES ASSUME Init PROVE Inv
    OBVIOUS
<1> USE CatalogAssumption, CheckoutAssumption, EmptyIsBasket DEF Init
<1>1. TypeOK
    <2>1. /\ stock \in [Products -> Int] /\ wallet \in [Users -> Int]
          /\ restocked \in [Products -> Nat] /\ bought \in [Products -> Nat]
          /\ seen \in [Requests -> [Products -> Int]]
        BY NatIsInt
    <2>2. pc \in [Requests -> {"user", "read", "lock", "commit", "done", "failed"}]
        BY DEF Start
    <2>3. cart \in [Users -> Basket] /\ order \in [Requests -> Order]
        OBVIOUS
    <2>4. basket \in [Requests -> Basket] /\ dropped \in [Requests -> Basket]
        OBVIOUS
    <2>5. /\ held \in [Requests -> SUBSET Products] /\ funds \in [Requests -> Int]
          /\ tries \in [Requests -> 0 .. MaxRetries] /\ edits \in 0 .. MaxEdits
          /\ listed \subseteq Products
        OBVIOUS
    <2> QED BY <2>1, <2>2, <2>3, <2>4, <2>5 DEF TypeOK
<1>2. \A r \in Requests : held[r] = {} /\ ~HoldsUser(r) /\ pc[r] \in {"user", "read"}
    BY DEF HoldsUser, Start
<1>3. LocksExclusive /\ LocksOnlyInside /\ CommitIsValid /\ CartWithinBasket
    BY <1>2 DEF LocksExclusive, LocksOnlyInside, CommitIsValid, CartWithinBasket
<1>4. CopiesAreCurrent
    BY <1>2 DEF CopiesAreCurrent
<1>5. LogExplainsStock /\ NeverOversold
    BY DEF LogExplainsStock, NeverOversold, Empty
<1>6. WalletDropsOnlyOrdered /\ DropsOnlyInCommit
    BY DEF WalletDropsOnlyOrdered, DropsOnlyInCommit, Rows, Empty
<1> QED BY <1>1, <1>3, <1>4, <1>5, <1>6 DEF Inv

\* A transaction that ends without committing leaves the committed rows alone
\* and frees what it held.
LEMMA RollbackInv ==
    ASSUME Inv, NEW r \in Requests, NEW to \in {Start(r), "failed"},
           Rollback(r, to), tries' \in [Requests -> 0 .. MaxRetries]
    PROVE  Inv'
<1> USE CheckoutAssumption, EmptyIsBasket DEF Inv
<1>1. TypeOK'
    <2> USE DEF TypeOK, Rollback, goods
    <2>1. seen' \in [Requests -> [Products -> Int]]
        BY NatIsInt
    <2>2. pc' \in [Requests -> {"user", "read", "lock", "commit", "done", "failed"}]
        BY DEF Start
    <2>3. /\ basket' \in [Requests -> Basket] /\ dropped' \in [Requests -> Basket]
          /\ held' \in [Requests -> SUBSET Products] /\ funds' \in [Requests -> Int]
        OBVIOUS
    <2> QED BY <2>1, <2>2, <2>3
<1>2. /\ held'[r] = {} /\ ~HoldsUser(r)' /\ pc'[r] \notin {"lock", "commit"}
      /\ \A s \in Requests \ {r} :
            /\ held'[s] = held[s] /\ seen'[s] = seen[s] /\ funds'[s] = funds[s]
            /\ basket'[s] = basket[s] /\ dropped'[s] = dropped[s]
            /\ pc'[s] = pc[s] /\ HoldsUser(s)' = HoldsUser(s)
    BY DEF TypeOK, Rollback, Start, HoldsUser, UsesWallet
<1>3. UNCHANGED <<stock, restocked, bought, wallet, cart>>
    BY DEF Rollback, goods
<1>4. LocksExclusive' /\ LocksOnlyInside' /\ CopiesAreCurrent'
    BY <1>2, <1>3 DEF LocksExclusive, LocksOnlyInside, CopiesAreCurrent
<1>5. CommitIsValid'
    <2> SUFFICES ASSUME NEW s \in Requests, pc'[s] = "commit"
                 PROVE  Fulfillable(s)' /\ Cost(basket[s])' \in 0 .. MaxTotal
        BY DEF CommitIsValid
    <2>1. s # r /\ Fulfillable(s) /\ Cost(basket[s]) \in 0 .. MaxTotal
        BY <1>2 DEF CommitIsValid
    <2>2. Cost(basket[s])' = Cost(basket[s])
        BY <2>1, <1>2
    <2> QED BY <2>1, <2>2, <1>2 DEF Fulfillable, UsesWallet, Rows
<1>8. CartWithinBasket'
    BY <1>2, <1>3 DEF CartWithinBasket, UsesWallet, Rows
<1>6. LogExplainsStock' /\ NeverOversold'
    BY <1>3 DEF LogExplainsStock, NeverOversold
<1>7. WalletDropsOnlyOrdered' /\ DropsOnlyInCommit'
    <2>1. Rows(dropped'[r]) = {}
        BY DEF Rollback, TypeOK, Rows, Empty
    <2> QED BY <2>1, <1>2 DEF WalletDropsOnlyOrdered, DropsOnlyInCommit, UsesWallet, Rows
<1> QED BY <1>1, <1>4, <1>5, <1>6, <1>7, <1>8

LEMMA RefuseInv == ASSUME Inv, NEW r \in Requests, Refuse(r) PROVE Inv'
BY RollbackInv DEF Refuse, Inv, TypeOK

LEMMA AbortInv == ASSUME Inv, NEW r \in Requests, Abort(r) PROVE Inv'
<1>1. tries' \in [Requests -> 0 .. MaxRetries]
    BY CheckoutAssumption DEF Inv, TypeOK, Abort
<1>2. PICK to \in {Start(r), "failed"} : Rollback(r, to)
    BY DEF Abort
<1> QED BY <1>1, <1>2, RollbackInv

\* A cart edit adds no row under a wallet checkout of the same user.
LEMMA EditInv ==
    ASSUME Inv, NEW u \in Users, NEW b \in Basket, Edit(u, b),
           Rows(b) \subseteq Rows(cart[u]) \/ ~UserBusy(u)
    PROVE  Inv'
<1> USE CheckoutAssumption DEF Inv
<1>1. TypeOK'
    BY DEF TypeOK, Edit, goods, local
<1>2. UNCHANGED <<goods, wallet, order, pc, local, tries>>
    BY DEF Edit
<1>3. LocksExclusive' /\ LocksOnlyInside' /\ CopiesAreCurrent'
    BY <1>2 DEF goods, local, LocksExclusive, LocksOnlyInside, CopiesAreCurrent,
       HoldsUser, UsesWallet
<1>5. /\ LogExplainsStock' /\ NeverOversold'
      /\ WalletDropsOnlyOrdered' /\ DropsOnlyInCommit'
    BY <1>2 DEF goods, local, LogExplainsStock, NeverOversold,
       WalletDropsOnlyOrdered, DropsOnlyInCommit, UsesWallet, Rows
<1>6. CommitIsValid'
    <2>1. \A r \in Requests : Cost(basket[r])' = Cost(basket[r])
        BY <1>2 DEF local
    <2> QED BY <1>2, <2>1 DEF local, CommitIsValid, Fulfillable, UsesWallet, Rows
<1>4. CartWithinBasket'
    <2> SUFFICES ASSUME NEW r \in Requests, UsesWallet(r), pc[r] = "lock"
                 PROVE  Rows(cart'[Owner[r]]) \subseteq Rows(basket[r])
        BY <1>2 DEF CartWithinBasket, local, UsesWallet, Rows
    <2>1. CASE Owner[r] = u
        <3>1. Rows(b) \subseteq Rows(cart[u])
            BY <2>1 DEF UserBusy, HoldsUser
        <3> QED BY <2>1, <3>1 DEF Edit, TypeOK, CartWithinBasket
    <2>2. CASE Owner[r] # u
        BY <2>2 DEF Edit, TypeOK, CartWithinBasket
    <2> QED BY <2>1, <2>2
<1> QED BY <1>1, <1>3, <1>4, <1>5, <1>6

\* The wallet is read under the lock, so the copy is current.
LEMMA LockUserInv == ASSUME Inv, NEW r \in Requests, LockUser(r) PROVE Inv'
<1> USE CheckoutAssumption DEF Inv
<1>1. TypeOK'
    BY DEF TypeOK, LockUser, goods
<1>2. /\ UNCHANGED <<stock, restocked, bought, wallet, cart, basket, held, seen, dropped>>
      /\ pc[r] = "user" /\ pc' = [pc EXCEPT ![r] = "read"]
      /\ funds' = [funds EXCEPT ![r] = wallet[Owner[r]]]
    BY DEF LockUser, goods
<1>3. \A s \in Requests \ {r} : HoldsUser(s)' = HoldsUser(s) /\ pc'[s] = pc[s]
                                /\ funds'[s] = funds[s]
    BY <1>2 DEF TypeOK, HoldsUser, UsesWallet
<1>4. \A s \in Requests \ {r} : Owner[s] = Owner[r] => ~HoldsUser(s)
    BY <1>2 DEF LockUser, WaitsFor
<1>5. LocksExclusive' /\ LocksOnlyInside'
    BY <1>2, <1>3, <1>4 DEF LocksExclusive, LocksOnlyInside, TypeOK
<1>6. CopiesAreCurrent'
    BY <1>2, <1>3 DEF CopiesAreCurrent, TypeOK
<1>7. CommitIsValid'
    <2> SUFFICES ASSUME NEW s \in Requests, pc'[s] = "commit"
                 PROVE  Fulfillable(s)' /\ Cost(basket[s])' \in 0 .. MaxTotal
        BY DEF CommitIsValid
    <2>1. s # r /\ Fulfillable(s) /\ Cost(basket[s]) \in 0 .. MaxTotal
        BY <1>2, <1>3 DEF CommitIsValid, TypeOK
    <2>2. Cost(basket[s])' = Cost(basket[s])
        BY <1>2
    <2> QED BY <2>1, <2>2, <1>2, <1>3 DEF Fulfillable, UsesWallet, Rows
<1>8. LogExplainsStock' /\ NeverOversold' /\ WalletDropsOnlyOrdered'
    BY <1>2 DEF LogExplainsStock, NeverOversold, WalletDropsOnlyOrdered, UsesWallet, Rows
<1>9. CartWithinBasket' /\ DropsOnlyInCommit'
    BY <1>2, <1>3 DEF CartWithinBasket, DropsOnlyInCommit, TypeOK, UsesWallet, Rows
<1> QED BY <1>1, <1>5, <1>6, <1>7, <1>8, <1>9

LEMMA ReadCartInv == ASSUME Inv, NEW r \in Requests, ReadCart(r) PROVE Inv'
<1> USE CheckoutAssumption DEF Inv
<1>1. TypeOK'
    BY DEF TypeOK, ReadCart, goods
<1>2. /\ UNCHANGED <<stock, restocked, bought, wallet, cart, held, seen, funds, dropped>>
      /\ pc[r] = "read" /\ pc' = [pc EXCEPT ![r] = "lock"]
      /\ basket' = [basket EXCEPT ![r] = cart[Owner[r]]]
    BY DEF ReadCart, goods
<1>3. \A s \in Requests \ {r} : pc'[s] = pc[s] /\ basket'[s] = basket[s]
    BY <1>2 DEF TypeOK
<1>4. \A s \in Requests : HoldsUser(s)' = HoldsUser(s)
    BY <1>2 DEF TypeOK, HoldsUser, UsesWallet
<1>5. LocksExclusive' /\ LocksOnlyInside' /\ CopiesAreCurrent'
    BY <1>2, <1>4 DEF LocksExclusive, LocksOnlyInside, CopiesAreCurrent, TypeOK
<1>6. CommitIsValid'
    <2> SUFFICES ASSUME NEW s \in Requests, pc'[s] = "commit"
                 PROVE  Fulfillable(s)' /\ Cost(basket[s])' \in 0 .. MaxTotal
        BY DEF CommitIsValid
    <2>1. s # r /\ Fulfillable(s) /\ Cost(basket[s]) \in 0 .. MaxTotal
        BY <1>2, <1>3 DEF CommitIsValid, TypeOK
    <2>2. Cost(basket[s])' = Cost(basket[s])
        BY <2>1, <1>3
    <2> QED BY <2>1, <2>2, <1>2, <1>3 DEF Fulfillable, UsesWallet, Rows
<1>7. LogExplainsStock' /\ NeverOversold'
    BY <1>2 DEF LogExplainsStock, NeverOversold
<1>8. CartWithinBasket'
    BY <1>2, <1>3 DEF CartWithinBasket, TypeOK, UsesWallet, Rows
<1>9. WalletDropsOnlyOrdered' /\ DropsOnlyInCommit'
    <2>1. Rows(dropped[r]) = {}
        BY <1>2 DEF DropsOnlyInCommit
    <2> QED BY <2>1, <1>2, <1>3 DEF WalletDropsOnlyOrdered, DropsOnlyInCommit, UsesWallet, Rows
<1> QED BY <1>1, <1>5, <1>6, <1>7, <1>8, <1>9

\* The product is read under its lock; nobody else holds it.
LEMMA LockProductInv ==
    ASSUME Inv, NEW r \in Requests, NEW p \in Products, LockProduct(r, p)
    PROVE  Inv'
<1> USE CheckoutAssumption DEF Inv
<1>1. TypeOK'
    <2>1. seen' \in [Requests -> [Products -> Int]]
        BY DEF TypeOK, LockProduct
    <2> QED BY <2>1 DEF TypeOK, LockProduct, goods
<1>2. /\ UNCHANGED <<stock, restocked, bought, wallet, cart, pc, basket, funds, dropped>>
      /\ pc[r] = "lock"
      /\ held' = [held EXCEPT ![r] = @ \cup {p}]
      /\ \A s \in Requests : p \notin held[s]
    BY DEF LockProduct, ProductBusy, goods
<1>3. /\ \A s \in Requests \ {r} : seen'[s] = seen[s] /\ held'[s] = held[s]
      /\ seen'[r][p] = stock[p]
      /\ \A q \in Products \ {p} : seen'[r][q] = seen[r][q]
    BY DEF TypeOK, LockProduct
<1>4. \A s \in Requests : HoldsUser(s)' = HoldsUser(s)
    BY <1>2 DEF HoldsUser, UsesWallet
<1>5. LocksExclusive' /\ LocksOnlyInside'
    BY <1>2, <1>4 DEF LocksExclusive, LocksOnlyInside, TypeOK
<1>6. CopiesAreCurrent'
    BY <1>2, <1>3, <1>4 DEF CopiesAreCurrent, TypeOK
<1>7. CommitIsValid'
    <2> SUFFICES ASSUME NEW s \in Requests, pc'[s] = "commit"
                 PROVE  Fulfillable(s)' /\ Cost(basket[s])' \in 0 .. MaxTotal
        BY DEF CommitIsValid
    <2>1. s # r /\ Fulfillable(s) /\ Cost(basket[s]) \in 0 .. MaxTotal
        BY <1>2 DEF CommitIsValid
    <2>2. Cost(basket[s])' = Cost(basket[s])
        BY <1>2
    <2> QED BY <2>1, <2>2, <1>2, <1>3 DEF Fulfillable, UsesWallet, Rows
<1>8. LogExplainsStock' /\ NeverOversold' /\ WalletDropsOnlyOrdered' /\ CartWithinBasket'
    BY <1>2 DEF LogExplainsStock, NeverOversold, WalletDropsOnlyOrdered,
       CartWithinBasket, UsesWallet, Rows
<1>9. DropsOnlyInCommit'
    BY <1>2 DEF DropsOnlyInCommit, Rows
<1> QED BY <1>1, <1>5, <1>6, <1>7, <1>8, <1>9

LEMMA FulfilInv == ASSUME Inv, NEW r \in Requests, Fulfil(r) PROVE Inv'
<1> USE CheckoutAssumption DEF Inv
<1>1. TypeOK'
    BY DEF TypeOK, Fulfil, goods
<1>2. /\ UNCHANGED <<stock, restocked, bought, wallet, cart, basket, held, seen, funds>>
      /\ pc[r] = "lock" /\ pc' = [pc EXCEPT ![r] = "commit"]
      /\ dropped' = [dropped EXCEPT ![r] = cart[Owner[r]]]
      /\ Fulfillable(r) /\ Cost(basket[r]) \in 0 .. MaxTotal
    BY DEF Fulfil, goods
<1>3. \A s \in Requests : HoldsUser(s)' = HoldsUser(s)
    BY <1>2 DEF TypeOK, HoldsUser, UsesWallet
<1>4. LocksExclusive' /\ LocksOnlyInside' /\ CopiesAreCurrent'
    BY <1>2, <1>3 DEF LocksExclusive, LocksOnlyInside, CopiesAreCurrent, TypeOK
<1>5. CommitIsValid'
    <2> SUFFICES ASSUME NEW s \in Requests, pc'[s] = "commit"
                 PROVE  Fulfillable(s)' /\ Cost(basket[s])' \in 0 .. MaxTotal
        BY DEF CommitIsValid
    <2>1. Fulfillable(s) /\ Cost(basket[s]) \in 0 .. MaxTotal
        BY <1>2 DEF CommitIsValid, TypeOK
    <2>2. Cost(basket[s])' = Cost(basket[s])
        BY <1>2
    <2> QED BY <2>1, <2>2, <1>2 DEF Fulfillable, UsesWallet, Rows
<1>6. LogExplainsStock' /\ NeverOversold'
    BY <1>2 DEF LogExplainsStock, NeverOversold
<1>7. CartWithinBasket' /\ DropsOnlyInCommit'
    BY <1>2 DEF CartWithinBasket, DropsOnlyInCommit, TypeOK, UsesWallet, Rows
<1>8. WalletDropsOnlyOrdered'
    BY <1>2 DEF WalletDropsOnlyOrdered, CartWithinBasket, TypeOK, UsesWallet, Rows
<1> QED BY <1>1, <1>4, <1>5, <1>6, <1>7, <1>8

\* The writes are computed from the locked copies; exclusion and currency of
\* the copies make them the right ones.
LEMMA CommitInv == ASSUME Inv, NEW r \in Requests, Commit(r) PROVE Inv'
<1> USE CheckoutAssumption DEF Inv
<1> DEFINE b == basket[r]
           u == Owner[r]
<1>1. /\ pc[r] = "commit" /\ pc' = [pc EXCEPT ![r] = "done"]
      /\ held' = [held EXCEPT ![r] = {}]
      /\ UNCHANGED <<restocked, basket, seen, funds, dropped>>
    BY DEF Commit
<1>2. /\ b \in Basket /\ u \in Users
      /\ Fulfillable(r) /\ Cost(b) \in 0 .. MaxTotal
    BY <1>1 DEF TypeOK, CommitIsValid
<1>3. \A p \in Products : b[p] \in Nat
    BY <1>2, BasketIsNat
<1>4. \A p \in Products : stock'[p] = stock[p] - b[p]
                          /\ (b[p] > 0 => p \in held[r] /\ b[p] <= stock[p])
    <2> SUFFICES ASSUME NEW p \in Products
                 PROVE  stock'[p] = stock[p] - b[p]
                        /\ (b[p] > 0 => p \in held[r] /\ b[p] <= stock[p])
        OBVIOUS
    <2>1. stock'[p] = IF p \in Rows(b) THEN seen[r][p] - b[p] ELSE stock[p]
        BY DEF Commit, Deducted
    <2>2. stock[p] \in Int
        BY DEF TypeOK
    <2>3. CASE b[p] > 0
        BY <2>1, <2>2, <2>3, <1>2, <1>3 DEF Fulfillable, CopiesAreCurrent, Rows
    <2>4. CASE b[p] = 0
        BY <2>1, <2>2, <2>4 DEF Rows
    <2> QED BY <2>3, <2>4, <1>3
<1>5. stock' \in [Products -> Int]
    <2>1. stock' = [p \in Products |-> stock'[p]]
        BY DEF Commit, Deducted
    <2>2. \A p \in Products : stock[p] \in Int
        BY DEF TypeOK
    <2>3. \A p \in Products : stock'[p] \in Int
        BY ONLY <2>2, <1>3, <1>4
    <2> QED BY ONLY <2>1, <2>3
<1>6. bought' = [p \in Products |-> bought[p] + b[p]]
    BY DEF Commit
<1>7. wallet' = IF UsesWallet(r) THEN [wallet EXCEPT ![u] = wallet[u] - Cost(b)] ELSE wallet
    <2>1. UsesWallet(r) => funds[r] = wallet[u]
        BY <1>1 DEF CopiesAreCurrent, HoldsUser
    <2> QED BY <2>1 DEF Commit
<1>8. UsesWallet(r) => Cost(b) <= wallet[u]
    BY <1>1, <1>2 DEF Fulfillable, CopiesAreCurrent, HoldsUser
<1>9. /\ cart' \in [Users -> Basket]
      /\ \A v \in Users : Rows(cart'[v]) \subseteq Rows(cart[v])
    <2> DEFINE rest == [p \in Products |-> IF dropped[r][p] > 0 THEN 0 ELSE cart[u][p]]
    <2>1. cart' = [cart EXCEPT ![u] = rest]
        BY DEF Commit
    <2>2. rest \in Basket
        BY <1>2, CatalogAssumption DEF TypeOK, Basket
    <2>3. Rows(rest) \subseteq Rows(cart[u])
        BY DEF Rows
    <2> HIDE DEF rest
    <2> QED BY <2>1, <2>2, <2>3, <1>2 DEF TypeOK
<1>10. order' \in [Requests -> Order]
    <2>1. [items |-> b, total |-> Cost(b), paid |-> UsesWallet(r)] \in Order
        BY <1>2 DEF Order, UsesWallet
    <2> QED BY <2>1 DEF Commit, TypeOK
<1>11. TypeOK'
    <2>1. bought' \in [Products -> Nat]
        BY <1>3, <1>6 DEF TypeOK
    <2>2. wallet' \in [Users -> Int]
        BY <1>2, <1>7 DEF TypeOK
    <2> QED BY <2>1, <2>2, <1>1, <1>5, <1>9, <1>10 DEF TypeOK, Commit
<1>12. \A s \in Requests \ {r} : HoldsUser(s)' = HoldsUser(s) /\ pc'[s] = pc[s]
                                 /\ held'[s] = held[s]
    BY <1>1 DEF TypeOK, HoldsUser, UsesWallet
<1>13. ~HoldsUser(r)' /\ held'[r] = {}
    BY <1>1 DEF TypeOK, HoldsUser, UsesWallet
<1>14. LocksExclusive' /\ LocksOnlyInside'
    BY <1>12, <1>13 DEF LocksExclusive, LocksOnlyInside
<1>15. CopiesAreCurrent'
    <2> SUFFICES ASSUME NEW s \in Requests, s # r
                 PROVE  /\ \A p \in held[s] : seen[s][p] = stock'[p]
                        /\ HoldsUser(s) => funds[s] = wallet'[Owner[s]]
        BY <1>1, <1>12, <1>13 DEF CopiesAreCurrent
    <2>1. \A p \in held[s] : p \in Products /\ b[p] = 0
        BY <1>3, <1>4 DEF LocksExclusive, TypeOK
    <2>2. \A p \in held[s] : stock'[p] = stock[p]
        BY <2>1, <1>4 DEF TypeOK
    <2>3. HoldsUser(s) => wallet'[Owner[s]] = wallet[Owner[s]]
        BY <1>1, <1>7 DEF LocksExclusive, HoldsUser, TypeOK
    <2> QED BY <2>2, <2>3 DEF CopiesAreCurrent
<1>16. CommitIsValid'
    <2> SUFFICES ASSUME NEW s \in Requests, pc'[s] = "commit"
                 PROVE  Fulfillable(s)' /\ Cost(basket[s])' \in 0 .. MaxTotal
        BY DEF CommitIsValid
    <2>1. s # r /\ Fulfillable(s) /\ Cost(basket[s]) \in 0 .. MaxTotal
        BY <1>1, <1>12 DEF CommitIsValid, TypeOK
    <2>2. Cost(basket[s])' = Cost(basket[s])
        BY <1>1
    <2> QED BY <2>1, <2>2, <1>1, <1>12 DEF Fulfillable, UsesWallet, Rows
<1>17. LogExplainsStock'
    BY <1>1, <1>3, <1>4, <1>6 DEF LogExplainsStock, TypeOK
<1>18. NeverOversold'
    <2>1. \A p \in Products : stock'[p] >= 0
        BY <1>3, <1>4 DEF NeverOversold, TypeOK
    <2>2. \A v \in Users : wallet'[v] >= 0
        BY <1>2, <1>7, <1>8 DEF NeverOversold, TypeOK
    <2> QED BY <2>1, <2>2 DEF NeverOversold
<1>19. CartWithinBasket'
    BY <1>1, <1>9, <1>12 DEF CartWithinBasket, TypeOK, UsesWallet, Rows
<1>20. WalletDropsOnlyOrdered' /\ DropsOnlyInCommit'
    BY <1>1, <1>12 DEF WalletDropsOnlyOrdered, DropsOnlyInCommit, UsesWallet, Rows, TypeOK
<1> QED BY <1>11, <1>14, <1>15, <1>16, <1>17, <1>18, <1>19, <1>20

LEMMA RestockInv ==
    ASSUME Inv, NEW p \in Products, NEW q \in 1 .. MaxStock, Restock(p, q)
    PROVE  Inv'
<1> USE CheckoutAssumption DEF Inv
<1>1. TypeOK'
    BY DEF TypeOK, Restock, local
<1>2. /\ stock' = [stock EXCEPT ![p] = @ + q]
      /\ restocked' = [restocked EXCEPT ![p] = @ + q]
      /\ UNCHANGED <<bought, wallet, cart, pc, local>>
      /\ \A r \in Requests : p \notin held[r]
    BY DEF Restock, ProductBusy
<1>3. LocksExclusive' /\ LocksOnlyInside'
    BY <1>2 DEF local, LocksExclusive, LocksOnlyInside, HoldsUser, UsesWallet
<1>4. CopiesAreCurrent'
    BY <1>2 DEF local, CopiesAreCurrent, HoldsUser, UsesWallet, TypeOK
<1>5. LogExplainsStock' /\ NeverOversold'
    BY <1>2 DEF LogExplainsStock, NeverOversold, TypeOK
<1>6. /\ CartWithinBasket' /\ WalletDropsOnlyOrdered' /\ DropsOnlyInCommit'
    BY <1>2 DEF local, CartWithinBasket, WalletDropsOnlyOrdered,
       DropsOnlyInCommit, UsesWallet, Rows
<1>7. CommitIsValid'
    <2>1. \A r \in Requests : Cost(basket[r])' = Cost(basket[r])
        BY <1>2 DEF local
    <2> QED BY <1>2, <2>1 DEF local, CommitIsValid, Fulfillable, UsesWallet, Rows
<1> QED BY <1>1, <1>3, <1>4, <1>5, <1>6, <1>7

LEMMA DeleteProductInv ==
    ASSUME Inv, NEW p \in Products, DeleteProduct(p) PROVE Inv'
<1> USE CheckoutAssumption DEF Inv
<1>1. /\ cart' \in [Users -> Basket]
      /\ \A u \in Users : Rows(cart'[u]) \subseteq Rows(cart[u])
    <2>1. \A u \in Users : [cart[u] EXCEPT ![p] = 0] \in Basket
        BY CatalogAssumption DEF TypeOK, Basket
    <2>2. \A u \in Users : Rows([cart[u] EXCEPT ![p] = 0]) \subseteq Rows(cart[u])
        BY DEF TypeOK, Basket, Rows
    <2> QED BY <2>1, <2>2 DEF DeleteProduct
<1>2. TypeOK'
    BY <1>1 DEF TypeOK, DeleteProduct, local
<1>3. UNCHANGED <<stock, restocked, bought, wallet, pc, local>>
    BY DEF DeleteProduct
<1>4. LocksExclusive' /\ LocksOnlyInside' /\ CopiesAreCurrent'
    BY <1>3 DEF local, LocksExclusive, LocksOnlyInside, CopiesAreCurrent,
       HoldsUser, UsesWallet
<1>5. LogExplainsStock' /\ NeverOversold' /\ WalletDropsOnlyOrdered' /\ DropsOnlyInCommit'
    BY <1>3 DEF local, LogExplainsStock, NeverOversold, WalletDropsOnlyOrdered,
       DropsOnlyInCommit, UsesWallet, Rows
<1>6. CartWithinBasket'
    BY <1>1, <1>3 DEF local, CartWithinBasket, UsesWallet, Rows
<1>7. CommitIsValid'
    <2>1. \A r \in Requests : Cost(basket[r])' = Cost(basket[r])
        BY <1>3 DEF local
    <2> QED BY <1>3, <2>1 DEF local, CommitIsValid, Fulfillable, UsesWallet, Rows
<1> QED BY <1>2, <1>4, <1>5, <1>6, <1>7

LEMMA CartEditInv == ASSUME Inv, NEW u \in Users, CartEdit(u) PROVE Inv'
<1> USE CatalogAssumption
<1> SUFFICES ASSUME NEW b \in Basket, Edit(u, b),
                    Rows(b) \subseteq Rows(cart[u]) \/ ~UserBusy(u)
             PROVE  Inv'
    <2>1. cart[u] \in Basket
        BY DEF Inv, TypeOK
    <2>2. CASE \E p \in Products, q \in 1 .. MaxQty : InsertItem(u, p, q)
        <3> PICK p \in Products, q \in 1 .. MaxQty : InsertItem(u, p, q)
            BY <2>2
        <3>1. [cart[u] EXCEPT ![p] = q] \in Basket
            BY <2>1 DEF Basket
        <3> QED BY <3>1 DEF InsertItem
    <2>3. CASE \E p \in Products, q \in 1 .. MaxQty : BumpItem(u, p, q)
        <3> PICK p \in Products, q \in 1 .. MaxQty : BumpItem(u, p, q)
            BY <2>3
        <3> DEFINE b == [cart[u] EXCEPT ![p] = @ + q]
        <3>1. cart[u][p] \in Nat /\ cart[u][p] > 0 /\ cart[u][p] + q <= MaxQty
            BY <2>1, BasketIsNat DEF BumpItem
        <3>3. cart[u][p] + q \in 0 .. MaxQty
            BY <3>1
        <3>4. b \in Basket
            BY <2>1, <3>3 DEF Basket
        <3>5. Rows(b) \subseteq Rows(cart[u])
            BY <2>1, <3>1 DEF Basket, Rows
        <3>2. Edit(u, b)
            BY DEF BumpItem
        <3> HIDE DEF b
        <3> QED BY <3>2, <3>4, <3>5
    <2>4. CASE \E p \in Products, q \in 1 .. MaxQty : SetItem(u, p, q)
        <3> PICK p \in Products, q \in 1 .. MaxQty : SetItem(u, p, q)
            BY <2>4
        <3>1. [cart[u] EXCEPT ![p] = q] \in Basket
            BY <2>1 DEF Basket
        <3>2. Rows([cart[u] EXCEPT ![p] = q]) \subseteq Rows(cart[u])
            BY <2>1 DEF Basket, SetItem, Rows
        <3> QED BY <3>1, <3>2 DEF SetItem
    <2>5. CASE \E p \in Products : RemoveItem(u, p)
        <3> PICK p \in Products : RemoveItem(u, p)
            BY <2>5
        <3>1. [cart[u] EXCEPT ![p] = 0] \in Basket
            BY <2>1 DEF Basket
        <3>2. Rows([cart[u] EXCEPT ![p] = 0]) \subseteq Rows(cart[u])
            BY <2>1 DEF Basket, Rows
        <3> QED BY <3>1, <3>2 DEF RemoveItem
    <2>6. CASE ClearCart(u)
        <3>1. Rows(Empty) \subseteq Rows(cart[u])
            BY DEF Empty, Rows
        <3>2. Edit(u, Empty)
            BY <2>6 DEF ClearCart
        <3> QED BY <3>1, <3>2, EmptyIsBasket
    <2>7. \/ \E p \in Products, q \in 1 .. MaxQty : InsertItem(u, p, q)
          \/ \E p \in Products, q \in 1 .. MaxQty : BumpItem(u, p, q)
          \/ \E p \in Products, q \in 1 .. MaxQty : SetItem(u, p, q)
          \/ \E p \in Products : RemoveItem(u, p)
          \/ ClearCart(u)
        BY Zenon DEF CartEdit
    <2> QED BY ONLY <2>2, <2>3, <2>4, <2>5, <2>6, <2>7, Zenon
<1> QED BY EditInv

LEMMA StutterInv == ASSUME Inv, UNCHANGED vars PROVE Inv'
<1>1. \A r \in Requests : Cost(basket[r])' = Cost(basket[r])
    BY DEF vars, local
<1> QED BY <1>1 DEF vars, goods, local, Inv, TypeOK, LocksExclusive,
    LocksOnlyInside, CommitIsValid, CopiesAreCurrent, LogExplainsStock,
    NeverOversold, CartWithinBasket, DropsOnlyInCommit, WalletDropsOnlyOrdered,
    HoldsUser, UsesWallet, Fulfillable, Rows

LEMMA NextInv == Inv /\ [Next]_vars => Inv'
<1> SUFFICES ASSUME Inv, [Next]_vars PROVE Inv'
    OBVIOUS
<1>1. ASSUME NEW r \in Requests, Step(r) PROVE Inv'
    BY <1>1, LockUserInv, ReadCartInv, RefuseInv, LockProductInv, FulfilInv,
       AbortInv, CommitInv
    DEF Step, FindCartEmpty, RefuseBasket, Overflow, DeadlockAbort
<1>2. ASSUME NEW r \in Requests, Fault(r) PROVE Inv'
    BY <1>2, RefuseInv, AbortInv DEF Fault, LoseConnection, Crash
<1>3. ASSUME NEW p \in Products, Admin(p) PROVE Inv'
    BY <1>3, RestockInv, DeleteProductInv DEF Admin
<1>4. CASE Finished \/ UNCHANGED vars
    BY <1>4, StutterInv DEF Finished
<1> QED BY <1>1, <1>2, <1>3, <1>4, CartEditInv DEF Next

----------------------------------------------------------------------------
(* OrdersOnce is an invariant of its own: it needs types only. *)

LEMMA OrdersOnceStep == TypeOK /\ OrdersOnce /\ [Next]_vars => OrdersOnce'
<1> SUFFICES ASSUME TypeOK, OrdersOnce, [Next]_vars PROVE OrdersOnce'
    OBVIOUS
<1> USE DEF OrdersOnce, TypeOK
<1>0. ASSUME NEW r \in Requests, NEW to \in {Start(r), "failed"}, Rollback(r, to),
             pc[r] # "done"
      PROVE  OrdersOnce'
    <2>1. pc'[r] \in {"user", "read", "failed"} /\ order' = order
        BY <1>0 DEF Rollback, Start
    <2>2. \A s \in Requests \ {r} : pc'[s] = pc[s] /\ basket'[s] = basket[s]
        BY <1>0 DEF Rollback
    <2> QED BY <1>0, <2>1, <2>2
<1>1. ASSUME NEW r \in Requests, Refuse(r) \/ Abort(r), pc[r] # "done"
      PROVE  OrdersOnce'
    <2>1. PICK to \in {Start(r), "failed"} : Rollback(r, to)
        BY <1>1 DEF Refuse, Abort
    <2> QED BY <2>1, <1>0, <1>1
<1>2. ASSUME NEW r \in Requests, Step(r) PROVE OrdersOnce'
    <2>1. CASE LockUser(r)
        BY <2>1 DEF LockUser
    <2>2. CASE ReadCart(r)
        BY <2>2 DEF ReadCart
    <2>3. ASSUME NEW p \in Products, LockProduct(r, p) PROVE OrdersOnce'
        BY <2>3 DEF LockProduct
    <2>4. CASE Fulfil(r)
        BY <2>4 DEF Fulfil
    <2>5. CASE Commit(r)
        BY <2>5 DEF Commit
    <2>6. CASE FindCartEmpty(r) \/ RefuseBasket(r) \/ Overflow(r) \/ DeadlockAbort(r)
        <3>1. OnCycle(r) => pc[r] # "done"
            <4>1. OnCycle(r) => WaitsFor(r) # {}
                BY DEF OnCycle, Stuck
            <4>2. WaitsFor(r) # {} => pc[r] \in {"user", "lock", "commit"}
                BY DEF WaitsFor
            <4> QED BY <4>1, <4>2
        <3> QED BY <2>6, <3>1, <1>1
                DEF FindCartEmpty, RefuseBasket, Overflow, DeadlockAbort
    <2> QED BY <1>2, <2>1, <2>2, <2>3, <2>4, <2>5, <2>6 DEF Step
<1>3. ASSUME NEW r \in Requests, Fault(r) PROVE OrdersOnce'
    BY <1>3, <1>1 DEF Fault, LoseConnection, Crash, Running
<1>4. ASSUME UNCHANGED <<order, pc, basket>> PROVE OrdersOnce'
    BY <1>4
<1>5. ASSUME NEW u \in Users, CartEdit(u) PROVE OrdersOnce'
    <2>1. UNCHANGED <<order, pc, basket>>
        BY <1>5 DEF CartEdit, InsertItem, BumpItem, SetItem, RemoveItem,
           ClearCart, Edit, local
    <2> QED BY <2>1, <1>4
<1>6. ASSUME NEW p \in Products, Admin(p) PROVE OrdersOnce'
    <2>1. UNCHANGED <<order, pc, basket>>
        BY <1>6 DEF Admin, Restock, DeleteProduct, local
    <2> QED BY <2>1, <1>4
<1>7. CASE Finished \/ UNCHANGED vars
    BY <1>4, <1>7 DEF Finished, vars, local
<1> QED BY <1>2, <1>3, <1>5, <1>6, <1>7 DEF Next

----------------------------------------------------------------------------
\* Every reachable state satisfies the inductive invariant.
THEOREM Invariance == Spec => []Inv
BY InitInv, NextInv, PTL DEF Spec

\* The variables keep their types, whatever the users, products and requests;
\* in particular no task exceeds its retries.
THEOREM TypeCorrect == Spec => []TypeOK
<1>1. Inv => TypeOK
    BY DEF Inv
<1> QED BY <1>1, Invariance, PTL

\* Concurrent checkouts, restocks, deletions, edits, crashes and retries never
\* make a stock or a wallet negative.
THEOREM NoOversell == Spec => []NeverOversold
<1>1. Inv => NeverOversold
    BY DEF Inv
<1> QED BY <1>1, Invariance, PTL

\* The copies that checkout computes with are never stale while it holds the
\* rows (services.py: select_for_update before the read-modify-write).
THEOREM NoStaleCopy == Spec => []CopiesAreCurrent
<1>1. Inv => CopiesAreCurrent
    BY DEF Inv
<1> QED BY <1>1, Invariance, PTL

\* The audit log explains every unit of stock.
THEOREM StockAudit == Spec => []LogExplainsStock
<1>1. Inv => LogExplainsStock
    BY DEF Inv
<1> QED BY <1>1, Invariance, PTL

\* A wallet checkout deletes no cart row it did not order.
THEOREM NoSilentDrop == Spec => []WalletDropsOnlyOrdered
<1>1. Inv => WalletDropsOnlyOrdered
    BY DEF Inv
<1> QED BY <1>1, Invariance, PTL

----------------------------------------------------------------------------
(* Refinement: each step of Checkout is a step of Shop or changes nothing  *)
(* that Shop sees.                                                         *)

LEMMA CommitIsPurchase ==
    ASSUME Inv, OrdersOnce, NEW r \in Requests, Commit(r)
    PROVE  Promise!Purchase(r)
<1> DEFINE b == basket[r]
           u == Owner[r]
           paying == {q \in Requests : UsesWallet(q)}
<1>1. pc[r] = "commit" /\ Fulfillable(r) /\ Cost(b) \in 0 .. MaxTotal
    BY DEF Commit, Inv, CommitIsValid
<1>2. order[r] = NoOrder /\ b \in Basket /\ b # Empty
    BY <1>1 DEF OrdersOnce, Inv, TypeOK
<1>3. \A p \in Products : stock[p] \in Int /\ stock[p] >= 0 /\ b[p] \in Nat
    BY <1>2, BasketIsNat DEF Inv, TypeOK, NeverOversold
<1>4. \A p \in Products : b[p] > 0 => b[p] <= stock[p] /\ seen[r][p] = stock[p]
    BY <1>1, <1>3 DEF Inv, Fulfillable, CopiesAreCurrent, Rows
<1>5. \A p \in Products : b[p] <= stock[p]
    BY ONLY <1>3, <1>4
<1>6. stock' = [p \in Products |-> stock[p] - b[p]]
    <2>1. stock' = [p \in Products |->
                        IF p \in Rows(b) THEN seen[r][p] - b[p] ELSE stock[p]]
        BY DEF Commit, Deducted
    <2>2. \A p \in Products :
            (IF p \in Rows(b) THEN seen[r][p] - b[p] ELSE stock[p]) = stock[p] - b[p]
        BY <1>3, <1>4 DEF Rows
    <2> HIDE DEF b
    <2> QED BY <2>1, <2>2
<1>7. UsesWallet(r) => funds[r] = wallet[u] /\ Cost(b) <= wallet[u]
    BY <1>1 DEF Inv, CopiesAreCurrent, HoldsUser, Fulfillable
<1>8. /\ wallet' = IF r \in paying THEN [wallet EXCEPT ![u] = wallet[u] - Cost(b)]
                                    ELSE wallet
      /\ r \in paying => Cost(b) <= wallet[u]
    BY <1>7 DEF Commit
<1>9. order' = [order EXCEPT ![r] =
                    [items |-> b, total |-> Cost(b), paid |-> r \in paying]]
    <2>1. UsesWallet(r) = (r \in paying)
        BY DEF UsesWallet
    <2>2. order' = [order EXCEPT ![r] =
                        [items |-> b, total |-> Cost(b), paid |-> UsesWallet(r)]]
        BY DEF Commit
    <2> QED BY ONLY <2>1, <2>2
<1> HIDE DEF b
<1> QED BY <1>1, <1>2, <1>5, <1>6, <1>8, <1>9 DEF Promise!Purchase

LEMMA StepImplementsShop ==
    Inv /\ OrdersOnce /\ [Next]_vars => [Promise!Next]_(Promise!vars)
<1> SUFFICES ASSUME Inv, OrdersOnce, [Next]_vars
             PROVE  Promise!Next \/ UNCHANGED <<stock, wallet, order>>
    BY DEF Promise!vars
<1>1. ASSUME NEW r \in Requests, Rollback(r, "failed") \/ Rollback(r, Start(r))
      PROVE  UNCHANGED <<stock, wallet, order>>
    BY <1>1 DEF Rollback, goods
<1>2. ASSUME NEW r \in Requests, Refuse(r) \/ Abort(r)
      PROVE  UNCHANGED <<stock, wallet, order>>
    BY <1>1, <1>2 DEF Refuse, Abort
<1>3. ASSUME NEW r \in Requests, Step(r)
      PROVE  Promise!Next \/ UNCHANGED <<stock, wallet, order>>
    <2>1. CASE Commit(r)
        BY <2>1, CommitIsPurchase DEF Promise!Next
    <2>2. CASE FindCartEmpty(r) \/ RefuseBasket(r) \/ Overflow(r) \/ DeadlockAbort(r)
        BY <2>2, <1>2 DEF FindCartEmpty, RefuseBasket, Overflow, DeadlockAbort
    <2>3. CASE LockUser(r) \/ ReadCart(r) \/ Fulfil(r) \/ \E p \in Products : LockProduct(r, p)
        BY <2>3 DEF LockUser, ReadCart, Fulfil, LockProduct, goods
    <2> QED BY <1>3, <2>1, <2>2, <2>3 DEF Step
<1>4. ASSUME NEW r \in Requests, Fault(r) PROVE UNCHANGED <<stock, wallet, order>>
    BY <1>4, <1>2 DEF Fault, LoseConnection, Crash
<1>5. ASSUME NEW u \in Users, CartEdit(u) PROVE UNCHANGED <<stock, wallet, order>>
    BY <1>5 DEF CartEdit, InsertItem, BumpItem, SetItem, RemoveItem, ClearCart,
       Edit, goods
<1>6. ASSUME NEW p \in Products, Admin(p)
      PROVE  Promise!Next \/ UNCHANGED <<stock, wallet, order>>
    <2>1. CASE DeleteProduct(p)
        BY <2>1 DEF DeleteProduct
    <2>2. ASSUME NEW q \in 1 .. MaxStock, Restock(p, q) PROVE Promise!Supply(p)
        BY <2>2 DEF Restock, Promise!Supply
    <2> QED BY <1>6, <2>1, <2>2 DEF Admin, Promise!Next
<1>7. CASE Finished \/ UNCHANGED vars
    BY <1>7 DEF Finished, vars, goods
<1> QED BY <1>3, <1>4, <1>5, <1>6, <1>7 DEF Next

\* Checkout with its locks, rollbacks, deadlock aborts and retries implements
\* the atomic shop: each order appears in one step with its stock deduction
\* and its wallet payment, and no other step touches them except a restock.
THEOREM ImplementsShop == Spec => Atomic
<1>1. Init => Promise!Init /\ OrdersOnce
    BY DEF Init, Promise!Init, OrdersOnce, Start
<1>2. Inv => TypeOK
    BY DEF Inv
<1> QED BY <1>1, <1>2, InitInv, NextInv, OrdersOnceStep, StepImplementsShop, PTL
        DEF Spec, Atomic, Promise!Spec
----------------------------------------------------------------------------
(* Deadlock: product rows are locked in the order of their ids, so a cycle *)
(* of waits needs the user row, and two checkouts that take it in          *)
(* different orders.                                                       *)

\* The products a checkout has still to lock come after those it holds, and
\* only the wallet checkouts begin with the user row.
LocksAscend ==
    \A r \in Requests :
        /\ pc[r] = "lock" => \A p \in held[r], q \in ToLock(r) : p < q
        /\ pc[r] = "user" => UsesWallet(r)

LEMMA LocksAscendStep == Inv /\ LocksAscend /\ [Next]_vars => LocksAscend'
<1> SUFFICES ASSUME Inv, LocksAscend, [Next]_vars PROVE LocksAscend'
    OBVIOUS
<1>0. TypeOK /\ LocksOnlyInside
    BY DEF Inv
<1> DEFINE Kept(r) == /\ UNCHANGED <<pc[r], basket[r], held[r]>>
                      /\ listed' \subseteq listed
           Good(r) == /\ pc[r] = "lock" => \A p \in held[r], q \in ToLock(r) : p < q
                      /\ pc[r] = "user" => UsesWallet(r)
<1>1. ASSUME NEW r \in Requests, Kept(r) PROVE Good(r)'
    <2>1. ToLock(r)' \subseteq ToLock(r)
        BY <1>1 DEF ToLock, Rows
    <2> QED BY <1>1, <2>1 DEF LocksAscend, UsesWallet
<1>2. ASSUME NEW r \in Requests, Refuse(r) \/ Abort(r) PROVE LocksAscend'
    <2>1. PICK to \in {Start(r), "failed"} : Rollback(r, to)
        BY <1>2 DEF Refuse, Abort
    <2>2. pc'[r] \in {Start(r), "failed"}
        BY <1>0, <2>1 DEF Rollback, TypeOK
    <2>3. Good(r)'
        BY <2>2 DEF Start, UsesWallet
    <2>4. \A s \in Requests \ {r} : Kept(s)
        BY <1>0, <2>1 DEF Rollback, goods, TypeOK
    <2> QED BY <1>1, <2>3, <2>4 DEF LocksAscend
<1>3. ASSUME NEW r \in Requests, NEW p \in Products, LockProduct(r, p) PROVE LocksAscend'
    <2>1. /\ UNCHANGED <<pc, basket, listed>>
          /\ held' = [held EXCEPT ![r] = held[r] \cup {p}]
          /\ pc[r] = "lock" /\ IsNext(r, p)
        BY <1>3 DEF LockProduct, goods
    <2>2. \A s \in Requests \ {r} : Kept(s)
        BY <1>0, <2>1 DEF TypeOK
    <2>3. ToLock(r)' = ToLock(r) \ {p}
        BY <1>0, <2>1 DEF ToLock, Rows, TypeOK
    <2>4. ASSUME NEW a \in held'[r], NEW q \in ToLock(r)' PROVE a < q
        <3>1. a \in held[r] \/ a = p
            BY <1>0, <2>1 DEF TypeOK
        <3>2. q \in ToLock(r) /\ q # p
            BY <2>3
        <3>3. p \in Int /\ q \in Int
            BY <3>2, CatalogAssumption DEF ToLock, Rows
        <3>4. p <= q
            BY <2>1, <3>2 DEF IsNext
        <3>5. a \in held[r] => a < q
            BY <2>1, <3>2 DEF LocksAscend
        <3> QED BY ONLY <3>1, <3>2, <3>3, <3>4, <3>5
    <2> QED BY <1>1, <2>1, <2>2, <2>4 DEF LocksAscend
<1>4. ASSUME NEW r \in Requests, Step(r) PROVE LocksAscend'
    <2>1. CASE LockUser(r)
        <3>1. /\ pc'[r] = "read"
              /\ \A s \in Requests \ {r} : Kept(s)
            BY <2>1, <1>0 DEF LockUser, goods, TypeOK
        <3> QED BY <1>1, <3>1 DEF LocksAscend
    <2>2. CASE ReadCart(r)
        <3>1. /\ pc'[r] = "lock" /\ held'[r] = {}
              /\ \A s \in Requests \ {r} : Kept(s)
            BY <2>2, <1>0 DEF ReadCart, goods, TypeOK, LocksOnlyInside
        <3> QED BY <1>1, <3>1 DEF LocksAscend
    <2>3. CASE Fulfil(r)
        <3>1. /\ pc'[r] = "commit"
              /\ \A s \in Requests \ {r} : Kept(s)
            BY <2>3, <1>0 DEF Fulfil, goods, TypeOK
        <3> QED BY <1>1, <3>1 DEF LocksAscend
    <2>4. CASE Commit(r)
        <3>1. /\ pc'[r] = "done"
              /\ \A s \in Requests \ {r} : Kept(s)
            BY <2>4, <1>0 DEF Commit, TypeOK
        <3> QED BY <1>1, <3>1 DEF LocksAscend
    <2>5. CASE FindCartEmpty(r) \/ RefuseBasket(r) \/ Overflow(r) \/ DeadlockAbort(r)
        BY <2>5, <1>2 DEF FindCartEmpty, RefuseBasket, Overflow, DeadlockAbort
    <2> QED BY <1>3, <1>4, <2>1, <2>2, <2>3, <2>4, <2>5 DEF Step
<1>5. ASSUME NEW r \in Requests, Fault(r) PROVE LocksAscend'
    BY <1>2, <1>5 DEF Fault, LoseConnection, Crash
<1>6. ASSUME NEW u \in Users, CartEdit(u) PROVE LocksAscend'
    <2>1. UNCHANGED <<pc, basket, held, listed>>
        BY <1>6 DEF CartEdit, InsertItem, BumpItem, SetItem, RemoveItem,
           ClearCart, Edit, local, goods
    <2> QED BY <1>1, <2>1 DEF LocksAscend
<1>7. ASSUME NEW p \in Products, Admin(p) PROVE LocksAscend'
    <2>1. UNCHANGED <<pc, basket, held>> /\ listed' \subseteq listed
        BY <1>7 DEF Admin, Restock, DeleteProduct, local
    <2> QED BY <1>1, <2>1 DEF LocksAscend
<1>8. CASE Finished \/ UNCHANGED vars
    <2>1. UNCHANGED <<pc, basket, held, listed>>
        BY <1>8 DEF Finished, vars, local, goods
    <2> QED BY <1>1, <2>1 DEF LocksAscend
<1> QED BY <1>4, <1>5, <1>6, <1>7, <1>8 DEF Next

\* In a cycle without a card and a wallet checkout of one user, nobody waits
\* for the user row or for cart rows in the end: some checkouts wait for each
\* other's products, and the ids they wait for would increase without end.
LEMMA CyclesMix == Inv /\ LocksAscend => CyclesMixOneUser
<1> SUFFICES ASSUME Inv, LocksAscend, NEW S \in SUBSET Requests, Stuck(S),
                    \A r, s \in S : Owner[r] = Owner[s] => (UsesWallet(r) <=> UsesWallet(s))
             PROVE  FALSE
    BY DEF CyclesMixOneUser, UsesWallet
<1>0. TypeOK /\ LocksOnlyInside
    BY DEF Inv
<1> DEFINE Queue == {r \in S : pc[r] = "lock"}
           Awaited == [r \in S |-> CHOOSE p : IsNext(r, p)]
<1>1. ASSUME NEW r \in S PROVE pc[r] # "commit" /\ pc[r] # "read"
    <2>1. PICK s \in S : s \in WaitsFor(r)
        BY DEF Stuck
    <2> QED BY <2>1 DEF WaitsFor, HoldsUser
<1>2. ASSUME NEW r \in S PROVE pc[r] = "user" \/ r \in Queue
    <2>1. PICK s \in S : s \in WaitsFor(r)
        BY DEF Stuck
    <2> QED BY <1>1, <2>1 DEF WaitsFor
<1>3. ASSUME NEW r \in S, pc[r] = "user" PROVE Queue # {}
    <2>1. PICK s \in S : s \in WaitsFor(r)
        BY DEF Stuck
    <2>2. HoldsUser(s)
        BY <1>3, <2>1 DEF WaitsFor
    <2> QED BY <1>1, <2>2 DEF HoldsUser
<1>4. Queue # {}
    BY <1>2, <1>3 DEF Stuck
<1>5. ASSUME NEW r \in Queue
      PROVE  \E s \in Queue : \E p \in held[s] : IsNext(r, p)
    <2>1. PICK s \in S : s \in WaitsFor(r)
        BY DEF Stuck
    <2>2. PICK p \in held[s] : IsNext(r, p)
        BY <1>1, <2>1 DEF WaitsFor
    <2>3. s \in Queue
        BY <1>0, <1>1, <2>2 DEF LocksOnlyInside
    <2> QED BY <2>2, <2>3
<1>6. \A r \in Requests, p, q \in Products : IsNext(r, p) /\ IsNext(r, q) => p = q
    BY CatalogAssumption DEF IsNext
<1>7. \A r \in Requests : \A p : IsNext(r, p) => p \in Products /\ p \in Int
    BY CatalogAssumption DEF IsNext, ToLock, Rows
<1>8. ASSUME NEW r \in Queue, NEW p, IsNext(r, p) PROVE Awaited[r] = p
    <2>1. IsNext(r, Awaited[r])
        BY <1>8
    <2> QED BY <1>6, <1>7, <1>8, <2>1
<1>9. PICK r \in Queue : \A s \in Queue : Awaited[s] <= Awaited[r]
    <2>1. \A s \in Queue : Awaited[s] \in Int
        BY <1>5, <1>7, <1>8
    <2>2. IsFiniteSet(Queue)
        BY FiniteRequests, FS_Subset
    <2> HIDE DEF Queue, Awaited
    <2> QED BY <1>4, <2>1, <2>2, GreatestValue
<1>10. PICK s \in Queue : \E p \in held[s] : IsNext(r, p)
    BY <1>5
<1>11. PICK p \in held[s] : IsNext(r, p)
    BY <1>10
<1>12. PICK q : IsNext(s, q)
    BY <1>5
<1>13. p < q
    BY <1>12 DEF LocksAscend, IsNext
<1>14. q <= p
    BY <1>8, <1>9, <1>10, <1>11, <1>12
<1>15. p \in Int /\ q \in Int
    BY <1>7, <1>10, <1>11, <1>12
<1> QED BY ONLY <1>13, <1>14, <1>15

\* Checkouts of different users, or of one kind, never deadlock: every cycle of
\* waits has a card and a wallet checkout of the same user.
THEOREM OnlyMixedDeadlocks == Spec => []CyclesMixOneUser
<1>1. Init => LocksAscend
    BY DEF Init, Start, LocksAscend
<1> QED BY <1>1, InitInv, NextInv, LocksAscendStep, CyclesMix, PTL DEF Spec

\* So in a shop where each user pays in one way, the comment in orders/services.py
\* is right: locking products in a stable order rules deadlock out.
THEOREM OneKindNeverDeadlocks ==
    (\A r, s \in Requests : Owner[r] = Owner[s] => (UsesWallet(r) <=> UsesWallet(s)))
        => (Spec => []NoWaitCycle)
<1> SUFFICES ASSUME \A r, s \in Requests :
                        Owner[r] = Owner[s] => (UsesWallet(r) <=> UsesWallet(s))
             PROVE  Spec => []NoWaitCycle
    OBVIOUS
<1>1. CyclesMixOneUser => NoWaitCycle
    BY DEF CyclesMixOneUser, NoWaitCycle, UsesWallet
<1> QED BY <1>1, OnlyMixedDeadlocks, PTL
----------------------------------------------------------------------------
(* Progress, as far as it is a matter of safety: as long as a checkout runs, *)
(* some checkout can go on, and each has only so many statements left.       *)

\* The guards of a checkout's own steps, in the order of Step.
CanStep(r) ==
    \/ pc[r] = "user" /\ WaitsFor(r) = {}
    \/ pc[r] = "read"
    \/ pc[r] = "lock" /\ \E p \in Products : IsNext(r, p) /\ ~ProductBusy(p)
    \/ pc[r] = "lock" /\ ToLock(r) = {} /\ ~Fulfillable(r)
    \/ pc[r] = "lock" /\ Fulfillable(r) /\ (Cost(basket[r]) \in 0 .. MaxTotal => WaitsFor(r) = {})
    \/ pc[r] = "commit" /\ WaitsFor(r) = {}
    \/ OnCycle(r)

SomeoneMoves == (\E r \in Requests : Running(r)) => \E r \in Requests : CanStep(r)

\* Who waits for nobody can go on.
LEMMA FreeCanStep ==
    ASSUME TypeOK, IsFiniteSet(Products), NEW r \in Requests, Running(r), WaitsFor(r) = {}
    PROVE  CanStep(r)
<1>1. CASE pc[r] # "lock"
    BY <1>1 DEF TypeOK, Running, CanStep
<1>2. CASE pc[r] = "lock" /\ ToLock(r) = {}
    BY <1>2 DEF CanStep
<1>3. CASE pc[r] = "lock" /\ ToLock(r) # {}
    <2>1. IsFiniteSet(ToLock(r)) /\ ToLock(r) \subseteq Nat
        BY FS_Subset, CatalogAssumption DEF ToLock, Rows
    <2> DEFINE down == [p \in ToLock(r) |-> 0 - p]
    <2>2. PICK p \in ToLock(r) : \A q \in ToLock(r) : down[q] <= down[p]
        <3>1. \A q \in ToLock(r) : down[q] \in Int
            BY <2>1
        <3> HIDE DEF down
        <3> QED BY <1>3, <2>1, <3>1, GreatestValue
    <2>3. IsNext(r, p)
        BY <2>1, <2>2 DEF IsNext
    <2>4. p \in Products /\ p \notin held[r]
        BY DEF ToLock, Rows
    <2>5. ~ProductBusy(p)
        BY <1>3, <2>3, <2>4 DEF WaitsFor, ProductBusy
    <2> QED BY <1>3, <2>3, <2>4, <2>5 DEF CanStep
<1> QED BY <1>1, <1>2, <1>3

\* Every set of checkouts that wait for each other has a least such set in it.
LEMMA LeastStuck ==
    ASSUME NEW S \in SUBSET Requests, Stuck(S)
    PROVE  \E r \in S : OnCycle(r)
<1> DEFINE Good == {T \in SUBSET S : Stuck(T) => \E r \in T : OnCycle(r)}
<1>1. ASSUME NEW T \in SUBSET S, \A U \in SUBSET T : U # T => U \in Good
      PROVE  T \in Good
    <2> SUFFICES ASSUME Stuck(T) PROVE \E r \in T : OnCycle(r)
        OBVIOUS
    <2>1. CASE \E U \in SUBSET T : U # T /\ Stuck(U)
        BY <1>1, <2>1
    <2>2. CASE \A U \in SUBSET T : Stuck(U) => U = T
        <3>1. PICK r \in T : TRUE
            BY DEF Stuck
        <3>2. T \in SUBSET Requests
            OBVIOUS
        <3>3. OnCycle(r)
            BY <2>2, <3>1, <3>2 DEF OnCycle
        <3> QED BY <3>3
    <2> QED BY <2>1, <2>2
<1>2. IsFiniteSet(S)
    BY FiniteRequests, FS_Subset
<1> HIDE DEF Good
<1>3. S \in Good
    BY <1>1, <1>2, SubsetInduction
<1> QED BY <1>3 DEF Good

\* Whom one waits for is running, so if all who run wait, some wait in a cycle.
LEMMA NobodyHangs == IsFiniteSet(Products) /\ Inv => SomeoneMoves
<1> SUFFICES ASSUME IsFiniteSet(Products), Inv, NEW q \in Requests, Running(q),
                    \A r \in Requests : ~CanStep(r)
             PROVE  FALSE
    BY DEF SomeoneMoves
<1> DEFINE S == {r \in Requests : Running(r)}
<1>0. TypeOK /\ LocksOnlyInside
    BY DEF Inv
<1>1. ASSUME NEW r \in S PROVE WaitsFor(r) \cap S # {}
    <2>1. PICK s \in Requests : s \in WaitsFor(r)
        BY <1>0, FreeCanStep DEF WaitsFor
    <2>2. HoldsUser(s) \/ held[s] # {} \/ pc[s] = "commit"
        BY <2>1 DEF WaitsFor
    <2>3. Running(s)
        BY <1>0, <2>2 DEF HoldsUser, LocksOnlyInside, Running
    <2> QED BY <2>1, <2>3
<1>2. Stuck(S)
    BY <1>1 DEF Stuck
<1>3. PICK r \in S : OnCycle(r)
    <2> HIDE DEF S
    <2>1. S \in SUBSET Requests
        BY DEF S
    <2> QED BY <1>2, <2>1, LeastStuck
<1> QED BY <1>3 DEF CanStep

\* No checkout hangs behind locks that nobody gives back: as long as one runs,
\* some checkout can take its next statement, or is on a cycle of waits that
\* PostgreSQL ends.
THEOREM NoneHangs == IsFiniteSet(Products) => (Spec => []SomeoneMoves)
<1> SUFFICES ASSUME IsFiniteSet(Products) PROVE Spec => []SomeoneMoves
    OBVIOUS
<1>1. Inv => SomeoneMoves
    BY NobodyHangs
<1> QED BY <1>1, Invariance, PTL

\* The statements left in an attempt, with those for products not yet locked, and
\* in all attempts that a checkout may still make.
Kinds == Cardinality(Products)
Ahead(r) == Cardinality(Rows(basket[r]) \ held[r])
LeftNow(r) ==
    CASE pc[r] = "user" -> Kinds + 4
      [] pc[r] = "read" -> Kinds + 3
      [] pc[r] = "lock" -> Ahead(r) + 2
      [] pc[r] = "commit" -> 1
      [] OTHER -> 0
Left(r) == IF Running(r) THEN LeftNow(r) + (MaxRetries - tries[r]) * (Kinds + 4) ELSE 0

LEMMA LeftIsNat ==
    ASSUME IsFiniteSet(Products), TypeOK, NEW r \in Requests
    PROVE  /\ Kinds \in Nat /\ Ahead(r) \in 0 .. Kinds
           /\ Left(r) \in Nat
           /\ Running(r) => LeftNow(r) \in 1 .. Kinds + 4 /\ Left(r) >= LeftNow(r)
<1>1. Kinds \in Nat
    BY FS_CardinalityType DEF Kinds
<1>2. Ahead(r) \in 0 .. Kinds
    <2>1. Rows(basket[r]) \ held[r] \in SUBSET Products
        BY DEF Rows
    <2>2. /\ IsFiniteSet(Rows(basket[r]) \ held[r])
          /\ Cardinality(Rows(basket[r]) \ held[r]) <= Cardinality(Products)
        BY <2>1, FS_Subset
    <2> QED BY <1>1, <2>2, FS_CardinalityType DEF Ahead, Kinds
<1>3. Running(r) => LeftNow(r) \in 1 .. Kinds + 4
    BY <1>1, <1>2 DEF TypeOK, Running, LeftNow
<1>4. MaxRetries - tries[r] \in Nat
    BY CheckoutAssumption DEF TypeOK
<1>5. \A m, n \in Nat : m * n \in Nat
    OBVIOUS
<1>6. (MaxRetries - tries[r]) * (Kinds + 4) \in Nat
    <2>1. Kinds + 4 \in Nat
        BY <1>1
    <2> QED BY ONLY <1>4, <1>5, <2>1
<1> DEFINE later == (MaxRetries - tries[r]) * (Kinds + 4)
<1>7. Left(r) = IF Running(r) THEN LeftNow(r) + later ELSE 0
    BY DEF Left
<1>8. later \in Nat
    BY <1>6
<1> HIDE DEF later
<1>9. Left(r) \in Nat /\ (Running(r) => Left(r) >= LeftNow(r))
    BY ONLY <1>1, <1>3, <1>7, <1>8
<1> QED BY <1>1, <1>2, <1>3, <1>9

\* A step of one checkout leaves the others as much as they had.
LEMMA OthersKeep ==
    ASSUME TypeOK, NEW r \in Requests, NEW s \in Requests \ {r}, Step(r) \/ Fault(r)
    PROVE  Left(s)' = Left(s)
<1> USE DEF TypeOK
<1> SUFFICES /\ pc'[s] = pc[s] /\ basket'[s] = basket[s]
             /\ held'[s] = held[s] /\ tries'[s] = tries[s]
    BY DEF Left, LeftNow, Running, Ahead, Rows
<1>1. ASSUME NEW to, Rollback(r, to) PROVE pc'[s] = pc[s] /\ basket'[s] = basket[s] /\ held'[s] = held[s]
    BY <1>1 DEF Rollback
<1>2. CASE Refuse(r)
    BY <1>1, <1>2 DEF Refuse
<1>3. CASE Abort(r)
    <2>1. tries'[s] = tries[s]
        BY <1>3 DEF Abort
    <2> QED BY <1>1, <1>3, <2>1 DEF Abort
<1>4. CASE LockUser(r) \/ ReadCart(r)
    BY <1>4 DEF LockUser, ReadCart
<1>5. ASSUME NEW p \in Products, LockProduct(r, p)
      PROVE  /\ pc'[s] = pc[s] /\ basket'[s] = basket[s]
             /\ held'[s] = held[s] /\ tries'[s] = tries[s]
    BY <1>5 DEF LockProduct
<1>6. CASE Fulfil(r) \/ Commit(r)
    BY <1>6 DEF Fulfil, Commit
<1> QED BY <1>2, <1>3, <1>4, <1>5, <1>6 DEF Step, Fault, FindCartEmpty, RefuseBasket, Overflow,
        DeadlockAbort, LoseConnection, Crash

\* Whatever else runs leaves every checkout as much as it had.
LEMMA RestKeeps ==
    ASSUME [Next]_vars, ~ \E r \in Requests : Step(r) \/ Fault(r), NEW s \in Requests
    PROVE  Left(s)' = Left(s)
<1> SUFFICES UNCHANGED <<pc, basket, held, tries>>
    BY DEF Left, LeftNow, Running, Ahead, Rows
<1>1. ASSUME NEW u \in Users, CartEdit(u) PROVE UNCHANGED <<pc, basket, held, tries>>
    BY <1>1 DEF CartEdit, InsertItem, BumpItem, SetItem, RemoveItem, ClearCart, Edit, local
<1>2. ASSUME NEW p \in Products, Admin(p) PROVE UNCHANGED <<pc, basket, held, tries>>
    BY <1>2 DEF Admin, Restock, DeleteProduct, local
<1>3. CASE Finished \/ UNCHANGED vars
    BY <1>3 DEF Finished, vars, local
<1> QED BY <1>1, <1>2, <1>3 DEF Next

\* A checkout's own step uses up at least one of what it had left.
LEMMA StepShrinks ==
    ASSUME IsFiniteSet(Products), TypeOK, TypeOK', NEW r \in Requests, Step(r) \/ Fault(r)
    PROVE  Left(r)' < Left(r)
<1> USE DEF TypeOK
<1>0. /\ Kinds \in Nat /\ Ahead(r) \in 0 .. Kinds /\ Ahead(r)' \in 0 .. Kinds
      /\ Left(r) \in Nat
      /\ Running(r) => LeftNow(r) \in 1 .. Kinds + 4 /\ Left(r) >= LeftNow(r)
    <2>1. TypeOK /\ TypeOK'
        OBVIOUS
    <2>2. Ahead(r)' \in 0 .. Kinds
        <3>1. Rows(basket'[r]) \ held'[r] \in SUBSET Products
            BY DEF Rows
        <3>2. /\ IsFiniteSet(Rows(basket'[r]) \ held'[r])
              /\ Cardinality(Rows(basket'[r]) \ held'[r]) <= Cardinality(Products)
            BY <3>1, FS_Subset
        <3> QED BY <3>2, FS_CardinalityType DEF Ahead, Kinds, Rows
    <2> QED BY ONLY <2>1, <2>2, LeftIsNat, IsFiniteSet(Products), r \in Requests
<1>1. MaxRetries - tries[r] \in Nat
    BY CheckoutAssumption
\* A checkout that goes on in the same attempt.
<1>2. ASSUME Running(r), Running(r)', tries'[r] = tries[r],
             LeftNow(r)' \in Nat, LeftNow(r)' < LeftNow(r)
      PROVE  Left(r)' < Left(r)
    <2> DEFINE later == (MaxRetries - tries[r]) * (Kinds + 4)
    <2>1. later \in Nat
        <3>1. \A m, n \in Nat : m * n \in Nat
            OBVIOUS
        <3>2. Kinds + 4 \in Nat
            BY <1>0
        <3> QED BY ONLY <1>1, <3>1, <3>2
    <2>2. Left(r) = LeftNow(r) + later /\ Left(r)' = LeftNow(r)' + later
        BY <1>2 DEF Left, Kinds
    <2>3. LeftNow(r) \in Nat
        BY <1>0, <1>2
    <2> HIDE DEF later
    <2> QED BY ONLY <1>2, <2>1, <2>2, <2>3
\* One that ends, and one that is retried.
<1>3. ASSUME Running(r), ~Running(r)' PROVE Left(r)' < Left(r)
    <2>1. Left(r)' = 0
        BY <1>3 DEF Left
    <2> QED BY <1>0, <1>3, <2>1
<1>4. ASSUME Running(r), Refuse(r) PROVE Left(r)' < Left(r)
    BY <1>3, <1>4 DEF Refuse, Rollback, Running
<1>5. ASSUME Running(r), Abort(r) PROVE Left(r)' < Left(r)
    <2>1. CASE ~(Kind[r] = "task" /\ tries[r] < MaxRetries)
        BY <1>3, <1>5, <2>1 DEF Abort, Rollback, Running
    <2>2. CASE Kind[r] = "task" /\ tries[r] < MaxRetries
        <3>1. pc'[r] \in {"user", "read"} /\ tries'[r] = tries[r] + 1
            BY <1>5, <2>2 DEF Abort, Rollback, Start
        <3>2. LeftNow(r)' \in Nat /\ LeftNow(r)' <= Kinds + 4
            BY <1>0, <3>1 DEF LeftNow, Kinds
        <3>3. Left(r)' = LeftNow(r)' + (MaxRetries - (tries[r] + 1)) * (Kinds + 4)
            BY <3>1 DEF Left, Running, Kinds
        <3>4. Left(r) = LeftNow(r) + (MaxRetries - tries[r]) * (Kinds + 4)
            BY <1>5 DEF Left
        <3>5. \A m \in Int, k, n \in Nat : (m - (k + 1)) * n = (m - k) * n - n
            OBVIOUS
        <3>6. (MaxRetries - (tries[r] + 1)) * (Kinds + 4)
                  = (MaxRetries - tries[r]) * (Kinds + 4) - (Kinds + 4)
            <4>1. MaxRetries \in Int /\ tries[r] \in Nat /\ Kinds + 4 \in Nat
                BY <1>0, CheckoutAssumption
            <4> QED BY ONLY <3>5, <4>1
        <3> DEFINE rounds == (MaxRetries - tries[r]) * (Kinds + 4)
        <3>7. rounds \in Int
            <4>1. \A m, n \in Nat : m * n \in Int
                OBVIOUS
            <4>2. Kinds + 4 \in Nat
                BY <1>0
            <4> QED BY ONLY <1>1, <4>1, <4>2
        <3>8. LeftNow(r) \in Int /\ LeftNow(r) >= 1 /\ Kinds \in Int
            BY <1>0, <1>5
        <3> HIDE DEF rounds
        <3>9. Left(r)' = LeftNow(r)' + (rounds - (Kinds + 4)) /\ Left(r) = LeftNow(r) + rounds
            BY ONLY <3>3, <3>4, <3>6, Zenon DEF rounds
        <3> QED BY ONLY <3>2, <3>7, <3>8, <3>9
    <2> QED BY <2>1, <2>2
<1>6. CASE LockUser(r)
    BY <1>0, <1>2, <1>6 DEF LockUser, Running, LeftNow, Kinds
<1>7. CASE ReadCart(r)
    BY <1>0, <1>2, <1>7 DEF ReadCart, Running, LeftNow, Kinds
<1>8. ASSUME NEW p \in Products, LockProduct(r, p) PROVE Left(r)' < Left(r)
    <2> DEFINE rest == Rows(basket[r]) \ held[r]
    <2>1. p \in rest /\ Rows(basket'[r]) \ held'[r] = rest \ {p}
        BY <1>8 DEF LockProduct, IsNext, ToLock, Rows
    <2>2. IsFiniteSet(rest)
        BY FS_Subset DEF Rows
    <2>3. Cardinality(rest \ {p}) = Cardinality(rest) - 1
        <3> HIDE DEF rest
        <3> QED BY ONLY <2>1, <2>2, FS_RemoveElement
    <2>4. Ahead(r)' = Ahead(r) - 1
        BY <2>1, <2>3 DEF Ahead, Rows
    <2>5. /\ pc[r] = "lock" /\ pc'[r] = "lock" /\ tries'[r] = tries[r]
        BY <1>8 DEF LockProduct
    <2>6. LeftNow(r) = Ahead(r) + 2 /\ LeftNow(r)' = Ahead(r)' + 2
        BY <2>5 DEF LeftNow
    <2>7. Running(r) /\ Running(r)'
        BY <2>5 DEF Running
    <2>8. LeftNow(r)' \in Nat /\ LeftNow(r)' < LeftNow(r)
        BY ONLY <1>0, <2>4, <2>6
    <2> QED BY <1>2, <2>5, <2>7, <2>8
<1>9. CASE Fulfil(r)
    BY <1>0, <1>2, <1>9 DEF Fulfil, Running, LeftNow
<1>10. CASE Commit(r)
    BY <1>3, <1>10 DEF Commit, Running
<1>11. CASE FindCartEmpty(r) \/ RefuseBasket(r) \/ Overflow(r)
    BY <1>4, <1>5, <1>11 DEF FindCartEmpty, RefuseBasket, Overflow, Running
<1>12. CASE DeadlockAbort(r)
    <2>1. WaitsFor(r) # {}
        BY <1>12 DEF DeadlockAbort, OnCycle, Stuck
    <2>2. Running(r)
        BY <2>1 DEF WaitsFor, Running
    <2> QED BY <1>5, <1>12, <2>2 DEF DeadlockAbort
<1>13. CASE Fault(r)
    BY <1>4, <1>5, <1>13 DEF Fault, LoseConnection, Crash
<1> QED BY <1>6, <1>7, <1>8, <1>9, <1>10, <1>11, <1>12, <1>13 DEF Step

\* What one step may do to the statements that are left.
Shrinks(r) ==
    /\ Left(r) \in Nat
    /\ Left(r)' <= Left(r)
    /\ (Step(r) \/ Fault(r)) => Left(r)' < Left(r)

LeftTyped == \A r \in Requests : Left(r) \in Nat
WorkShrinks == [][\A r \in Requests : Shrinks(r)]_vars

\* A checkout makes finitely many steps, at most (MaxRetries + 1) times the number
\* of products plus four: every statement, retry, deadlock or crash uses some up,
\* and nothing others do gives any back.  With NoneHangs, and a scheduler that lets
\* who can move move, every checkout ends.
THEOREM NoLivelock == IsFiniteSet(Products) => (Spec => WorkShrinks)
<1> SUFFICES ASSUME IsFiniteSet(Products) PROVE Spec => WorkShrinks
    OBVIOUS
<1>1. TypeOK => LeftTyped
    BY LeftIsNat DEF LeftTyped
<1>2. TypeOK /\ TypeOK' /\ LeftTyped /\ LeftTyped' /\ [Next]_vars => [\A r \in Requests : Shrinks(r)]_vars
    <2> SUFFICES ASSUME TypeOK, TypeOK', LeftTyped, LeftTyped', [Next]_vars, NEW r \in Requests
                 PROVE  Shrinks(r)
        OBVIOUS
    <2>1. Left(r) \in Nat /\ Left(r)' \in Nat
        BY DEF LeftTyped
    <2>2. Step(r) \/ Fault(r) => Left(r)' < Left(r)
        BY StepShrinks
    <2>3. ~(Step(r) \/ Fault(r)) => Left(r)' = Left(r)
        BY OthersKeep, RestKeeps
    <2> QED BY ONLY <2>1, <2>2, <2>3 DEF Shrinks
<1> QED BY <1>1, <1>2, TypeCorrect, PTL DEF Spec, WorkShrinks
============================================================================
