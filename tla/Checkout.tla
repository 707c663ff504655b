----------------------------- MODULE Checkout ------------------------------
(***************************************************************************)
(* Concurrent checkouts as PostgreSQL transactions (READ COMMITTED):       *)
(* create_order_from_cart ("card"), checkout_with_wallet called by a view  *)
(* ("wallet") or by the Celery task process_wallet_payment_async ("task"). *)
(* Each step is one statement that can wait for a row lock; writes stay    *)
(* private to the transaction until Commit.  Cart edits, restocks and      *)
(* product deletion run beside them, each as one committed transaction.    *)
(***************************************************************************)
EXTENDS Catalog

CONSTANTS
    Requests, Owner,
    Kind,         \* Requests -> {"card", "wallet", "task"}
    InitStock, InitWallet,
    InitCarts,    \* the cart contents to start from
    MaxStock,     \* bound on stock after a restock
    MaxEdits,     \* bound on the number of cart edits
    MaxRetries    \* max_retries of the Celery task

ASSUME CheckoutAssumption ==
    /\ Owner \in [Requests -> Users]
    /\ Kind \in [Requests -> {"card", "wallet", "task"}]
    /\ InitStock \in [Products -> Nat]
    /\ InitWallet \in [Users -> Nat]
    /\ InitCarts \subseteq [Users -> Basket]
    /\ MaxStock \in Nat /\ MaxEdits \in Nat /\ MaxRetries \in Nat

\* Sums over all checkouts, and greatest elements of sets of them, exist.
ASSUME FiniteRequests == IsFiniteSet(Requests)

VARIABLES
    stock, wallet, cart, order, listed,   \* committed rows
    restocked, bought,   \* sum of the committed InventoryLog rows, per reason
    pc,                  \* where each checkout is
    basket,              \* its cart_items, as read
    held,                \* product rows it holds FOR UPDATE
    seen,                \* stock in its locked copies (locked_products)
    funds,               \* wallet_balance in its locked_user
    dropped,             \* cart rows its DELETE removed, not yet committed
    tries,               \* retries the Celery task has used
    edits                \* cart edits made so far

goods == <<stock, restocked, bought, listed>>
local == <<basket, held, seen, funds, dropped>>
vars == <<goods, wallet, cart, order, pc, local, tries, edits>>

UsesWallet(r) == Kind[r] # "card"
Start(r) == IF UsesWallet(r) THEN "user" ELSE "read"
Running(r) == pc[r] \notin {"done", "failed"}

Init ==
    /\ stock = InitStock
    /\ wallet = InitWallet
    /\ cart \in InitCarts
    /\ order = [r \in Requests |-> NoOrder]
    /\ listed = Products
    /\ restocked = Empty
    /\ bought = Empty
    /\ pc = [r \in Requests |-> Start(r)]
    /\ basket = [r \in Requests |-> Empty]
    /\ held = [r \in Requests |-> {}]
    /\ seen = [r \in Requests |-> Empty]
    /\ funds = [r \in Requests |-> 0]
    /\ dropped = [r \in Requests |-> Empty]
    /\ tries = [r \in Requests |-> 0]
    /\ edits = 0

----------------------------------------------------------------------------
(* Row locks and who waits for whom. *)

HoldsUser(r) == UsesWallet(r) /\ pc[r] \in {"read", "lock", "commit"}
UserBusy(u) == \E r \in Requests : Owner[r] = u /\ HoldsUser(r)
ProductBusy(p) == \E r \in Requests : p \in held[r]
RowBusy(u, p) == \E r \in Requests :
    Owner[r] = u /\ pc[r] = "commit" /\ p \in Rows(dropped[r])

\* SELECT ... FOR UPDATE ORDER BY id takes the existing rows lowest id first.
ToLock(r) == (Rows(basket[r]) \cap listed) \ held[r]
\* Mutant of IsNext: no ORDER BY.
InAnyOrder(r, p) == p \in ToLock(r)
IsNext(r, p) == p \in ToLock(r) /\ \A q \in ToLock(r) : p <= q

\* Mutant of Fulfillable: no stock validation.
FulfillableUnchecked(r) ==
    /\ Rows(basket[r]) \subseteq held[r]
    /\ UsesWallet(r) => Cost(basket[r]) <= funds[r]

\* Every line is still there and in stock, and the wallet covers the total.
Fulfillable(r) ==
    /\ \A p \in Rows(basket[r]) : p \in held[r] /\ seen[r][p] >= basket[r][p]
    /\ UsesWallet(r) => Cost(basket[r]) <= funds[r]

\* The transactions that hold a lock r's next statement needs.
WaitsFor(r) ==
    {s \in Requests \ {r} :
        \/ pc[r] = "user" /\ Owner[s] = Owner[r] /\ HoldsUser(s)
        \/ pc[r] = "lock" /\ \E p \in held[s] : IsNext(r, p)
        \/ /\ pc[r] = "lock" /\ Fulfillable(r)       \* DELETE of cart rows
           /\ Owner[s] = Owner[r] /\ pc[s] = "commit" /\ Rows(dropped[s]) # {}
        \/ /\ pc[r] = "commit" /\ ~UsesWallet(r)     \* FK check of Order.user
           /\ Owner[s] = Owner[r] /\ HoldsUser(s)}

\* r is on a cycle of waiting transactions: a least set each of whose members
\* waits for another member.
Stuck(S) == S # {} /\ \A r \in S : WaitsFor(r) \cap S # {}
OnCycle(r) == \E S \in SUBSET Requests :
    r \in S /\ Stuck(S) /\ \A T \in SUBSET S : Stuck(T) => T = S

----------------------------------------------------------------------------
(* The steps of a checkout. *)

\* Mutant of Rollback: the connection goes back to the pool, its transaction
\* still open.
RollbackKeepingLocks(r, to) ==
    /\ pc' = [pc EXCEPT ![r] = to]
    /\ UNCHANGED <<goods, wallet, cart, order, edits, local>>

Rollback(r, to) ==
    /\ pc' = [pc EXCEPT ![r] = to]
    /\ basket' = [basket EXCEPT ![r] = Empty]
    /\ held' = [held EXCEPT ![r] = {}]
    /\ seen' = [seen EXCEPT ![r] = Empty]
    /\ funds' = [funds EXCEPT ![r] = 0]
    /\ dropped' = [dropped EXCEPT ![r] = Empty]
    /\ UNCHANGED <<goods, wallet, cart, order, edits>>

\* A ValueError: 400 in the views, logged and given up by the task.
Refuse(r) == Rollback(r, "failed") /\ UNCHANGED tries

\* Mutant of Abort: the task retries without end.
AbortForever(r) ==
    /\ Rollback(r, IF Kind[r] = "task" THEN Start(r) ELSE "failed")
    /\ tries' = [tries EXCEPT ![r] = IF Kind[r] = "task" THEN @ + 1 ELSE @]

\* Any other exception: 409 in the views, self.retry in the task.
Abort(r) ==
    LET again == Kind[r] = "task" /\ tries[r] < MaxRetries
    IN /\ Rollback(r, IF again THEN Start(r) ELSE "failed")
       /\ tries' = [tries EXCEPT ![r] = IF again THEN @ + 1 ELSE @]

\* Mutant of LockUser: a plain read of the user row.
ReadUser(r) ==
    /\ pc[r] = "user"
    /\ pc' = [pc EXCEPT ![r] = "read"]
    /\ funds' = [funds EXCEPT ![r] = wallet[Owner[r]]]
    /\ UNCHANGED <<goods, wallet, cart, order, basket, held, seen, dropped,
                   tries, edits>>

LockUser(r) ==
    /\ pc[r] = "user"
    /\ WaitsFor(r) = {}
    /\ pc' = [pc EXCEPT ![r] = "read"]
    /\ funds' = [funds EXCEPT ![r] = wallet[Owner[r]]]
    /\ UNCHANGED <<goods, wallet, cart, order, basket, held, seen, dropped,
                   tries, edits>>

ReadCart(r) ==
    /\ pc[r] = "read"
    /\ cart[Owner[r]] # Empty
    /\ pc' = [pc EXCEPT ![r] = "lock"]
    /\ basket' = [basket EXCEPT ![r] = cart[Owner[r]]]
    /\ UNCHANGED <<goods, wallet, cart, order, held, seen, funds, dropped,
                   tries, edits>>

FindCartEmpty(r) ==
    /\ pc[r] = "read"
    /\ cart[Owner[r]] = Empty
    /\ Refuse(r)

\* Mutant of LockProduct: a plain read of the product row.
ReadProduct(r, p) ==
    /\ pc[r] = "lock"
    /\ IsNext(r, p)
    /\ held' = [held EXCEPT ![r] = @ \cup {p}]
    /\ seen' = [seen EXCEPT ![r][p] = stock[p]]
    /\ UNCHANGED <<goods, wallet, cart, order, pc, basket, funds, dropped,
                   tries, edits>>

LockProduct(r, p) ==
    /\ pc[r] = "lock"
    /\ IsNext(r, p)
    /\ ~ProductBusy(p)
    /\ held' = [held EXCEPT ![r] = @ \cup {p}]
    /\ seen' = [seen EXCEPT ![r][p] = stock[p]]
    /\ UNCHANGED <<goods, wallet, cart, order, pc, basket, funds, dropped,
                   tries, edits>>

RefuseBasket(r) ==
    /\ pc[r] = "lock"
    /\ ToLock(r) = {}
    /\ ~Fulfillable(r)
    /\ Refuse(r)

\* Deduct, create order, items and payment (all private), and delete the
\* user's cart rows as they are now.
Fulfil(r) ==
    /\ pc[r] = "lock"
    /\ Fulfillable(r)
    /\ Cost(basket[r]) \in 0 .. MaxTotal
    /\ WaitsFor(r) = {}
    /\ pc' = [pc EXCEPT ![r] = "commit"]
    /\ dropped' = [dropped EXCEPT ![r] = cart[Owner[r]]]
    /\ UNCHANGED <<goods, wallet, cart, order, basket, held, seen, funds,
                   tries, edits>>

\* The total does not fit its column: decimal.InvalidOperation, no ValueError.
Overflow(r) ==
    /\ pc[r] = "lock"
    /\ Fulfillable(r)
    /\ Cost(basket[r]) \notin 0 .. MaxTotal
    /\ Abort(r)

\* What the deductions leave: each locked copy minus the quantity ordered.
Deducted(r) == [p \in Products |-> IF p \in Rows(basket[r])
                                   THEN seen[r][p] - basket[r][p] ELSE stock[p]]

\* The private writes, made of the locked copies, become visible together.
Commit(r) ==
    /\ pc[r] = "commit"
    /\ WaitsFor(r) = {}
    /\ LET b == basket[r]  u == Owner[r] IN
        /\ stock' = Deducted(r)
        /\ bought' = [p \in Products |-> bought[p] + b[p]]
        /\ wallet' = IF UsesWallet(r)
                     THEN [wallet EXCEPT ![u] = funds[r] - Cost(b)] ELSE wallet
        /\ order' = [order EXCEPT ![r] =
                        [items |-> b, total |-> Cost(b), paid |-> UsesWallet(r)]]
        /\ cart' = [cart EXCEPT ![u] = [p \in Products |->
                        IF dropped[r][p] > 0 THEN 0 ELSE @[p]]]
    /\ pc' = [pc EXCEPT ![r] = "done"]
    /\ held' = [held EXCEPT ![r] = {}]
    /\ UNCHANGED <<restocked, listed, basket, seen, funds, dropped, tries, edits>>

\* PostgreSQL ends a wait cycle by aborting one of its members.
DeadlockAbort(r) == OnCycle(r) /\ Abort(r)

\* The database connection is lost before COMMIT.
LoseConnection(r) == Running(r) /\ Abort(r)

\* Mutant of Crash: without transaction.atomic the deduction survives.
CrashHalfway(r) ==
    /\ pc[r] = "commit"
    /\ pc' = [pc EXCEPT ![r] = "failed"]
    /\ stock' = [p \in Products |-> stock[p] - basket[r][p]]
    /\ bought' = [p \in Products |-> bought[p] + basket[r][p]]
    /\ held' = [held EXCEPT ![r] = {}]
    /\ UNCHANGED <<restocked, listed, wallet, cart, order, basket, seen, funds,
                   dropped, tries, edits>>

\* The process dies; a Celery task was acknowledged when it was taken.
Crash(r) == Running(r) /\ Refuse(r)

----------------------------------------------------------------------------
(* What runs beside the checkouts. *)

Edit(u, b) ==
    /\ edits < MaxEdits
    /\ edits' = edits + 1
    /\ cart' = [cart EXCEPT ![u] = b]
    /\ UNCHANGED <<goods, wallet, order, pc, local, tries>>

\* Mutant of InsertItem: no foreign key to the user.
InsertItemAnyUser(u, p, q) ==
    /\ p \in listed /\ stock[p] >= q
    /\ cart[u][p] = 0
    /\ ~ProductBusy(p)
    /\ Edit(u, [cart[u] EXCEPT ![p] = q])

\* add_to_cart with no row yet: the foreign keys need both parent rows.
InsertItem(u, p, q) ==
    /\ p \in listed /\ stock[p] >= q
    /\ cart[u][p] = 0
    /\ ~UserBusy(u) /\ ~ProductBusy(p)
    /\ Edit(u, [cart[u] EXCEPT ![p] = q])

\* add_to_cart on an existing row changes no key, so takes no parent lock.
BumpItem(u, p, q) ==
    /\ p \in listed /\ stock[p] >= q
    /\ cart[u][p] > 0 /\ cart[u][p] + q <= MaxQty
    /\ ~RowBusy(u, p)
    /\ Edit(u, [cart[u] EXCEPT ![p] = @ + q])

SetItem(u, p, q) ==
    /\ cart[u][p] > 0
    /\ ~RowBusy(u, p)
    /\ Edit(u, [cart[u] EXCEPT ![p] = q])

RemoveItem(u, p) ==
    /\ cart[u][p] > 0
    /\ ~RowBusy(u, p)
    /\ Edit(u, [cart[u] EXCEPT ![p] = 0])

ClearCart(u) ==
    /\ \A p \in Rows(cart[u]) : ~RowBusy(u, p)
    /\ Edit(u, Empty)

\* Mutant of Restock: no row lock.
RestockUnlocked(p, q) ==
    /\ p \in listed
    /\ stock[p] + q <= MaxStock
    /\ stock' = [stock EXCEPT ![p] = @ + q]
    /\ restocked' = [restocked EXCEPT ![p] = @ + q]
    /\ UNCHANGED <<bought, listed, wallet, cart, order, pc, local, tries, edits>>

Restock(p, q) ==
    /\ p \in listed /\ ~ProductBusy(p)
    /\ stock[p] + q <= MaxStock
    /\ stock' = [stock EXCEPT ![p] = @ + q]
    /\ restocked' = [restocked EXCEPT ![p] = @ + q]
    /\ UNCHANGED <<bought, listed, wallet, cart, order, pc, local, tries, edits>>

\* DELETE /api/products/<id>/: refused while an order has the product
\* (PROTECT), takes the cart rows with it (CASCADE).  The counters of a
\* deleted product keep their last values.
DeleteProduct(p) ==
    /\ p \in listed /\ ~ProductBusy(p)
    /\ \A r \in Requests : order[r].items[p] = 0
    /\ \A u \in Users : ~RowBusy(u, p)
    /\ listed' = listed \ {p}
    /\ cart' = [u \in Users |-> [cart[u] EXCEPT ![p] = 0]]
    /\ UNCHANGED <<stock, restocked, bought, wallet, order, pc, local, tries, edits>>

----------------------------------------------------------------------------
Step(r) ==
    \/ LockUser(r) \/ ReadCart(r) \/ FindCartEmpty(r)
    \/ \E p \in Products : LockProduct(r, p)
    \/ RefuseBasket(r) \/ Fulfil(r) \/ Overflow(r) \/ Commit(r)
    \/ DeadlockAbort(r)

Fault(r) == LoseConnection(r) \/ Crash(r)

CartEdit(u) ==
    \/ \E p \in Products, q \in 1 .. MaxQty :
        InsertItem(u, p, q) \/ BumpItem(u, p, q) \/ SetItem(u, p, q)
    \/ \E p \in Products : RemoveItem(u, p)
    \/ ClearCart(u)

Admin(p) == DeleteProduct(p) \/ \E q \in 1 .. MaxStock : Restock(p, q)

Finished == (\A r \in Requests : ~Running(r)) /\ UNCHANGED vars

Next ==
    \/ \E r \in Requests : Step(r) \/ Fault(r)
    \/ \E u \in Users : CartEdit(u)
    \/ \E p \in Products : Admin(p)
    \/ Finished

\* A lock is granted once its holders are gone, and a process that can run
\* runs; faults, cart edits and admin calls are under no obligation.
Fairness == \A r \in Requests : WF_vars(Step(r))

Spec == Init /\ [][Next]_vars /\ Fairness

----------------------------------------------------------------------------
(* Properties. *)

TypeOK ==
    /\ stock \in [Products -> Int]
    /\ wallet \in [Users -> Int]
    /\ cart \in [Users -> Basket]
    /\ order \in [Requests -> Order]
    /\ listed \subseteq Products
    /\ restocked \in [Products -> Nat]
    /\ bought \in [Products -> Nat]
    /\ pc \in [Requests -> {"user", "read", "lock", "commit", "done", "failed"}]
    /\ basket \in [Requests -> Basket]
    /\ held \in [Requests -> SUBSET Products]
    /\ seen \in [Requests -> [Products -> Int]]
    /\ funds \in [Requests -> Int]
    /\ dropped \in [Requests -> Basket]
    /\ tries \in [Requests -> 0 .. MaxRetries]
    /\ edits \in 0 .. MaxEdits

\* Concurrent checkouts never drive a product's stock or a user's wallet
\* below zero (README "concurrent users cannot make stock negative").
NeverOversold ==
    /\ \A p \in Products : stock[p] >= 0
    /\ \A u \in Users : wallet[u] >= 0

\* While a checkout holds a row lock, the Python copy it computes from still
\* equals the committed row: read-modify-write on the copy loses no update.
CopiesAreCurrent ==
    \A r \in Requests :
        /\ \A p \in held[r] : seen[r][p] = stock[p]
        /\ HoldsUser(r) => funds[r] = wallet[Owner[r]]

\* The inventory log explains the stock: initial stock, plus RESTOCK rows,
\* minus PURCHASE rows, is what is on the shelf.
LogExplainsStock ==
    \A p \in Products : stock[p] = InitStock[p] + restocked[p] - bought[p]

Lines(p) == [r \in Requests |-> order[r].items[p]]
Totals == [r \in Requests |-> order[r].total]

\* Stock leaves the shelf only in orders, and all of it: the PURCHASE rows of
\* a product add up to its order items.
LogMatchesOrders ==
    \A p \in Products : bought[p] = SumFunctionOnSet(Lines(p), Requests)

\* A wallet loses exactly the totals of the user's wallet orders.
PaidBy(u) == {r \in Requests : Owner[r] = u /\ order[r].paid}
WalletMatchesOrders ==
    \A u \in Users : InitWallet[u] - wallet[u] = SumFunctionOnSet(Totals, PaidBy(u))

\* A wallet checkout never deletes a cart row for a product it did not order:
\* its lock on the user row keeps new rows out between read and DELETE.
WalletDropsOnlyOrdered ==
    \A r \in Requests :
        UsesWallet(r) => Rows(dropped[r]) \subseteq Rows(basket[r])

\* No two checkouts ever wait for each other ("Lock products in a stable
\* order to avoid deadlocks", orders/services.py).
NoWaitCycle == ~ \E S \in SUBSET Requests : Stuck(S)

\* Every deadlock is between a card and a wallet checkout of the same user:
\* checkouts of different users, or of one kind, never deadlock.
CyclesMixOneUser ==
    \A S \in SUBSET Requests : Stuck(S) =>
        \E r, s \in S : Owner[r] = Owner[s] /\ UsesWallet(r) # UsesWallet(s)

\* Checkout converts the cart: as long as nobody edits carts, what a user has
\* ordered and what is left in the cart is what the cart held at the start, each
\* row ordered once ("converts cart into a confirmed order", orders/views.py).
Ordered(u, p) == SumFunctionOnSet(Lines(p), {r \in Requests : Owner[r] = u})
Converted(u) ==
    \E c \in InitCarts : \A p \in listed : cart[u][p] + Ordered(u, p) = c[u][p]
CartConverted == edits = 0 => \A u \in Users : Converted(u)

\* Every checkout ends, in an order or a refusal, whatever it waits for.
AllFinish == <>(\A r \in Requests : ~Running(r))

\* Checkout with its locks and retries behaves as the atomic Shop.
Promise == INSTANCE Shop WITH PaysNow <- {r \in Requests : UsesWallet(r)}
Atomic == Promise!Spec
============================================================================
