----------------------------- MODULE Inventory -----------------------------
(***************************************************************************)
(* One product row and everything that writes or reserves its stock: the   *)
(* pessimistic deduction and restock (row lock), the optimistic deduction  *)
(* with its retries (version test), the admin PATCH (save of the whole row *)
(* as it was read), the race demo and the checkout without locks (UPDATE   *)
(* stock = stock - n), and the reservations, locked and unlocked, with     *)
(* their periodic release.                                                 *)
(*                                                                         *)
(* A call goes from "start" to "locked" (it holds the row lock) or "read"  *)
(* (it read the row without one) and to "ended", whatever it answers.      *)
(* Orders are Checkout's matter: here a deduction is its effect on the row *)
(* and on the log.                                                         *)
(***************************************************************************)
EXTENDS Integers, FiniteSetsExt

CONSTANTS
    Calls, Kind, Qty,   \* the calls, what each does and with what quantity
    InitStock,
    MaxAttempts         \* OPTIMISTIC_MAX_RETRIES

Locking == {"deduct", "restock", "reserve"}
Checking == {"optimistic", "unsafeOrder"}
Computing == {"optimistic", "patch"}
Snapshot == Checking \cup Computing \cup {"race", "reserveUnsafe"}

ASSUME InventoryAssumption ==
    /\ Kind \in [Calls -> Locking \cup Snapshot]
    /\ Qty \in [Calls -> Nat \ {0}]
    /\ \A c \in Calls : Kind[c] = "race" => Qty[c] = 1
    /\ InitStock \in Nat
    /\ MaxAttempts \in Nat \ {0}

VARIABLES
    row,        \* the product's stock, version and is_active
    logged,     \* sum of its InventoryLog rows
    reserved,   \* quantity of each call's OrderLock, 0 for none
    at, copy,   \* where each call is, and the row it read and computes from
    tries,      \* failed attempts of the optimistic deductions
    raced,      \* units taken without lock or test
    bypassed    \* a write went round the version: a stale save or such a sale

vars == <<row, logged, reserved, at, copy, tries, raced, bypassed>>

Unread == [stock |-> 0, version |-> 0, active |-> FALSE]

Init ==
    /\ row = [stock |-> InitStock, version |-> 0, active |-> TRUE]
    /\ logged = 0
    /\ reserved = [c \in Calls |-> 0]
    /\ at = [c \in Calls |-> "start"]
    /\ copy = [c \in Calls |-> Unread]
    /\ tries = [c \in Calls |-> 0]
    /\ raced = 0
    /\ bypassed = FALSE

RowFree == \A c \in Calls : at[c] # "locked"

\* The call has read the row and goes on; the call answers and is over.
Read(c, place, object) ==
    /\ copy' = [copy EXCEPT ![c] = object]
    /\ at' = [at EXCEPT ![c] = place]
    /\ UNCHANGED <<row, logged, reserved, tries, raced, bypassed>>
End(c) == at' = [at EXCEPT ![c] = "ended"] /\ copy' = [copy EXCEPT ![c] = Unread]
Give(c) == End(c) /\ UNCHANGED <<row, logged, reserved, tries, raced, bypassed>>
----------------------------------------------------------------------------
(* Under the row lock. *)

Lock(c) ==
    /\ at[c] = "start" /\ Kind[c] \in Locking
    /\ RowFree
    /\ Read(c, "locked", row)

RefuseLocked(c) ==
    /\ at[c] = "locked" /\ Kind[c] # "restock"
    /\ copy[c].stock < Qty[c]
    /\ Give(c)

\* Mutant of Write: the version is not bumped.
WriteUnversioned(c, change) ==
    /\ row' = [row EXCEPT !.stock = copy[c].stock + change]
    /\ logged' = logged + change
    /\ End(c)
    /\ UNCHANGED <<reserved, tries, raced, bypassed>>

\* product.save(update_fields=["stock", "version", ...]) and its log row.
Write(c, change) ==
    /\ row' = [row EXCEPT !.stock = copy[c].stock + change, !.version = copy[c].version + 1]
    /\ logged' = logged + change
    /\ End(c)
    /\ UNCHANGED <<reserved, tries, raced, bypassed>>

\* Mutant of Deduct: no stock test.
DeductUnchecked(c) == at[c] = "locked" /\ Kind[c] = "deduct" /\ Write(c, -Qty[c])

Deduct(c) ==
    /\ at[c] = "locked" /\ Kind[c] = "deduct"
    /\ copy[c].stock >= Qty[c]
    /\ Write(c, -Qty[c])

Restock(c) == at[c] = "locked" /\ Kind[c] = "restock" /\ Write(c, Qty[c])

\* The test is against the stock alone, not against the other reservations.
Reserve(c) ==
    /\ at[c] = "locked" /\ Kind[c] = "reserve"
    /\ copy[c].stock >= Qty[c]
    /\ reserved' = [reserved EXCEPT ![c] = Qty[c]]
    /\ End(c)
    /\ UNCHANGED <<row, logged, tries, raced, bypassed>>
----------------------------------------------------------------------------
(* Without a lock: Product.objects.get(id=..., is_active=True); the        *)
(* checkout without locks does not look at is_active.                      *)

OnSale(c) == row.active \/ Kind[c] = "unsafeOrder"

ReadSnapshot(c) ==
    /\ at[c] = "start" /\ Kind[c] \in Snapshot /\ OnSale(c)
    /\ Kind[c] \in Checking => row.stock >= Qty[c]
    /\ Read(c, "read", IF Kind[c] \in Computing THEN row ELSE Unread)

RefuseSnapshot(c) ==
    /\ at[c] = "start"
    /\ \/ Kind[c] \in Checking /\ OnSale(c) /\ row.stock < Qty[c]
       \/ Kind[c] \in Snapshot \ Checking /\ ~row.active
    /\ Give(c)

\* WHERE version = captured_version AND stock >= quantity.
Matches(c) == row.version = copy[c].version /\ row.stock >= Qty[c]

\* Mutant of UpdateOptimistic: no version test.
UpdateUnversioned(c) ==
    /\ at[c] = "read" /\ Kind[c] = "optimistic"
    /\ RowFree /\ row.stock >= Qty[c]
    /\ Write(c, -Qty[c])

\* The conditional UPDATE and its log row; it waits for the row to be free.
UpdateOptimistic(c) ==
    /\ at[c] = "read" /\ Kind[c] = "optimistic"
    /\ RowFree /\ Matches(c)
    /\ Write(c, -Qty[c])

\* Mutant of Conflict: one attempt too many.
ConflictOnceMore(c) ==
    /\ Kind[c] = "optimistic"
    /\ \/ at[c] = "read" /\ RowFree /\ ~Matches(c)
       \/ at[c] = "start" /\ ~row.active
    /\ tries' = [tries EXCEPT ![c] = @ + 1]
    /\ at' = [at EXCEPT ![c] = IF tries[c] < MaxAttempts THEN "start" ELSE "ended"]
    /\ copy' = [copy EXCEPT ![c] = Unread]
    /\ UNCHANGED <<row, logged, reserved, raced, bypassed>>

\* Mutant of Conflict: retry without limit.
ConflictForever(c) ==
    /\ Kind[c] = "optimistic"
    /\ \/ at[c] = "read" /\ RowFree /\ ~Matches(c)
       \/ at[c] = "start" /\ ~row.active
    /\ tries' = [tries EXCEPT ![c] = IF @ < MaxAttempts THEN @ + 1 ELSE @]
    /\ at' = [at EXCEPT ![c] = "start"]
    /\ copy' = [copy EXCEPT ![c] = Unread]
    /\ UNCHANGED <<row, logged, reserved, raced, bypassed>>

\* No row updated, or no active product found: deduct_stock_optimistic
\* returns False for both, and the caller tries again until RuntimeError.
Conflict(c) ==
    /\ Kind[c] = "optimistic"
    /\ \/ at[c] = "read" /\ RowFree /\ ~Matches(c)
       \/ at[c] = "start" /\ ~row.active
    /\ tries' = [tries EXCEPT ![c] = @ + 1]
    /\ at' = [at EXCEPT ![c] = IF tries[c] + 1 < MaxAttempts THEN "start" ELSE "ended"]
    /\ copy' = [copy EXCEPT ![c] = Unread]
    /\ UNCHANGED <<row, logged, reserved, raced, bypassed>>

\* ModelSerializer.update ends in instance.save(): every column is written
\* back as get_object read it, except those in the request.
Patch(c) ==
    /\ at[c] = "read" /\ Kind[c] = "patch"
    /\ RowFree
    /\ \E a \in BOOLEAN : row' = [copy[c] EXCEPT !.active = a]
    /\ bypassed' = (bypassed \/ copy[c] # row)
    /\ End(c)
    /\ UNCHANGED <<logged, reserved, tries, raced>>

\* UPDATE stock = stock - quantity, with no test, version or log.
TakeUntested(c) ==
    /\ RowFree
    /\ row' = [row EXCEPT !.stock = @ - Qty[c]]
    /\ raced' = raced + Qty[c]
    /\ bypassed' = TRUE
    /\ End(c)
    /\ UNCHANGED <<logged, reserved, tries>>

Race(c) == at[c] = "read" /\ Kind[c] = "race" /\ TakeUntested(c)

\* create_order_from_cart_unsafe, after its test of the snapshot.
OrderUnsafe(c) == at[c] = "read" /\ Kind[c] = "unsafeOrder" /\ TakeUntested(c)

ReserveUnsafe(c) ==
    /\ at[c] = "read" /\ Kind[c] = "reserveUnsafe"
    /\ reserved' = [reserved EXCEPT ![c] = Qty[c]]
    /\ End(c)
    /\ UNCHANGED <<row, logged, tries, raced, bypassed>>
----------------------------------------------------------------------------
\* release_expired_locks: whichever have expired by now.
ReleaseExpired ==
    /\ \E S \in SUBSET {c \in Calls : reserved[c] > 0} :
        /\ S # {}
        /\ reserved' = [c \in Calls |-> IF c \in S THEN 0 ELSE reserved[c]]
    /\ UNCHANGED <<row, logged, at, copy, tries, raced, bypassed>>

\* The process dies: an open transaction rolls back and its lock is freed.
Crash(c) == at[c] \in {"locked", "read"} /\ Give(c)

Step(c) ==
    \/ Lock(c) \/ RefuseLocked(c) \/ Deduct(c) \/ Restock(c) \/ Reserve(c)
    \/ ReadSnapshot(c) \/ RefuseSnapshot(c) \/ UpdateOptimistic(c) \/ Conflict(c)
    \/ Patch(c) \/ Race(c) \/ OrderUnsafe(c) \/ ReserveUnsafe(c)

Finished == (\A c \in Calls : at[c] = "ended") /\ UNCHANGED vars

Next == (\E c \in Calls : Step(c) \/ Crash(c)) \/ ReleaseExpired \/ Finished

\* A request that was received is worked on; nothing forces a crash.
Fairness == \A c \in Calls : WF_vars(Step(c))

Spec == Init /\ [][Next]_vars /\ Fairness
----------------------------------------------------------------------------
Row == [stock : Int, version : Nat, active : BOOLEAN]

\* Types; an optimistic deduction never exceeds its attempts.
TypeOK ==
    /\ row \in Row
    /\ logged \in Int
    /\ reserved \in [Calls -> Nat]
    /\ at \in [Calls -> {"start", "locked", "read", "ended"}]
    /\ copy \in [Calls -> Row]
    /\ tries \in [Calls -> 0 .. MaxAttempts]
    /\ raced \in Nat
    /\ bypassed \in BOOLEAN

\* Only the race demo and the checkout without locks sell what is not there,
\* and no more than they took, whatever other writes run beside them.
OversellOnlyByDemo == row.stock + raced >= 0

\* As long as nobody wrote round the version, row lock and version test
\* together lose no update: the log explains the stock.
LogExplainsStock == ~bypassed => row.stock = InitStock + logged

\* The log explains the stock ("Audit log for every stock change on a
\* product.", products/models.py).
EveryChangeLogged == row.stock = InitStock + logged

\* An optimistic deduction that lost k times lost to at least k writes that
\* succeeded, unless the product was taken off sale: conflicts mean that
\* somebody makes progress, and a refusal by the stock never counts as one.
ConflictsMeanProgress ==
    ~bypassed /\ row.active => \A c \in Calls : tries[c] <= row.version

\* No more is reserved than is in stock ("concurrent over-reservation
\* impossible", locustfile.py).
NeverOverReserved == MapThenSumSet(LAMBDA c : reserved[c], Calls) <= row.stock

\* Every call ends, however often the optimistic ones lose: the row lock is
\* always let go and the attempts are bounded.
AllEnd == <>(\A c \in Calls : at[c] = "ended")
============================================================================
