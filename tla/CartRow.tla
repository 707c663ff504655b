------------------------------ MODULE CartRow -------------------------------
(***************************************************************************)
(* One CartItem row (one user, one product) under concurrent calls:        *)
(* add_to_cart ("add", an optimistic loop), update_cart_item_quantity      *)
(* ("set", where 0 removes), remove_from_cart ("remove"), clear_cart       *)
(* ("clear"), the DELETE of a checkout ("checkout") and the weekly         *)
(* cleanup_abandoned_carts ("cleanup").                                    *)
(***************************************************************************)
EXTENDS Integers, FiniteSets

CONSTANTS
    Calls, Kind,
    Qty,          \* the quantity an "add" or a "set" asks for
    Start,        \* the row before the calls
    MaxQty,       \* largest value of the quantity column
    MaxAttempts   \* CART_OPTIMISTIC_MAX_RETRIES

Locking == {"set", "remove", "checkout"}

\* id 0: there is no row.  old: updated_at is before the cleanup's cutoff;
\* new: the row was inserted after that cutoff.
Row == [id : Nat, qty : 0 .. MaxQty, version : Nat, old : BOOLEAN, new : BOOLEAN]
NoRow == [id |-> 0, qty |-> 0, version |-> 0, old |-> FALSE, new |-> FALSE]

ASSUME CartRowAssumption ==
    /\ MaxQty \in Nat
    /\ Kind \in [Calls -> Locking \cup {"add", "clear", "cleanup"}]
    /\ Qty \in [Calls -> 0 .. MaxQty]
    /\ \A c \in Calls : Kind[c] = "add" => Qty[c] > 0
    /\ \A r \in Start : \/ r = NoRow
                        \/ r \in Row /\ r.id = 1 /\ r.qty > 0 /\ ~(r.old /\ r.new)
    /\ MaxAttempts \in Nat \ {0}

VARIABLES
    row,
    lastId,       \* the id sequence of the table
    at,           \* where each call is
    copy,         \* the row as the call read it
    lost          \* attempts of an "add" that ended in a conflict

vars == <<row, lastId, at, copy, lost>>

Present == row.id # 0
HoldsRow(c) == at[c] = "held"
RowFree == \A c \in Calls : ~HoldsRow(c)

Init ==
    /\ row \in Start
    /\ lastId = 1
    /\ at = [c \in Calls |-> "start"]
    /\ copy = [c \in Calls |-> NoRow]
    /\ lost = [c \in Calls |-> 0]
----------------------------------------------------------------------------
\* The call ends and its variables are gone.
Leave(c, how) ==
    /\ at' = [at EXCEPT ![c] = how]
    /\ copy' = [copy EXCEPT ![c] = NoRow]
    /\ lost' = [lost EXCEPT ![c] = 0]

\* The call commits r as the row.
Write(c, r) ==
    /\ row' = r
    /\ Leave(c, "done")

\* The row with another quantity and version.
Put(q, v, old) == [id |-> row.id, qty |-> q, version |-> v, old |-> old, new |-> row.new]

Fail(c) == Leave(c, "failed") /\ UNCHANGED <<row, lastId>>

\* Nothing to delete: the call succeeds and writes nothing.
Succeed(c) == Leave(c, "done") /\ UNCHANGED <<row, lastId>>

Read(c, next) ==
    /\ at' = [at EXCEPT ![c] = next]
    /\ copy' = [copy EXCEPT ![c] = row]
    /\ UNCHANGED <<row, lastId, lost>>
----------------------------------------------------------------------------
(* add_to_cart: up to MaxAttempts transactions. *)

\* CartItem.objects.get without a lock, after the product was found in stock.
ReadItem(c) ==
    /\ at[c] = "start" /\ Kind[c] = "add"
    /\ Read(c, IF Present THEN "update" ELSE "insert")

\* ProductNotFoundError or OutOfStockError: the product is not part of this
\* module, so any attempt may find it so.
RefuseAdd(c) ==
    /\ at[c] = "start" /\ Kind[c] = "add"
    /\ Fail(c)

\* Mutant of Matches: the WHERE without the version.
MatchesId(c) == row.id = copy[c].id

\* Mutant of Matches: the UPDATE looks for the version it is about to write.
MatchesNext(c) == row.id = copy[c].id /\ row.version = copy[c].version + 1

\* WHERE id = ... AND version = ..., evaluated on the row as it is by now.
Matches(c) == row.id = copy[c].id /\ row.version = copy[c].version

\* The conditional UPDATE and its COMMIT.  QuerySet.update leaves updated_at.
Update(c) ==
    /\ at[c] = "update" /\ RowFree
    /\ Matches(c)
    /\ copy[c].qty + Qty[c] <= MaxQty
    /\ Write(c, Put(copy[c].qty + Qty[c], copy[c].version + 1, row.old))
    /\ UNCHANGED lastId

\* The sum does not fit the column: DataError, no retry.
Overflow(c) ==
    /\ at[c] = "update" /\ RowFree
    /\ Matches(c)
    /\ copy[c].qty + Qty[c] > MaxQty
    /\ Fail(c)

Insert(c) ==
    /\ at[c] = "insert" /\ RowFree
    /\ ~Present
    /\ lastId' = lastId + 1
    /\ Write(c, [id |-> lastId + 1, qty |-> Qty[c], version |-> 0, old |-> FALSE, new |-> TRUE])

\* Mutant of Retry: the loop never gives up.
RetryForever(c) ==
    /\ at' = [at EXCEPT ![c] = "start"]
    /\ copy' = [copy EXCEPT ![c] = NoRow]
    /\ lost' = [lost EXCEPT ![c] = @ + 1]
    /\ UNCHANGED <<row, lastId>>

\* Mutant of Retry: the row is read once, before the loop.
RetrySameCopy(c) ==
    /\ at' = [at EXCEPT ![c] = "update"]
    /\ UNCHANGED <<row, lastId, copy, lost>>

\* The next attempt, or RuntimeError after the last.
Retry(c) ==
    /\ at' = [at EXCEPT ![c] = IF lost[c] + 1 < MaxAttempts THEN "start" ELSE "failed"]
    /\ copy' = [copy EXCEPT ![c] = NoRow]
    /\ lost' = [lost EXCEPT ![c] = @ + 1]
    /\ UNCHANGED <<row, lastId>>

\* The UPDATE matched no row.
Conflict(c) ==
    /\ at[c] = "update" /\ RowFree
    /\ ~Matches(c)
    /\ Retry(c)

\* IntegrityError of unique_together; an uncommitted DELETE makes it wait.
Duplicate(c) ==
    /\ at[c] = "insert"
    /\ Present
    /\ \A d \in Calls : HoldsRow(d) => Kind[d] # "checkout"
    /\ Retry(c)
----------------------------------------------------------------------------
(* The calls that lock the row, or delete it outright. *)

\* SELECT ... FOR UPDATE, or a checkout's DELETE before its COMMIT.
LockRow(c) ==
    /\ at[c] = "start" /\ Kind[c] \in Locking
    /\ Present /\ RowFree
    /\ Read(c, "held")

\* DoesNotExist: 404, except for a set to 0 and a checkout, which are content.
FindNoRow(c) ==
    /\ at[c] = "start" /\ Kind[c] \in Locking
    /\ ~Present
    /\ IF Kind[c] = "checkout" \/ (Kind[c] = "set" /\ Qty[c] = 0)
       THEN Succeed(c) ELSE Fail(c)

\* Mutant of SetQuantity: version is not among the saved fields.
SetSameVersion(c) ==
    /\ HoldsRow(c) /\ Kind[c] = "set" /\ Qty[c] > 0
    /\ Write(c, Put(Qty[c], row.version, FALSE))
    /\ UNCHANGED lastId

\* item.save(update_fields=["quantity", "version", "updated_at"]).
SetQuantity(c) ==
    /\ HoldsRow(c) /\ Kind[c] = "set" /\ Qty[c] > 0
    /\ Write(c, Put(Qty[c], copy[c].version + 1, FALSE))
    /\ UNCHANGED lastId

\* item.delete(), or the checkout's COMMIT.
Remove(c) ==
    /\ HoldsRow(c) /\ (Kind[c] = "set" => Qty[c] = 0)
    /\ Write(c, NoRow)
    /\ UNCHANGED lastId

\* A single DELETE in autocommit.
Clear(c) ==
    /\ at[c] = "start" /\ Kind[c] = "clear" /\ RowFree
    /\ IF Present THEN Write(c, NoRow) /\ UNCHANGED lastId ELSE Succeed(c)
----------------------------------------------------------------------------
(* cleanup_abandoned_carts, and the time that makes rows stale. *)

\* The stale ids are collected first ...
Collect(c) ==
    /\ at[c] = "start" /\ Kind[c] = "cleanup"
    /\ IF row.old THEN Read(c, "sweep") ELSE Succeed(c)

\* Mutant of Sweep: the chunk names users and products instead of ids.
SweepAny(c) ==
    /\ at[c] = "sweep" /\ RowFree
    /\ IF Present THEN Write(c, NoRow) /\ UNCHANGED lastId ELSE Succeed(c)

\* ... and deleted by id when their chunk's turn comes, without a second look
\* at updated_at.
Sweep(c) ==
    /\ at[c] = "sweep" /\ RowFree
    /\ IF row.id = copy[c].id THEN Write(c, NoRow) /\ UNCHANGED lastId ELSE Succeed(c)

\* Thirty days pass; no cleanup takes as long.
Age ==
    /\ Present /\ RowFree
    /\ \A c \in Calls : at[c] # "sweep"
    /\ row' = [row EXCEPT !.old = TRUE, !.new = FALSE]
    /\ UNCHANGED <<lastId, at, copy, lost>>

\* The process or its connection dies; an open transaction rolls back.
Crash(c) ==
    /\ at[c] \notin {"done", "failed"}
    /\ Fail(c)
----------------------------------------------------------------------------
Step(c) ==
    \/ ReadItem(c) \/ RefuseAdd(c) \/ Update(c) \/ Overflow(c) \/ Insert(c)
    \/ Conflict(c) \/ Duplicate(c)
    \/ LockRow(c) \/ FindNoRow(c) \/ SetQuantity(c) \/ Remove(c) \/ Clear(c)
    \/ Collect(c) \/ Sweep(c)

Ended(c) == at[c] \in {"done", "failed"}
Finished == (\A c \in Calls : Ended(c)) /\ UNCHANGED vars

Next == (\E c \in Calls : Step(c) \/ Crash(c)) \/ Age \/ Finished

Fairness == \A c \in Calls : WF_vars(Step(c))

Spec == Init /\ [][Next]_vars /\ Fairness
----------------------------------------------------------------------------
TypeOK ==
    /\ row \in Row
    /\ lastId \in Nat
    /\ at \in [Calls -> {"start", "update", "insert", "held", "sweep", "done", "failed"}]
    /\ copy \in [Calls -> Row]
    /\ lost \in [Calls -> 0 .. MaxAttempts]

\* The version test of the optimistic UPDATE is enough: a row that still has
\* the id and version a call has read has the quantity it has read, although
\* rows are deleted and inserted again with version 0.
VersionNamesQuantity ==
    \A c \in Calls : at[c] \in {"update", "held"} /\ Matches(c) => copy[c].qty = row.qty

\* An addition that lost k attempts lost them to k other calls that succeeded:
\* two conflicting calls never both lose ("only the first one succeeds; the
\* second gets a conflict error", cart/models.py).
ConflictsMeanProgress ==
    \A c \in Calls : lost[c] <= Cardinality({d \in Calls \ {c} : at[d] = "done"})

\* The cleanup never takes an item that was put in the cart after its cutoff,
\* even one put back while the cleanup was on its way.
CleanupSparesNew ==
    [][\A c \in Calls : at[c] = "sweep" /\ at'[c] = "done" /\ row.new => row' = row]_vars

\* Every call ends: the loop is bounded and no lock is held for ever.
AllEnd == <>(\A c \in Calls : Ended(c))

\* The row with its optimistic loop, locks and retries behaves as one cart
\* line on which every successful call acts once.
Line == INSTANCE CartLine WITH
            Start <- {r.qty : r \in Start},
            quantity <- row.qty,
            done <- {c \in Calls : at[c] = "done"}
AsOneLine == Line!Spec
============================================================================
