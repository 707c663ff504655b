-------------------------- MODULE OrderLifecycle ---------------------------
(***************************************************************************)
(* One order and its payment after checkout, under concurrent calls:       *)
(* process_payment ("pay"), cancel_order ("cancel"), update_order_status   *)
(* ("set"), and the two demo endpoints that take no lock ("payUnsafe",     *)
(* "cancelUnsafe").  The safe calls are transactions that lock the order   *)
(* row and then the payment row; the demo endpoints save each row in a     *)
(* transaction of its own.                                                 *)
(***************************************************************************)

CONSTANTS
    Calls,
    Kind,         \* Calls -> the five kinds
    NewStatus,    \* the status a "set" call asks for
    Strangers,    \* the calls of users who are neither owner nor staff
    Created       \* <<status, paid>> as checkout leaves them

Statuses == {"PENDING", "CONFIRMED", "PROCESSING", "SHIPPED", "DELIVERED", "CANCELLED"}
Unsafe == {"payUnsafe", "cancelUnsafe"}
Kinds == {"pay", "cancel", "set"} \cup Unsafe

ASSUME LifecycleAssumption ==
    /\ Kind \in [Calls -> Kinds]
    /\ NewStatus \in [Calls -> Statuses]
    /\ Strangers \subseteq Calls
    /\ Created \subseteq Statuses \X BOOLEAN

VARIABLES
    status,       \* order.status
    paid,         \* payment.status = COMPLETED
    by,           \* the call whose method and transaction_id the payment shows
    at,           \* where each call is
    copy,         \* order.status as the call read it
    paidCopy      \* payment.status = COMPLETED as the call read it

row == <<status, paid, by>>
vars == <<row, at, copy, paidCopy>>

HoldsOrder(c) == Kind[c] \notin Unsafe /\ at[c] \in {"order", "payment"}
HoldsPayment(c) == at[c] = "payment"
OrderFree == \A c \in Calls : ~HoldsOrder(c)
PaymentFree == \A c \in Calls : ~HoldsPayment(c)

Init ==
    /\ \E o \in Created : status = o[1] /\ paid = o[2]
    /\ by = {}
    /\ at = [c \in Calls |-> "start"]
    /\ copy = [c \in Calls |-> "none"]
    /\ paidCopy = [c \in Calls |-> FALSE]
----------------------------------------------------------------------------
\* The call is over and its variables are gone.
Leave(c, how) ==
    /\ at' = [at EXCEPT ![c] = how]
    /\ copy' = [copy EXCEPT ![c] = "none"]
    /\ paidCopy' = [paidCopy EXCEPT ![c] = FALSE]

End(c) == Leave(c, "done")

\* Mutant of Refuse: the error is swallowed inside the open transaction.
RefuseSilently(c) == at[c] # "done" /\ UNCHANGED vars

\* The transaction rolls back or had nothing to do: 400 or 404.
Refuse(c) == Leave(c, "refused") /\ UNCHANGED row

\* Mutant of LockOrder: a plain read.
ReadOrder(c) ==
    /\ at[c] = "start" /\ Kind[c] \notin Unsafe
    /\ Kind[c] = "cancel" => c \notin Strangers
    /\ at' = [at EXCEPT ![c] = "order"]
    /\ copy' = [copy EXCEPT ![c] = status]
    /\ UNCHANGED <<row, paidCopy>>

\* Order.objects.select_for_update().get(id=...); a stranger's cancel finds
\* no row, a stranger's payment is found out after the lock.
LockOrder(c) ==
    /\ at[c] = "start" /\ Kind[c] \notin Unsafe
    /\ Kind[c] = "cancel" => c \notin Strangers
    /\ OrderFree
    /\ at' = [at EXCEPT ![c] = "order"]
    /\ copy' = [copy EXCEPT ![c] = status]
    /\ UNCHANGED <<row, paidCopy>>

NotFound(c) ==
    /\ c \in Strangers
    /\ \/ at[c] = "start" /\ Kind[c] \in Unsafe \cup {"cancel"}
       \/ at[c] = "order" /\ Kind[c] = "pay"
    /\ Refuse(c)

LockPayment(c) ==
    /\ at[c] = "order" /\ Kind[c] = "pay" /\ c \notin Strangers
    /\ PaymentFree
    /\ at' = [at EXCEPT ![c] = "payment"]
    /\ paidCopy' = [paidCopy EXCEPT ![c] = paid]
    /\ UNCHANGED <<row, copy>>

\* Mutant of Pay: a completed payment is processed again.
PayAgain(c) ==
    /\ at[c] = "payment"
    /\ copy[c] # "CANCELLED"
    /\ paid' = TRUE /\ by' = {c} /\ status' = "PROCESSING"
    /\ End(c)

\* process_payment's two saves and its COMMIT.
Pay(c) ==
    /\ at[c] = "payment"
    /\ copy[c] # "CANCELLED" /\ ~paidCopy[c]
    /\ paid' = TRUE /\ by' = {c} /\ status' = "PROCESSING"
    /\ End(c)

RefusePay(c) ==
    /\ at[c] = "payment"
    /\ copy[c] = "CANCELLED" \/ paidCopy[c]
    /\ Refuse(c)

Cancel(c) ==
    /\ at[c] = "order" /\ Kind[c] = "cancel"
    /\ copy[c] \in {"PENDING", "CONFIRMED"}
    /\ status' = "CANCELLED"
    /\ UNCHANGED <<paid, by>>
    /\ End(c)

RefuseCancel(c) ==
    /\ at[c] = "order" /\ Kind[c] = "cancel"
    /\ copy[c] \notin {"PENDING", "CONFIRMED"}
    /\ Refuse(c)

\* Mutant of SetStatus: the lower-case value the view's docstring names.
SetLowerCase(c) ==
    /\ at[c] = "order" /\ Kind[c] = "set"
    /\ status' = "shipped"
    /\ UNCHANGED <<paid, by>>
    /\ End(c)

\* update_order_status: any status to any status.
SetStatus(c) ==
    /\ at[c] = "order" /\ Kind[c] = "set"
    /\ status' = NewStatus[c]
    /\ UNCHANGED <<paid, by>>
    /\ End(c)
----------------------------------------------------------------------------
(* The demo endpoints: read, sleep, save.  They test nothing they read. *)

ReadUnsafe(c) ==
    /\ at[c] = "start" /\ Kind[c] \in Unsafe /\ c \notin Strangers
    /\ at' = [at EXCEPT ![c] = "order"]
    /\ UNCHANGED <<row, copy, paidCopy>>

\* Mutant of SavePaymentUnsafe: the order is saved first.
SaveOrderFirst(c) ==
    /\ at[c] = "order" /\ Kind[c] = "payUnsafe"
    /\ OrderFree
    /\ status' = "PROCESSING"
    /\ at' = [at EXCEPT ![c] = "saved"]
    /\ UNCHANGED <<paid, by, copy, paidCopy>>

\* payment.save(): waits only for a transaction that holds the payment row.
SavePaymentUnsafe(c) ==
    /\ at[c] = "order" /\ Kind[c] = "payUnsafe"
    /\ PaymentFree
    /\ paid' = TRUE /\ by' = {c}
    /\ at' = [at EXCEPT ![c] = "saved"]
    /\ UNCHANGED <<status, copy, paidCopy>>

\* order.save(update_fields=["status", ...]), whatever the status is by now.
SaveOrderUnsafe(c) ==
    /\ \/ at[c] = "saved" /\ status' = "PROCESSING"
       \/ at[c] = "order" /\ Kind[c] = "cancelUnsafe" /\ status' = "CANCELLED"
    /\ OrderFree
    /\ UNCHANGED <<paid, by>>
    /\ End(c)

\* The process or its connection dies: an open transaction rolls back, what a
\* demo endpoint has saved stays.
Crash(c) ==
    /\ at[c] \in {"start", "order", "payment", "saved"}
    /\ Leave(c, IF at[c] = "saved" THEN "half" ELSE "crashed")
    /\ UNCHANGED row
----------------------------------------------------------------------------
Step(c) ==
    \/ LockOrder(c) \/ NotFound(c) \/ LockPayment(c)
    \/ Pay(c) \/ RefusePay(c) \/ Cancel(c) \/ RefuseCancel(c) \/ SetStatus(c)
    \/ ReadUnsafe(c) \/ SavePaymentUnsafe(c) \/ SaveOrderUnsafe(c)

Ended(c) == at[c] \in {"done", "refused", "crashed", "half"}
Finished == (\A c \in Calls : Ended(c)) /\ UNCHANGED vars

Next == (\E c \in Calls : Step(c) \/ Crash(c)) \/ Finished

Fairness == \A c \in Calls : WF_vars(Step(c))

Spec == Init /\ [][Next]_vars /\ Fairness
----------------------------------------------------------------------------
TypeOK ==
    /\ status \in Statuses
    /\ paid \in BOOLEAN
    /\ by \in SUBSET Calls
    /\ at \in [Calls -> {"start", "order", "payment", "saved", "done", "refused", "crashed", "half"}]
    /\ copy \in [Calls -> Statuses \cup {"none"}]
    /\ paidCopy \in [Calls -> BOOLEAN]

\* A demo endpoint has saved something.
DemoWrote == \E c \in Calls : Kind[c] \in Unsafe /\ at[c] \in {"saved", "half", "done"}

\* Until a demo endpoint saves, a payment that is COMPLETED is never processed
\* a second time: method and transaction_id stay those of the one charge
\* ("prevent double payment").
ChargedOnce == [][paid /\ ~DemoWrote' => UNCHANGED <<paid, by>>]_vars

\* Until a demo endpoint saves, no order is both cancelled and paid, which that
\* endpoint's docstring calls "an invalid paid-and-cancelled state".
NeverPaidAndCancelled == DemoWrote \/ ~(paid /\ status = "CANCELLED")

\* A cancelled order stays cancelled until staff set another status: no payment
\* in flight revives it, only a demo endpoint's does.
StaffSets == \E c \in Calls : SetStatus(c)
CancelledIsFinal ==
    [][status = "CANCELLED" /\ ~DemoWrote' => status' = "CANCELLED" \/ StaffSets]_vars

\* An order is PROCESSING only once its payment is COMPLETED, even when the
\* unsafe payment is interrupted between its two saves.
ProcessingIsPaid == status = "PROCESSING" => paid

\* Every call ends: order before payment is one lock order for all.
AllEnd == <>(\A c \in Calls : Ended(c))

\* Until a demo endpoint saves, the calls act one at a time on the present
\* state of the order: every step is an act of OrderMachine or leaves it alone.
Ideal == INSTANCE OrderMachine WITH
            Start <- Created,
            AdminStatuses <- {NewStatus[c] : c \in {d \in Calls : Kind[d] = "set"}}
OneAtATime == Ideal!Init /\ [][DemoWrote' \/ [Ideal!Next]_(Ideal!vars)]_vars
============================================================================
