----------------------- MODULE OrderLifecycleProofs ------------------------
(***************************************************************************)
(* Safety of OrderLifecycle for every set of calls of every kind.          *)
(***************************************************************************)
EXTENDS OrderLifecycle, TLAPS

\* Staff only move an order forward.
StaffMoveForward ==
    \A c \in Calls : Kind[c] = "set" => NewStatus[c] \in {"PROCESSING", "SHIPPED", "DELIVERED"}

\* A card checkout created the order.
CardOrderOnly == \A o \in Created : o[1] = "CONFIRMED" /\ o[2] = FALSE

\* Where a call of each kind can be.
Placed ==
    \A c \in Calls :
        /\ at[c] = "payment" => Kind[c] = "pay"
        /\ at[c] = "saved" => Kind[c] = "payUnsafe"

\* One holder of the order row, hence of the payment row.
OneHolder ==
    \A c, d \in Calls : HoldsOrder(c) /\ HoldsOrder(d) => c = d

\* What a lock holder has read is still so.
ReadsAreCurrent ==
    \A c \in Calls :
        /\ HoldsOrder(c) => copy[c] = status
        /\ HoldsPayment(c) => paidCopy[c] = paid

LockInv == TypeOK /\ Placed /\ OneHolder /\ ReadsAreCurrent
----------------------------------------------------------------------------
LEMMA InitType == Init => TypeOK /\ Placed
BY LifecycleAssumption DEF Init, TypeOK, Placed, Statuses

LEMMA StepType ==
    ASSUME TypeOK, Placed, NEW c \in Calls, Step(c) \/ Crash(c)
    PROVE  TypeOK' /\ Placed'
<1> USE LifecycleAssumption DEF TypeOK, Placed, Leave, End, Refuse, row, Statuses, Unsafe, Kinds
<1>1. CASE LockOrder(c)
    BY <1>1 DEF LockOrder
<1>2. CASE NotFound(c)
    BY <1>2 DEF NotFound
<1>3. CASE LockPayment(c)
    BY <1>3 DEF LockPayment
<1>4. CASE Pay(c) \/ RefusePay(c)
    BY <1>4 DEF Pay, RefusePay
<1>5. CASE Cancel(c) \/ RefuseCancel(c) \/ SetStatus(c)
    BY <1>5 DEF Cancel, RefuseCancel, SetStatus
<1>6. CASE ReadUnsafe(c)
    BY <1>6 DEF ReadUnsafe
<1>7. CASE SavePaymentUnsafe(c)
    BY <1>7 DEF SavePaymentUnsafe
<1>8. CASE SaveOrderUnsafe(c)
    BY <1>8 DEF SaveOrderUnsafe
<1>9. CASE Crash(c)
    BY <1>9 DEF Crash
<1> QED BY <1>1, <1>2, <1>3, <1>4, <1>5, <1>6, <1>7, <1>8, <1>9 DEF Step

LEMMA NextType == TypeOK /\ Placed /\ [Next]_vars => TypeOK' /\ Placed'
<1> SUFFICES ASSUME TypeOK, Placed, [Next]_vars PROVE TypeOK' /\ Placed'
    OBVIOUS
<1>1. ASSUME UNCHANGED vars PROVE TypeOK' /\ Placed'
    BY <1>1 DEF vars, row, TypeOK, Placed
<1> QED BY <1>1, StepType DEF Next, Finished

\* Types, whatever endpoints are called.
THEOREM TypeCorrect == Spec => []TypeOK
<1> QED BY InitType, NextType, PTL DEF Spec

\* PROCESSING means paid, with the demo endpoints and crashes included, as long
\* as no staff member sets PROCESSING by hand and no order is created so.
THEOREM ProcessingPaid ==
    ASSUME \A c \in Calls : Kind[c] = "set" => NewStatus[c] # "PROCESSING",
           <<"PROCESSING", FALSE>> \notin Created
    PROVE  Spec => []ProcessingIsPaid
<1> DEFINE I == TypeOK /\ Placed /\ ProcessingIsPaid
                /\ \A c \in Calls : at[c] = "saved" => paid
<1>1. Init => I
    <2> SUFFICES ASSUME Init PROVE I
        OBVIOUS
    <2>1. PICK o \in Created : status = o[1] /\ paid = o[2]
        BY DEF Init
    <2>2. o = <<o[1], o[2]>>
        BY LifecycleAssumption
    <2>3. ProcessingIsPaid
        <3> SUFFICES ASSUME status = "PROCESSING", ~paid PROVE FALSE
            BY DEF ProcessingIsPaid
        <3>1. o[2] = FALSE
            BY <2>1, LifecycleAssumption
        <3> QED BY <2>1, <2>2, <3>1
    <2> QED BY <2>3, InitType DEF Init
<1>2. I /\ [Next]_vars => I'
    <2> SUFFICES ASSUME I, [Next]_vars PROVE I'
        OBVIOUS
    <2>1. TypeOK' /\ Placed'
        BY NextType
    <2>2. ASSUME NEW c \in Calls, Step(c) \/ Crash(c)
          PROVE  ProcessingIsPaid' /\ \A d \in Calls : at'[d] = "saved" => paid'
        <3> USE <2>2 DEF TypeOK, Leave, End, Refuse, row, ProcessingIsPaid
        <3>1. CASE LockOrder(c) \/ NotFound(c) \/ LockPayment(c)
            BY <3>1 DEF LockOrder, NotFound, LockPayment
        <3>2. CASE Pay(c) \/ RefusePay(c)
            BY <3>2 DEF Pay, RefusePay
        <3>3. CASE Cancel(c) \/ RefuseCancel(c) \/ SetStatus(c)
            BY <3>3 DEF Cancel, RefuseCancel, SetStatus
        <3>4. CASE ReadUnsafe(c) \/ SavePaymentUnsafe(c) \/ SaveOrderUnsafe(c)
            BY <3>4 DEF ReadUnsafe, SavePaymentUnsafe, SaveOrderUnsafe
        <3>5. CASE Crash(c)
            BY <3>5 DEF Crash
        <3> QED BY <3>1, <3>2, <3>3, <3>4, <3>5 DEF Step
    <2>3. ASSUME UNCHANGED vars
          PROVE  ProcessingIsPaid' /\ \A d \in Calls : at'[d] = "saved" => paid'
        BY <2>3 DEF vars, row, ProcessingIsPaid
    <2> QED BY <2>1, <2>2, <2>3 DEF Next, Finished
<1>3. I => ProcessingIsPaid
    OBVIOUS
<1> QED BY <1>1, <1>2, <1>3, PTL DEF Spec
----------------------------------------------------------------------------
(* The locks, and what holders of locks know. *)

LEMMA LockStep ==
    ASSUME LockInv, NEW c \in Calls, Step(c) \/ Crash(c)
    PROVE  OneHolder' /\ ReadsAreCurrent'
<1> USE DEF LockInv, TypeOK, Placed, OneHolder, ReadsAreCurrent,
            HoldsOrder, HoldsPayment, Leave, End, Refuse, row
<1>1. CASE LockOrder(c)
    BY <1>1 DEF LockOrder, OrderFree
<1>2. CASE NotFound(c) \/ RefusePay(c) \/ RefuseCancel(c) \/ Crash(c)
    BY <1>2 DEF NotFound, RefusePay, RefuseCancel, Crash
<1>3. CASE LockPayment(c)
    BY <1>3 DEF LockPayment
<1>4. CASE Pay(c) \/ Cancel(c) \/ SetStatus(c)
    BY <1>4 DEF Pay, Cancel, SetStatus, Unsafe
<1>5. CASE ReadUnsafe(c)
    BY <1>5 DEF ReadUnsafe
<1>6. CASE SavePaymentUnsafe(c)
    BY <1>6 DEF SavePaymentUnsafe, PaymentFree
<1>7. CASE SaveOrderUnsafe(c)
    BY <1>7 DEF SaveOrderUnsafe, OrderFree
<1> QED BY <1>1, <1>2, <1>3, <1>4, <1>5, <1>6, <1>7 DEF Step

LEMMA LockInvariance == (Init => LockInv) /\ (LockInv /\ [Next]_vars => LockInv')
<1>1. Init => LockInv
    BY InitType DEF Init, LockInv, OneHolder, ReadsAreCurrent, HoldsOrder, HoldsPayment
<1>2. ASSUME LockInv, [Next]_vars PROVE LockInv'
    <2>1. TypeOK' /\ Placed'
        BY <1>2, NextType DEF LockInv
    <2>2. ASSUME UNCHANGED vars PROVE OneHolder' /\ ReadsAreCurrent'
        BY <1>2, <2>2 DEF LockInv, vars, row, OneHolder, ReadsAreCurrent,
           HoldsOrder, HoldsPayment
    <2> QED BY <1>2, <2>1, <2>2, LockStep DEF LockInv, Next, Finished
<1> QED BY <1>1, <1>2

\* What a step does to the order, from what the row is now, unless a demo
\* endpoint has saved.
LEMMA StepIsIdeal ==
    ASSUME LockInv, NEW c \in Calls, Step(c) \/ Crash(c)
    PROVE  \/ UNCHANGED row
           \/ Ideal!Pay
           \/ Ideal!Cancel /\ UNCHANGED by
           \/ SetStatus(c) /\ Ideal!Set /\ UNCHANGED by
           \/ DemoWrote'
<1> USE DEF LockInv
<1>1. CASE Pay(c)
    BY <1>1 DEF Pay, Ideal!Pay, ReadsAreCurrent, HoldsOrder, HoldsPayment, Placed, Unsafe
<1>2. CASE Cancel(c)
    BY <1>2 DEF Cancel, Ideal!Cancel, ReadsAreCurrent, HoldsOrder, Unsafe
<1>3. CASE SetStatus(c)
    BY <1>3 DEF SetStatus, Ideal!Set
<1>4. CASE LockOrder(c) \/ NotFound(c) \/ LockPayment(c) \/ RefusePay(c)
           \/ RefuseCancel(c) \/ ReadUnsafe(c) \/ Crash(c)
    BY <1>4 DEF LockOrder, NotFound, LockPayment, RefusePay, RefuseCancel, ReadUnsafe,
       Crash, Refuse
<1>5. CASE SavePaymentUnsafe(c)
    BY <1>5 DEF SavePaymentUnsafe, DemoWrote, TypeOK, Unsafe
<1>6. CASE SaveOrderUnsafe(c)
    BY <1>6 DEF SaveOrderUnsafe, End, Leave, DemoWrote, TypeOK, Placed, Unsafe
<1> QED BY <1>1, <1>2, <1>3, <1>4, <1>5, <1>6 DEF Step

\* What a demo endpoint has saved it cannot take back.
LEMMA DemoStays == ASSUME LockInv, [Next]_vars, DemoWrote PROVE DemoWrote'
<1>1. PICK d \in Calls : Kind[d] \in Unsafe /\ at[d] \in {"saved", "half", "done"}
    BY DEF DemoWrote
<1>2. SUFFICES at'[d] \in {"saved", "half", "done"}
    BY <1>1 DEF DemoWrote
<1> USE <1>1 DEF LockInv, TypeOK, Placed, Unsafe
<1>3. ASSUME NEW c \in Calls, Step(c) \/ Crash(c)
      PROVE  at'[d] \in {"saved", "half", "done"}
    <2> USE DEF Leave, End, Refuse
    <2>1. CASE LockOrder(c) \/ LockPayment(c)
        BY <2>1 DEF LockOrder, LockPayment
    <2>2. CASE NotFound(c) \/ RefusePay(c) \/ RefuseCancel(c)
        BY <2>2 DEF NotFound, RefusePay, RefuseCancel
    <2>3. CASE Pay(c) \/ Cancel(c) \/ SetStatus(c)
        BY <2>3 DEF Pay, Cancel, SetStatus
    <2>4. CASE ReadUnsafe(c) \/ SavePaymentUnsafe(c)
        BY <2>4 DEF ReadUnsafe, SavePaymentUnsafe
    <2>5. CASE SaveOrderUnsafe(c)
        BY <2>5 DEF SaveOrderUnsafe
    <2>6. CASE Crash(c)
        BY <2>6 DEF Crash
    <2> QED BY <1>3, <2>1, <2>2, <2>3, <2>4, <2>5, <2>6 DEF Step
<1>4. CASE UNCHANGED vars
    BY <1>4 DEF vars
<1> QED BY <1>3, <1>4 DEF Next, Finished

\* Until a demo endpoint saves, the calls act one at a time on the order's
\* present state.
THEOREM ActsOneAtATime == Spec => OneAtATime
<1>1. Init => Ideal!Init
    BY DEF Init, Ideal!Init
<1>2. LockInv /\ [Next]_vars => [DemoWrote' \/ [Ideal!Next]_(Ideal!vars)]_vars
    <2> SUFFICES ASSUME LockInv, Next, ~DemoWrote'
                 PROVE  Ideal!Next \/ UNCHANGED <<status, paid>>
        BY DEF Ideal!vars
    <2>1. ASSUME NEW c \in Calls, Step(c) \/ Crash(c)
          PROVE  Ideal!Next \/ UNCHANGED <<status, paid>>
        BY <2>1, StepIsIdeal DEF Ideal!Next, row
    <2> QED BY <2>1 DEF Next, Finished, vars, row
<1> QED BY <1>1, <1>2, LockInvariance, PTL DEF Spec, OneAtATime

\* Until a demo endpoint saves, a completed payment is never charged again.
THEOREM NoDoubleCharge == Spec => ChargedOnce
<1>1. LockInv /\ [Next]_vars => [paid /\ ~DemoWrote' => UNCHANGED <<paid, by>>]_vars
    <2> SUFFICES ASSUME LockInv, Next, paid, ~DemoWrote' PROVE UNCHANGED <<paid, by>>
        OBVIOUS
    <2>1. ASSUME NEW c \in Calls, Step(c) \/ Crash(c) PROVE UNCHANGED <<paid, by>>
        BY <2>1, StepIsIdeal DEF row, Ideal!Pay, Ideal!Cancel, Ideal!Set
    <2> QED BY <2>1 DEF Next, Finished, vars, row
<1> QED BY <1>1, LockInvariance, PTL DEF Spec, ChargedOnce

\* Only staff, or a demo endpoint, take an order out of CANCELLED.
THEOREM CancelIsFinal == Spec => CancelledIsFinal
<1>1. LockInv /\ [Next]_vars =>
        [status = "CANCELLED" /\ ~DemoWrote' => status' = "CANCELLED" \/ StaffSets]_vars
    <2> SUFFICES ASSUME LockInv, Next, status = "CANCELLED", ~DemoWrote'
                 PROVE  status' = "CANCELLED" \/ StaffSets
        OBVIOUS
    <2>1. ASSUME NEW c \in Calls, Step(c) \/ Crash(c)
          PROVE  status' = "CANCELLED" \/ StaffSets
        BY <2>1, StepIsIdeal DEF row, Ideal!Pay, Ideal!Cancel, StaffSets
    <2> QED BY <2>1 DEF Next, Finished, vars, row
<1> QED BY <1>1, LockInvariance, PTL DEF Spec, CancelledIsFinal

\* When a card checkout created the order and staff only move it forward, it is
\* never both paid and cancelled until a demo endpoint saves.
THEOREM PaidXorCancelled ==
    ASSUME StaffMoveForward, CardOrderOnly PROVE Spec => []NeverPaidAndCancelled
<1> DEFINE Paid == paid => status \in {"PROCESSING", "SHIPPED", "DELIVERED"}
           I == LockInv /\ (DemoWrote \/ Paid)
<1>1. Init => I
    <2>1. \A o \in Created : o[2] = FALSE
        BY DEF CardOrderOnly
    <2>2. Init => paid = FALSE
        BY <2>1 DEF Init
    <2> QED BY <2>2, LockInvariance
<1>2. I /\ [Next]_vars => I'
    <2> SUFFICES ASSUME I, [Next]_vars, ~DemoWrote' PROVE Paid'
        BY LockInvariance
    <2>1. Paid
        BY DemoStays
    <2>2. ASSUME NEW c \in Calls, Step(c) \/ Crash(c) PROVE Paid'
        <3>1. SetStatus(c) => status' \in {"PROCESSING", "SHIPPED", "DELIVERED"}
            BY DEF SetStatus, StaffMoveForward
        <3> QED BY <2>1, <2>2, <3>1, StepIsIdeal DEF row, Ideal!Pay, Ideal!Cancel
    <2> QED BY <2>1, <2>2 DEF Next, Finished, vars, row
<1>3. I => NeverPaidAndCancelled
    BY DEF NeverPaidAndCancelled
<1> QED BY <1>1, <1>2, <1>3, PTL DEF Spec
============================================================================
