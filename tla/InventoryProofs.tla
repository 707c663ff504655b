-------------------------- MODULE InventoryProofs --------------------------
(* TLAPS proofs about Inventory, for any calls, quantities and stock.      *)
EXTENDS Inventory, TLAPS

\* The row lock has one holder, and its copy is the row.
Pessimistic ==
    /\ \A c, d \in Calls : at[c] = "locked" /\ at[d] = "locked" => c = d
    /\ \A c \in Calls : at[c] = "locked" => copy[c] = row

\* No copy shows less stock than the units in `raced' account for, so none that
\* is written back does.
StockBounded ==
    /\ OversellOnlyByDemo
    /\ \A c \in Calls : copy[c].stock + raced >= 0

\* A version names one stock.
VersionNamesStock ==
    /\ \A c \in Calls : at[c] = "read" /\ Kind[c] \in Computing => copy[c].active
    /\ ~bypassed => \A c \in Calls : at[c] = "read" /\ Kind[c] \in Computing =>
        /\ copy[c].version <= row.version
        /\ copy[c].version = row.version => copy[c].stock = row.stock

\* An optimistic deduction at work has attempts left, read enough stock, and
\* had lost at most as often as the version it read tells of writes.
Attempts ==
    /\ \A c \in Calls : at[c] \in {"start", "read"} => tries[c] < MaxAttempts
    /\ \A c \in Calls : at[c] = "read" /\ Kind[c] = "optimistic" => copy[c].stock >= Qty[c]
    /\ ~bypassed /\ row.active =>
        \A c \in Calls : at[c] = "read" /\ Kind[c] = "optimistic" => tries[c] <= copy[c].version

IInv ==
    /\ TypeOK
    /\ Pessimistic
    /\ StockBounded
    /\ VersionNamesStock
    /\ Attempts
    /\ LogExplainsStock
    /\ ConflictsMeanProgress

LEMMA InitInv == Init => IInv
<1> SUFFICES ASSUME Init PROVE IInv
    OBVIOUS
<1> USE InventoryAssumption DEF InventoryAssumption, Init, Unread
<1>1. TypeOK
    <2>1. row \in Row /\ copy \in [Calls -> Row]
        BY DEF Row
    <2>2. tries \in [Calls -> 0 .. MaxAttempts]
        OBVIOUS
    <2>3. /\ at \in [Calls -> {"start", "locked", "read", "ended"}]
          /\ logged \in Int /\ reserved \in [Calls -> Nat] /\ raced \in Nat
        OBVIOUS
    <2>4. bypassed \in BOOLEAN
        OBVIOUS
    <2> QED BY <2>1, <2>2, <2>3, <2>4 DEF TypeOK
<1>2. Pessimistic /\ VersionNamesStock /\ Attempts
    BY DEF Pessimistic, VersionNamesStock, Attempts
<1>3. StockBounded /\ LogExplainsStock /\ ConflictsMeanProgress
    BY DEF StockBounded, OversellOnlyByDemo, LogExplainsStock, ConflictsMeanProgress
<1> QED BY <1>1, <1>2, <1>3 DEF IInv

\* A deduction or restock may write as the lock holder or after the version
\* test; in both cases it keeps the invariant.
LEMMA WriteInv ==
    ASSUME IInv, NEW c \in Calls, NEW change \in Int, Write(c, change),
           \/ at[c] = "locked"
           \/ RowFree /\ at[c] = "read" /\ Kind[c] \in Computing /\ row.version = copy[c].version,
           copy[c].stock + change >= 0 \/ change > 0
    PROVE  IInv'
<1> USE InventoryAssumption DEF InventoryAssumption, IInv, TypeOK, Row, Write, End, Unread, RowFree
<1>1. TypeOK'
    <2>1. copy[c].stock + change \in Int /\ copy[c].version + 1 \in Nat
        OBVIOUS
    <2>2. row' \in Row
        BY <2>1
    <2>3. copy' \in [Calls -> Row]
        OBVIOUS
    <2>4. logged' \in Int
        OBVIOUS
    <2>5. at' \in [Calls -> {"start", "locked", "read", "ended"}]
        OBVIOUS
    <2> QED BY <2>2, <2>3, <2>4, <2>5
<1>2. Pessimistic'
    BY DEF Pessimistic
<1>3. StockBounded'
    BY DEF StockBounded, OversellOnlyByDemo
<1>4. ~bypassed => copy[c].stock = row.stock /\ copy[c].version = row.version
    BY DEF Pessimistic, VersionNamesStock
<1>5. VersionNamesStock'
    BY <1>4 DEF VersionNamesStock
<1>6. Attempts' /\ ConflictsMeanProgress'
    BY <1>4 DEF Attempts, ConflictsMeanProgress
<1>7. LogExplainsStock'
    BY <1>4 DEF LogExplainsStock
<1> QED BY <1>1, <1>2, <1>3, <1>5, <1>6, <1>7

LEMMA ReadInv ==
    ASSUME IInv, NEW c \in Calls, Lock(c) \/ ReadSnapshot(c)
    PROVE  IInv'
<1> USE InventoryAssumption
    DEF InventoryAssumption, IInv, TypeOK, Row, Read, RowFree, Locking, Snapshot, Checking,
        Computing, OnSale, Unread
<1>1. CASE Lock(c)
    <2> USE <1>1 DEF Lock
    <2>1. TypeOK' /\ Pessimistic'
        BY DEF Pessimistic
    <2>2. StockBounded' /\ LogExplainsStock'
        BY DEF StockBounded, OversellOnlyByDemo, LogExplainsStock
    <2>3. VersionNamesStock'
        BY DEF VersionNamesStock
    <2>4. Attempts' /\ ConflictsMeanProgress'
        BY DEF Attempts, ConflictsMeanProgress
    <2> QED BY <2>1, <2>2, <2>3, <2>4
<1>2. CASE ReadSnapshot(c)
    <2> DEFINE object == IF Kind[c] \in Computing THEN row ELSE Unread
    <2>0. /\ at[c] = "start" /\ OnSale(c)
          /\ Kind[c] \in Checking => row.stock >= Qty[c]
          /\ copy' = [copy EXCEPT ![c] = object]
          /\ at' = [at EXCEPT ![c] = "read"]
          /\ UNCHANGED <<row, logged, reserved, tries, raced, bypassed>>
        BY <1>2 DEF ReadSnapshot
    <2>1. object \in Row /\ object.stock + raced >= 0
        BY DEF StockBounded, OversellOnlyByDemo
    <2>2. Kind[c] \in Computing => object = row /\ row.active
        BY <2>0
    <2> HIDE DEF object
    <2>3. TypeOK' /\ Pessimistic'
        BY <2>0, <2>1 DEF Pessimistic
    <2>4. StockBounded' /\ LogExplainsStock'
        BY <2>0, <2>1 DEF StockBounded, OversellOnlyByDemo, LogExplainsStock
    <2>5. VersionNamesStock'
        BY <2>0, <2>1, <2>2 DEF VersionNamesStock
    <2>6. Attempts' /\ ConflictsMeanProgress'
        BY <2>0, <2>1, <2>2 DEF Attempts, ConflictsMeanProgress
    <2> QED BY <2>3, <2>4, <2>5, <2>6
<1> QED BY <1>1, <1>2

LEMMA ReserveInv ==
    ASSUME IInv, NEW c \in Calls, End(c), UNCHANGED <<row, logged, tries, raced, bypassed>>,
           reserved' = reserved \/ reserved' = [reserved EXCEPT ![c] = Qty[c]]
    PROVE  IInv'
<1> USE InventoryAssumption DEF InventoryAssumption, IInv, TypeOK, Row, End, Unread
<1>1. TypeOK'
    <2>1. reserved' \in [Calls -> Nat]
        OBVIOUS
    <2>2. copy' \in [Calls -> Row] /\ at' \in [Calls -> {"start", "locked", "read", "ended"}]
        OBVIOUS
    <2> QED BY <2>1, <2>2
<1>2. Pessimistic'
    BY DEF Pessimistic
<1>3. StockBounded' /\ LogExplainsStock'
    BY DEF StockBounded, OversellOnlyByDemo, LogExplainsStock
<1>4. VersionNamesStock'
    BY DEF VersionNamesStock
<1>5. Attempts' /\ ConflictsMeanProgress'
    BY DEF Attempts, ConflictsMeanProgress
<1> QED BY <1>1, <1>2, <1>3, <1>4, <1>5

LEMMA ConflictInv == ASSUME IInv, NEW c \in Calls, Conflict(c) PROVE IInv'
<1> USE InventoryAssumption DEF InventoryAssumption, IInv, TypeOK, Row, Conflict, Unread, Computing
<1>1. tries[c] < MaxAttempts
    BY DEF Attempts
<1>2. TypeOK' /\ Pessimistic'
    BY <1>1 DEF Pessimistic
<1>3. StockBounded' /\ LogExplainsStock'
    BY DEF StockBounded, OversellOnlyByDemo, LogExplainsStock
<1>4. VersionNamesStock'
    BY DEF VersionNamesStock
<1>5. ~bypassed /\ row.active => tries[c] + 1 <= row.version
    <2> SUFFICES ASSUME ~bypassed, row.active PROVE tries[c] + 1 <= row.version
        OBVIOUS
    <2>1. row \in Row /\ copy[c] \in Row /\ Qty[c] \in Nat
        OBVIOUS
    <2>2. at[c] = "read" /\ Kind[c] = "optimistic" /\ ~Matches(c)
        BY Zenon
    <2>3. tries[c] <= copy[c].version /\ copy[c].version <= row.version
        BY <2>2 DEF VersionNamesStock, Attempts
    <2>4. copy[c].version # row.version
        BY <2>1, <2>2 DEF VersionNamesStock, Attempts, Matches
    <2>5. copy[c].version \in Nat /\ row.version \in Nat
        BY <2>1
    <2>6. tries[c] \in Int
        OBVIOUS
    <2>7. \A k \in Int, m, n \in Nat : k <= m /\ m <= n /\ m # n => k + 1 <= n
        OBVIOUS
    <2> QED BY <2>3, <2>4, <2>5, <2>6, <2>7, Zenon
<1>6. Attempts' /\ ConflictsMeanProgress'
    BY <1>1, <1>5 DEF Attempts, ConflictsMeanProgress
<1> QED BY <1>2, <1>3, <1>4, <1>6

LEMMA PatchInv == ASSUME IInv, NEW c \in Calls, Patch(c) PROVE IInv'
<1> USE InventoryAssumption DEF InventoryAssumption, IInv, TypeOK, Row, Patch, End, Unread, RowFree,
           Computing
<1>1. PICK a \in BOOLEAN : row' = [copy[c] EXCEPT !.active = a]
    OBVIOUS
<1>2. ~bypassed' => /\ ~bypassed /\ row.active
                    /\ row'.stock = row.stock /\ row'.version = row.version
    BY <1>1 DEF VersionNamesStock
<1>3. TypeOK' /\ Pessimistic'
    BY <1>1 DEF Pessimistic
<1>4. StockBounded' /\ LogExplainsStock'
    BY <1>1, <1>2 DEF StockBounded, OversellOnlyByDemo, LogExplainsStock
<1>5. VersionNamesStock'
    BY <1>2 DEF VersionNamesStock
<1>6. Attempts' /\ ConflictsMeanProgress'
    BY <1>2 DEF Attempts, ConflictsMeanProgress
<1> QED BY <1>3, <1>4, <1>5, <1>6

LEMMA RaceInv == ASSUME IInv, NEW c \in Calls, TakeUntested(c) PROVE IInv'
<1>0. Qty[c] \in Nat
    BY InventoryAssumption DEF InventoryAssumption
<1> USE <1>0, InventoryAssumption DEF InventoryAssumption, IInv, TypeOK, Row, TakeUntested, End, Unread, RowFree
<1>1. TypeOK' /\ Pessimistic'
    BY DEF Pessimistic
<1>2. StockBounded' /\ LogExplainsStock' /\ ConflictsMeanProgress'
    BY DEF StockBounded, OversellOnlyByDemo, LogExplainsStock, ConflictsMeanProgress
<1>3. VersionNamesStock' /\ Attempts'
    BY DEF VersionNamesStock, Attempts
<1> QED BY <1>1, <1>2, <1>3

LEMMA ReleaseInv == ASSUME IInv, ReleaseExpired PROVE IInv'
<1> USE DEF IInv, TypeOK, ReleaseExpired
<1>1. TypeOK' /\ Pessimistic'
    BY DEF Pessimistic
<1>2. StockBounded' /\ LogExplainsStock' /\ ConflictsMeanProgress'
    BY DEF StockBounded, OversellOnlyByDemo, LogExplainsStock, ConflictsMeanProgress
<1>3. VersionNamesStock' /\ Attempts'
    BY DEF VersionNamesStock, Attempts
<1> QED BY <1>1, <1>2, <1>3

LEMMA StutterInv == ASSUME IInv, UNCHANGED vars PROVE IInv'
BY DEF vars, IInv, TypeOK, Pessimistic, StockBounded, OversellOnlyByDemo, VersionNamesStock,
       Attempts, LogExplainsStock, ConflictsMeanProgress

LEMMA NextInv == IInv /\ [Next]_vars => IInv'
<1> SUFFICES ASSUME IInv, [Next]_vars PROVE IInv'
    OBVIOUS
<1>1. ASSUME NEW c \in Calls, Step(c) \/ Crash(c) PROVE IInv'
    <2> USE InventoryAssumption, <1>1 DEF InventoryAssumption
    <2>1. CASE Lock(c) \/ ReadSnapshot(c)
        BY <2>1, ReadInv
    <2>2. CASE RefuseLocked(c) \/ RefuseSnapshot(c) \/ Crash(c)
        BY <2>2, ReserveInv DEF RefuseLocked, RefuseSnapshot, Crash, Give
    <2>3. CASE Deduct(c)
        <3>1. Qty[c] \in Nat /\ copy[c].stock \in Int /\ -Qty[c] \in Int
            BY DEF IInv, TypeOK, Row
        <3>2. at[c] = "locked" /\ Write(c, -Qty[c]) /\ copy[c].stock + (-Qty[c]) >= 0
            BY <2>3, <3>1 DEF Deduct
        <3> QED BY <3>1, <3>2, WriteInv
    <2>4. CASE Restock(c)
        <3>1. Qty[c] \in Int /\ Qty[c] > 0
            OBVIOUS
        <3> QED BY <2>4, <3>1, WriteInv DEF Restock
    <2>5. CASE UpdateOptimistic(c)
        <3>1. Qty[c] \in Nat /\ copy[c].stock \in Int /\ -Qty[c] \in Int
            BY DEF IInv, TypeOK, Row
        <3>2. copy[c].stock + (-Qty[c]) >= 0
            BY <2>5, <3>1 DEF UpdateOptimistic, IInv, Attempts
        <3> QED BY <2>5, <3>1, <3>2, WriteInv DEF UpdateOptimistic, Matches, Computing
    <2>6. CASE Reserve(c) \/ ReserveUnsafe(c)
        BY <2>6, ReserveInv DEF Reserve, ReserveUnsafe
    <2>7. CASE Conflict(c)
        BY <2>7, ConflictInv
    <2>8. CASE Patch(c)
        BY <2>8, PatchInv
    <2>9. CASE Race(c) \/ OrderUnsafe(c)
        BY <2>9, RaceInv DEF Race, OrderUnsafe
    <2> QED BY <2>1, <2>2, <2>3, <2>4, <2>5, <2>6, <2>7, <2>8, <2>9 DEF Step
<1>2. CASE ReleaseExpired
    BY <1>2, ReleaseInv
<1>3. CASE Finished \/ UNCHANGED vars
    BY <1>3, StutterInv DEF Finished
<1> QED BY <1>1, <1>2, <1>3 DEF Next

\* The invariant of every run: the lock holder's copy is current, and a
\* version number names one stock.
THEOREM Invariance == Spec => []IInv
<1> QED BY InitInv, NextInv, PTL DEF Spec

\* Types, and the bound on the optimistic attempts.
THEOREM TypeCorrect == Spec => []TypeOK
<1>1. IInv => TypeOK
    BY DEF IInv
<1> QED BY <1>1, Invariance, PTL

\* The stock is below zero by at most the units taken without lock or test.
THEOREM Oversell == Spec => []OversellOnlyByDemo
<1>1. IInv => OversellOnlyByDemo
    BY DEF IInv, StockBounded
<1> QED BY <1>1, Invariance, PTL

\* Row lock and version test lose no update while nobody bypasses them.
THEOREM NoLostUpdate == Spec => []LogExplainsStock
<1>1. IInv => LogExplainsStock
    BY DEF IInv
<1> QED BY <1>1, Invariance, PTL

\* The optimistic retries lose only to writes that succeeded.
THEOREM Progress == Spec => []ConflictsMeanProgress
<1>1. IInv => ConflictsMeanProgress
    BY DEF IInv
<1> QED BY <1>1, Invariance, PTL
----------------------------------------------------------------------------
(* Where the audit log is complete.                                        *)

\* A shop whose product rows nobody saves whole and nobody takes from untested.
NoneBypass == \A c \in Calls : Kind[c] \notin {"patch", "race", "unsafeOrder"}

LEMMA NeverBypassed ==
    ASSUME NoneBypass, [Next]_vars, ~bypassed
    PROVE  ~bypassed'
<1>1. ASSUME NEW c \in Calls, Step(c) \/ Crash(c) PROVE bypassed' = bypassed
    <2>1. ~Patch(c) /\ ~Race(c) /\ ~OrderUnsafe(c)
        BY DEF NoneBypass, Patch, Race, OrderUnsafe
    <2>2. Lock(c) \/ ReadSnapshot(c) => bypassed' = bypassed
        BY DEF Lock, ReadSnapshot, Read
    <2>3. Deduct(c) \/ Restock(c) \/ UpdateOptimistic(c) => bypassed' = bypassed
        BY DEF Deduct, Restock, UpdateOptimistic, Write
    <2>4. RefuseLocked(c) \/ RefuseSnapshot(c) \/ Crash(c) => bypassed' = bypassed
        BY DEF RefuseLocked, RefuseSnapshot, Crash, Give
    <2>5. Reserve(c) \/ ReserveUnsafe(c) \/ Conflict(c) => bypassed' = bypassed
        BY DEF Reserve, ReserveUnsafe, Conflict
    <2> QED BY <1>1, <2>1, <2>2, <2>3, <2>4, <2>5 DEF Step
<1>2. CASE ReleaseExpired
    BY <1>2 DEF ReleaseExpired
<1>3. CASE Finished \/ UNCHANGED vars
    BY <1>3 DEF Finished, vars
<1> QED BY <1>1, <1>2, <1>3 DEF Next

\* "Audit log for every stock change on a product" is right as long as no call is
\* a PATCH of the whole row, the race demo or the checkout without locks:
\* deductions of both kinds, restocks and reservations log every change.
THEOREM LogIsComplete == NoneBypass => (Spec => []EveryChangeLogged)
<1> SUFFICES ASSUME NoneBypass PROVE Spec => []EveryChangeLogged
    OBVIOUS
<1>1. Init => ~bypassed
    BY DEF Init
<1>2. ~bypassed /\ [Next]_vars => ~bypassed'
    BY NeverBypassed
<1>3. ~bypassed /\ LogExplainsStock => EveryChangeLogged
    BY DEF LogExplainsStock, EveryChangeLogged
<1> QED BY <1>1, <1>2, <1>3, NoLostUpdate, PTL DEF Spec
============================================================================
