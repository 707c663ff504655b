--------------------------- MODULE CartRowProofs ----------------------------
(***************************************************************************)
(* The optimistic cart row loses nothing, for every set of calls, every    *)
(* quantity and every number of attempts.                                  *)
(***************************************************************************)
EXTENDS CartRow, FiniteSetTheorems, TLAPS

\* Where a call of each kind can be.
Placed ==
    \A c \in Calls :
        /\ at[c] \in {"update", "insert"} => Kind[c] = "add"
        /\ at[c] = "held" => Kind[c] \in Locking
        /\ at[c] = "sweep" => Kind[c] = "cleanup"

\* A stored row has a quantity and an id the sequence has given out; an absent
\* one is NoRow.
WellFormed ==
    /\ lastId >= 1 /\ row.id <= lastId
    /\ IF row.id = 0 THEN row = NoRow ELSE row.qty > 0

OneHolder == \A c, d \in Calls : HoldsRow(c) /\ HoldsRow(d) => c = d

\* What is locked exists, and is as its holder has read it.
HeldIsCurrent == \A c \in Calls : HoldsRow(c) => Present /\ copy[c].version = row.version

\* A call that is still trying has an attempt left.
AttemptLeft == \A c \in Calls : at[c] \in {"start", "update", "insert"} => lost[c] < MaxAttempts

\* What an optimistic call has read is the row's past: the same id means a
\* version no greater, and the same version the same quantity.
CopyIsPast ==
    \A c \in Calls : at[c] \in {"update", "held"} =>
        /\ copy[c].id \in 1 .. lastId /\ copy[c].qty > 0
        /\ copy[c].id = row.id =>
            /\ copy[c].version <= row.version
            /\ copy[c].version = row.version => copy[c].qty = row.qty

\* What the cleanup has collected was stored before its cutoff.
CollectedIsOld ==
    \A c \in Calls : at[c] = "sweep" =>
        /\ copy[c].id \in 1 .. lastId
        /\ copy[c].id = row.id => ~row.new

\* A row the clock has marked old was inserted before the cutoff.
OldIsNotNew == row.old => ~row.new

Inv ==
    /\ TypeOK /\ Placed /\ WellFormed /\ OneHolder /\ HeldIsCurrent
    /\ AttemptLeft /\ CopyIsPast /\ CollectedIsOld /\ OldIsNotNew
----------------------------------------------------------------------------
LEMMA NoRowIsRow == NoRow \in Row
BY CartRowAssumption DEF NoRow, Row

LEMMA InitInv == Init => Inv
<1> SUFFICES ASSUME Init PROVE Inv
    OBVIOUS
<1> USE NoRowIsRow
<1>1. \/ row = NoRow
      \/ row \in Row /\ row.id = 1 /\ row.qty > 0 /\ ~(row.old /\ row.new)
    BY CartRowAssumption DEF Init
<1>2. TypeOK
    BY <1>1, CartRowAssumption DEF Init, TypeOK
<1>3. WellFormed /\ OldIsNotNew
    BY <1>1 DEF Init, WellFormed, OldIsNotNew, NoRow, Row
<1>4. Placed /\ OneHolder /\ HeldIsCurrent /\ AttemptLeft /\ CopyIsPast /\ CollectedIsOld
    BY CartRowAssumption DEF Init, Placed, OneHolder, AttemptLeft, HeldIsCurrent, CopyIsPast, CollectedIsOld, HoldsRow
<1> QED BY <1>2, <1>3, <1>4 DEF Inv

\* How a step may change the row: not at all, delete it, insert it with a fresh
\* id, or write it with a higher version.
Moves ==
    \/ UNCHANGED row
    \/ row'.id = 0
    \/ row'.id = lastId + 1
    \/ row'.id = row.id /\ row'.version > row.version /\ row'.new = row.new

\* A call that ends keeps the invariant, whatever it has made of the row, as
\* long as it waited for the row's holder.
LEMMA LeaveInv ==
    ASSUME Inv, NEW c \in Calls, NEW how \in {"done", "failed"}, Leave(c, how),
           row' \in Row, lastId' \in Nat, lastId' >= lastId, Moves,
           WellFormed', OldIsNotNew',
           UNCHANGED row \/ \A d \in Calls \ {c} : ~HoldsRow(d)
    PROVE  Inv'
<1> USE NoRowIsRow DEF Inv
<1>1. TypeOK'
    BY CartRowAssumption DEF TypeOK, Leave
<1>2. at' = [at EXCEPT ![c] = how] /\ at'[c] = how
    BY DEF TypeOK, Leave
<1>3. \A d \in Calls : d # c => at'[d] = at[d] /\ copy'[d] = copy[d]
    BY DEF TypeOK, Leave
<1>4. Placed'
    BY <1>2, <1>3 DEF Placed
<1>5. OneHolder'
    BY <1>2, <1>3 DEF OneHolder, HoldsRow
<1>6. HeldIsCurrent'
    BY <1>2, <1>3 DEF HeldIsCurrent, HoldsRow, Present
<1>7. ASSUME NEW d \in Calls, at'[d] \in {"update", "insert", "held", "sweep"}
      PROVE  /\ d # c /\ at'[d] = at[d] /\ copy'[d] = copy[d]
             /\ copy[d] \in Row /\ copy[d].id \in Nat /\ copy[d].version \in Nat
    BY <1>2, <1>3, <1>7 DEF TypeOK, Row
<1>8. row \in Row /\ row.id \in Nat /\ row.version \in Nat /\ row'.version \in Nat
      /\ lastId \in Nat
    BY DEF TypeOK, Row
<1>9. CopyIsPast'
    BY <1>7, <1>8 DEF CopyIsPast, Moves
<1>10. CollectedIsOld'
    BY <1>7, <1>8 DEF CollectedIsOld, Moves
<1>11. AttemptLeft'
    BY <1>2, <1>3 DEF AttemptLeft, Leave, TypeOK
<1> QED BY <1>1, <1>4, <1>5, <1>6, <1>9, <1>10, <1>11

\* A call that reads the row, or goes round its loop.
LEMMA ReadInv ==
    ASSUME Inv, NEW c \in Calls, at[c] = "start",
           \/ Kind[c] = "add" /\ Present /\ Read(c, "update")
           \/ Kind[c] = "add" /\ Read(c, "insert")
           \/ Kind[c] \in Locking /\ Present /\ RowFree /\ Read(c, "held")
           \/ Kind[c] = "cleanup" /\ row.old /\ Read(c, "sweep")
    PROVE  Inv'
<1> USE DEF Inv
<1>1. TypeOK'
    BY DEF TypeOK, Read
<1>2. \A d \in Calls : d # c => at'[d] = at[d] /\ copy'[d] = copy[d]
    BY DEF TypeOK, Read
<1>3. copy'[c] = row /\ row' = row /\ lastId' = lastId
    BY DEF TypeOK, Read
<1>4. /\ at'[c] = "update" => Kind[c] = "add" /\ Present
      /\ at'[c] = "insert" => Kind[c] = "add"
      /\ at'[c] = "held" => Kind[c] \in Locking /\ Present /\ RowFree
      /\ at'[c] = "sweep" => Kind[c] = "cleanup" /\ row.old
    BY DEF TypeOK, Read
<1>5. row.id \in Nat /\ lastId \in Nat /\ row.version \in Nat
    BY DEF TypeOK, Row
<1>6. Placed'
    BY <1>2, <1>4 DEF Placed
<1>7. OneHolder' /\ HeldIsCurrent'
    BY <1>2, <1>3, <1>4 DEF OneHolder, HeldIsCurrent, HoldsRow, RowFree, Present
<1>8. CopyIsPast'
    BY <1>2, <1>3, <1>4, <1>5 DEF CopyIsPast, WellFormed, Present, RowFree
<1>9. CollectedIsOld'
    <2>1. row.old => row.id # 0
        BY DEF WellFormed, NoRow
    <2> QED BY <1>2, <1>3, <1>4, <1>5, <2>1 DEF CollectedIsOld, WellFormed, OldIsNotNew
<1>10. WellFormed' /\ OldIsNotNew'
    BY <1>3 DEF WellFormed, OldIsNotNew
<1>11. AttemptLeft'
    BY <1>2 DEF AttemptLeft, Read, TypeOK
<1> QED BY <1>1, <1>6, <1>7, <1>8, <1>9, <1>10, <1>11

LEMMA RetryInv ==
    ASSUME Inv, NEW c \in Calls, at[c] \in {"update", "insert"}, Retry(c)
    PROVE  Inv'
<1> USE NoRowIsRow DEF Inv
<1>1. lost[c] \in Nat /\ lost[c] < MaxAttempts
    BY DEF AttemptLeft, TypeOK
<1>2. TypeOK'
    BY <1>1, CartRowAssumption DEF TypeOK, Retry
<1>3. at'[c] \in {"start", "failed"} /\ (at'[c] = "start" => lost'[c] < MaxAttempts)
    BY <1>1, CartRowAssumption DEF TypeOK, Retry
<1>4. \A d \in Calls : d # c => at'[d] = at[d] /\ copy'[d] = copy[d] /\ lost'[d] = lost[d]
    BY DEF TypeOK, Retry
<1>5. row' = row /\ lastId' = lastId
    BY DEF Retry
<1>6. Placed' /\ OneHolder' /\ HeldIsCurrent'
    BY <1>3, <1>4, <1>5 DEF Placed, OneHolder, HeldIsCurrent, HoldsRow, Present
<1>7. AttemptLeft'
    BY <1>3, <1>4 DEF AttemptLeft
<1>8. CopyIsPast' /\ CollectedIsOld'
    BY <1>3, <1>4, <1>5 DEF CopyIsPast, CollectedIsOld
<1>9. WellFormed' /\ OldIsNotNew'
    BY <1>5 DEF WellFormed, OldIsNotNew
<1> QED BY <1>2, <1>6, <1>7, <1>8, <1>9

\* The fields of a row that a call rewrites.
LEMMA PutRow ==
    ASSUME row \in Row, NEW q \in 1 .. MaxQty, NEW v \in Nat, NEW o \in BOOLEAN
    PROVE  LET s == Put(q, v, o) IN
           s \in Row /\ s.id = row.id /\ s.qty = q /\ s.version = v /\ s.old = o /\ s.new = row.new
BY CartRowAssumption DEF Row, Put

\* What an optimistic UPDATE that matches knows.
LEMMA MatchedRow ==
    ASSUME Inv, NEW c \in Calls, at[c] = "update", Matches(c)
    PROVE  Present /\ copy[c].qty = row.qty /\ copy[c].version = row.version /\ row.qty > 0
BY DEF Inv, TypeOK, Row, CopyIsPast, Matches, Present, WellFormed

LEMMA StepInv ==
    ASSUME Inv, NEW c \in Calls, Step(c) \/ Crash(c)
    PROVE  Inv'
<1> USE NoRowIsRow
<1>a. /\ row \in Row /\ row.id \in Nat /\ row.version \in Nat /\ row.qty \in Nat
      /\ row.old \in BOOLEAN /\ lastId \in Nat /\ MaxQty \in Nat /\ Qty[c] \in 0 .. MaxQty
      /\ WellFormed /\ OldIsNotNew
    BY CartRowAssumption DEF Inv, TypeOK, Row
<1>b. ASSUME UNCHANGED <<row, lastId>> PROVE WellFormed' /\ OldIsNotNew' /\ Moves
    BY <1>a, <1>b DEF WellFormed, OldIsNotNew, Moves
<1>1. ASSUME NEW how \in {"done", "failed"}, Leave(c, how), UNCHANGED <<row, lastId>> PROVE Inv'
    BY <1>1, <1>a, <1>b, LeaveInv
<1>2. ASSUME Leave(c, "done"), row' = NoRow, lastId' = lastId,
             \A d \in Calls \ {c} : ~HoldsRow(d)
      PROVE  Inv'
    <2>1. WellFormed' /\ OldIsNotNew' /\ Moves
        BY <1>2, <1>a DEF WellFormed, OldIsNotNew, Moves, NoRow
    <2> QED BY <1>2, <1>a, <2>1, LeaveInv
<1>3. CASE ReadItem(c)
    BY <1>3, ReadInv DEF ReadItem
<1>4. CASE LockRow(c) \/ Collect(c)
    BY <1>4, <1>1, ReadInv DEF LockRow, Collect, Succeed
<1>5. CASE RefuseAdd(c) \/ Overflow(c) \/ FindNoRow(c) \/ Crash(c)
    BY <1>5, <1>1 DEF RefuseAdd, Overflow, FindNoRow, Crash, Fail, Succeed
<1>6. CASE Conflict(c) \/ Duplicate(c)
    BY <1>6, RetryInv DEF Conflict, Duplicate
<1>7. CASE Update(c)
    <2> DEFINE q == copy[c].qty + Qty[c]
               v == copy[c].version + 1
    <2>1. Present /\ copy[c].qty = row.qty /\ copy[c].version = row.version /\ row.qty > 0
        BY <1>7, MatchedRow DEF Update
    <2>2. q \in 1 .. MaxQty /\ v \in Nat /\ v > row.version
        BY <1>7, <1>a, <2>1 DEF Update
    <2>3. row' = Put(q, v, row.old) /\ lastId' = lastId /\ Leave(c, "done")
        BY <1>7 DEF Update, Write
    <2> HIDE DEF q, v
    <2>4. row' \in Row /\ row'.id = row.id /\ row'.qty = q /\ row'.version = v
          /\ row'.old = row.old /\ row'.new = row.new
        BY <1>a, <2>2, <2>3, PutRow
    <2>5. WellFormed' /\ OldIsNotNew' /\ Moves
        BY <1>a, <2>1, <2>2, <2>3, <2>4 DEF WellFormed, OldIsNotNew, Moves, Present
    <2> QED BY <1>7, <1>a, <2>3, <2>4, <2>5, LeaveInv DEF Update, RowFree
<1>8. CASE Insert(c)
    <2> DEFINE n == [id |-> lastId + 1, qty |-> Qty[c], version |-> 0, old |-> FALSE, new |-> TRUE]
    <2>1. Qty[c] > 0
        BY <1>8, CartRowAssumption DEF Insert, Inv, Placed
    <2>2. n \in Row /\ n.id = lastId + 1 /\ n.qty = Qty[c] /\ ~n.old
        BY <1>a DEF Row
    <2>3. row' = n /\ lastId' = lastId + 1 /\ Leave(c, "done")
        BY <1>8 DEF Insert, Write
    <2> HIDE DEF n
    <2>4. WellFormed' /\ OldIsNotNew' /\ Moves
        BY <1>a, <2>1, <2>2, <2>3 DEF WellFormed, OldIsNotNew, Moves
    <2> QED BY <1>8, <1>a, <2>2, <2>3, <2>4, LeaveInv DEF Insert, RowFree
<1>9. CASE SetQuantity(c)
    <2> DEFINE v == copy[c].version + 1
    <2>1. Present /\ copy[c].version = row.version /\ Qty[c] \in 1 .. MaxQty
        BY <1>9, <1>a DEF SetQuantity, Inv, HeldIsCurrent
    <2>2. v \in Nat /\ v > row.version
        BY <1>a, <2>1
    <2>3. row' = Put(Qty[c], v, FALSE) /\ lastId' = lastId /\ Leave(c, "done")
        BY <1>9 DEF SetQuantity, Write
    <2> HIDE DEF v
    <2>4. row' \in Row /\ row'.id = row.id /\ row'.qty = Qty[c] /\ row'.version = v
          /\ row'.old = FALSE /\ row'.new = row.new
        BY <1>a, <2>1, <2>2, <2>3, PutRow
    <2>5. row'.qty > 0 /\ row'.version > row.version /\ row.id # 0
        BY <2>1, <2>2, <2>4 DEF Present
    <2>7. WellFormed' /\ OldIsNotNew' /\ Moves
        BY <1>a, <2>3, <2>4, <2>5 DEF WellFormed, OldIsNotNew, Moves
    <2>6. \A d \in Calls \ {c} : ~HoldsRow(d)
        BY <1>9 DEF SetQuantity, Inv, OneHolder
    <2>8. row' \in Row /\ lastId' \in Nat /\ lastId' >= lastId /\ Leave(c, "done")
        <3>1. lastId' = lastId /\ Leave(c, "done")
            BY <2>3
        <3> QED BY <1>a, <3>1, <2>4
    <2> QED BY <2>6, <2>7, <2>8, LeaveInv
<1>10. CASE Remove(c)
    <2>1. \A d \in Calls \ {c} : ~HoldsRow(d)
        BY <1>10 DEF Remove, Inv, OneHolder
    <2> QED BY <1>10, <1>2, <2>1 DEF Remove, Write
<1>11. CASE Clear(c) \/ Sweep(c)
    BY <1>11, <1>1, <1>2 DEF Clear, Sweep, Write, Succeed, RowFree
<1> QED BY <1>3, <1>4, <1>5, <1>6, <1>7, <1>8, <1>9, <1>10, <1>11 DEF Step

LEMMA AgeInv == ASSUME Inv, Age PROVE Inv'
<1> DEFINE s == [row EXCEPT !.old = TRUE, !.new = FALSE]
<1>1. row' = s /\ Present /\ UNCHANGED <<lastId, at, copy, lost>>
    BY DEF Age
<1>2. row \in Row
    BY DEF Inv, TypeOK
<1>3. s \in Row /\ s.id = row.id /\ s.qty = row.qty /\ s.version = row.version /\ ~s.new
    BY <1>2 DEF Row
<1> HIDE DEF s
<1> QED BY <1>1, <1>3 DEF Inv, TypeOK, Placed, WellFormed, OneHolder, HeldIsCurrent,
           AttemptLeft, CopyIsPast, CollectedIsOld, OldIsNotNew, HoldsRow, Present

LEMMA Invariance == (Init => Inv) /\ (Inv /\ [Next]_vars => Inv')
<1>1. ASSUME Inv, UNCHANGED vars PROVE Inv'
    BY <1>1 DEF vars, Inv, TypeOK, Placed, WellFormed, OneHolder, HeldIsCurrent,
       AttemptLeft, CopyIsPast, CollectedIsOld, OldIsNotNew, HoldsRow, Present
<1> QED BY <1>1, InitInv, StepInv, AgeInv DEF Next, Finished
----------------------------------------------------------------------------
\* Types; no addition exceeds its attempts, no quantity its column.
THEOREM TypeCorrect == Spec => []TypeOK
<1>1. Inv => TypeOK
    BY DEF Inv
<1> QED BY <1>1, Invariance, PTL DEF Spec

\* A row that still matches what a call has read has the quantity it has read.
THEOREM VersionIsEnough == Spec => []VersionNamesQuantity
<1>1. Inv => VersionNamesQuantity
    BY DEF Inv, CopyIsPast, VersionNamesQuantity, Matches
<1> QED BY <1>1, Invariance, PTL DEF Spec

\* The cleanup never takes an item put in the cart after its cutoff.
THEOREM SparesNew == Spec => CleanupSparesNew
<1> DEFINE Spares == \A c \in Calls : at[c] = "sweep" /\ at'[c] = "done" /\ row.new => row' = row
<1>1. Inv /\ [Next]_vars => [Spares]_vars
    <2> SUFFICES ASSUME Inv, Next, NEW c \in Calls,
                        at[c] = "sweep", at'[c] = "done", row.new
                 PROVE  row' = row
        BY DEF Spares
    <2>1. copy[c].id # row.id
        BY DEF Inv, CollectedIsOld
    <2>2. ASSUME NEW d \in Calls, Step(d) \/ Crash(d) PROVE d = c
        <3> SUFFICES ASSUME d # c PROVE at'[c] = at[c]
            OBVIOUS
        <3> QED BY <2>2 DEF Inv, TypeOK, Step, Crash, ReadItem, RefuseAdd, Update, Overflow, Insert,
                Conflict, Duplicate, LockRow, FindNoRow, SetQuantity, Remove, Clear, Collect,
                Sweep, Retry, Read, Write, Fail, Succeed, Leave
    <2>3. Step(c) \/ Crash(c)
        BY <2>2 DEF Next, Age, Finished, vars
    <2>4. CASE Sweep(c)
        BY <2>1, <2>4 DEF Sweep, Succeed
    <2>5. CASE Crash(c)
        BY <2>5 DEF Crash, Fail
    <2>6. ~(Step(c) /\ ~Sweep(c))
        BY DEF Step, ReadItem, RefuseAdd, Update, Overflow, Insert, Conflict, Duplicate,
               LockRow, FindNoRow, SetQuantity, Remove, Clear, Collect, HoldsRow
    <2> QED BY <2>3, <2>4, <2>5, <2>6
<1> QED BY <1>1, Invariance, PTL DEF Spec, CleanupSparesNew

\* The calls that have succeeded.
Succeeded == {c \in Calls : at[c] = "done"}

\* A call that succeeds and leaves a quantity it may leave is a step of the line.
LEMMA Acts ==
    ASSUME Inv, NEW c \in Calls, at[c] # "done", Leave(c, "done"), row' \in Row,
           row'.qty \in Line!After(c)
    PROVE  Line!Next
<1>1. Succeeded' = Succeeded \cup {c} /\ c \notin Succeeded
    BY DEF Inv, TypeOK, Leave, Succeeded
<1>2. row'.qty <= MaxQty
    BY CartRowAssumption DEF Row
<1> QED BY <1>1, <1>2 DEF Line!Next, Line!Apply, Succeeded

\* A step that neither writes the row nor ends a call with success is a stutter.
LEMMA Stutters ==
    ASSUME Inv, NEW c \in Calls, NEW next, next # "done", at[c] # "done",
           at' = [at EXCEPT ![c] = next], row' = row
    PROVE  UNCHANGED Line!vars
<1>1. Succeeded' = Succeeded
    BY DEF Inv, TypeOK, Succeeded
<1> QED BY <1>1 DEF Line!vars, Succeeded

LEMMA StepMaps ==
    ASSUME Inv, NEW c \in Calls, Step(c) \/ Crash(c)
    PROVE  [Line!Next]_(Line!vars)
<1> USE NoRowIsRow
<1>a. /\ row \in Row /\ row.qty \in Nat /\ row.old \in BOOLEAN /\ copy[c].version \in Nat
      /\ MaxQty \in Nat /\ Qty[c] \in 0 .. MaxQty /\ NoRow.qty = 0
      /\ (row.id = 0 => row.qty = 0) /\ (row.id # 0 => row.qty > 0)
    BY CartRowAssumption DEF Inv, TypeOK, Row, WellFormed, NoRow
<1>1. ASSUME at[c] # "done", NEW next, next # "done", at' = [at EXCEPT ![c] = next], row' = row
      PROVE  UNCHANGED Line!vars
    BY <1>1, Stutters
<1>2. CASE ReadItem(c) \/ LockRow(c)
    BY <1>1, <1>2 DEF ReadItem, LockRow, Read
<1>3. CASE RefuseAdd(c) \/ Overflow(c) \/ Crash(c)
    BY <1>1, <1>3 DEF RefuseAdd, Overflow, Crash, Fail, Leave
<1>4. CASE Conflict(c) \/ Duplicate(c)
    BY <1>1, <1>4 DEF Conflict, Duplicate, Retry
<1>5. CASE Update(c)
    <2> DEFINE q == copy[c].qty + Qty[c]
    <2>1. copy[c].qty = row.qty /\ row.qty > 0
        BY <1>5, MatchedRow DEF Update
    <2>2. Kind[c] = "add" /\ at[c] # "done"
        BY <1>5 DEF Update, Inv, Placed
    <2>3. q \in 1 .. MaxQty
        BY <1>5, <1>a, <2>1 DEF Update
    <2>4. row' = Put(q, copy[c].version + 1, row.old) /\ Leave(c, "done")
        BY <1>5 DEF Update, Write
    <2>5. row' \in Row /\ row'.qty = q
        BY <1>a, <2>3, <2>4, PutRow
    <2>6. q \in Line!After(c)
        BY <2>1, <2>2 DEF Line!After
    <2> QED BY <2>2, <2>4, <2>5, <2>6, Acts
<1>6. CASE Insert(c)
    <2>1. Kind[c] = "add" /\ at[c] # "done" /\ row.qty = 0
        BY <1>6, <1>a DEF Insert, Inv, Placed, Present
    <2>2. row' = [id |-> lastId + 1, qty |-> Qty[c], version |-> 0, old |-> FALSE, new |-> TRUE]
        BY <1>6 DEF Insert, Write
    <2>3. row' \in Row /\ row'.qty = Qty[c]
        BY <1>a, <2>2 DEF Row, Inv, TypeOK
    <2>4. Qty[c] \in Line!After(c)
        BY <1>a, <2>1 DEF Line!After
    <2> QED BY <1>6, <2>1, <2>3, <2>4, Acts DEF Insert, Write
<1>7. CASE SetQuantity(c)
    <2>1. /\ Kind[c] = "set" /\ at[c] # "done" /\ row.qty > 0 /\ Qty[c] \in 1 .. MaxQty
        BY <1>7, <1>a DEF SetQuantity, Inv, HeldIsCurrent, HoldsRow, Present
    <2> DEFINE v == copy[c].version + 1
    <2>a. v \in Nat
        BY <1>a
    <2>2. row' = Put(Qty[c], v, FALSE)
        BY <1>7 DEF SetQuantity, Write
    <2> HIDE DEF v
    <2>3. row' \in Row /\ row'.qty = Qty[c]
        BY <1>a, <2>1, <2>a, <2>2, PutRow
    <2>4. Qty[c] \in Line!After(c)
        BY <2>1 DEF Line!After
    <2> QED BY <1>7, <2>1, <2>3, <2>4, Acts DEF SetQuantity, Write
<1>8. ASSUME at[c] # "done", Leave(c, "done"), row' = NoRow,
             Kind[c] \in {"remove", "checkout", "clear", "cleanup"} \/ (Kind[c] = "set" /\ Qty[c] = 0)
      PROVE  Line!Next
    <2>1. row' \in Row /\ row'.qty = 0
        BY <1>8, <1>a
    <2>2. 0 \in Line!After(c)
        BY <1>8 DEF Line!After
    <2> QED BY <1>8, <2>1, <2>2, Acts
<1>15. ASSUME row.id = 0 PROVE row = NoRow
    BY <1>15 DEF Inv, WellFormed
<1>9. ASSUME at[c] # "done", Kind[c] = "cleanup", Succeed(c) PROVE Line!Next
    <2>1. row.qty \in Line!After(c)
        BY <1>9 DEF Line!After
    <2> QED BY <1>9, <1>a, <2>1, Acts DEF Succeed
<1>10. CASE FindNoRow(c)
    <2>1. CASE Fail(c)
        BY <1>1, <1>10, <2>1 DEF FindNoRow, Fail, Leave
    <2>2. CASE Succeed(c) /\ (Kind[c] = "checkout" \/ (Kind[c] = "set" /\ Qty[c] = 0))
        BY <1>8, <1>10, <1>15, <2>2 DEF FindNoRow, Succeed, Present
    <2> QED BY <1>10, <2>1, <2>2 DEF FindNoRow
<1>11. CASE Remove(c)
    <2>1. Kind[c] \in {"remove", "checkout"} \/ (Kind[c] = "set" /\ Qty[c] = 0)
        BY <1>11 DEF Remove, HoldsRow, Inv, Placed, Locking
    <2>2. at[c] # "done" /\ Leave(c, "done") /\ row' = NoRow
        BY <1>11 DEF Remove, Write, HoldsRow
    <2> QED BY <1>8, <2>1, <2>2
<1>12. CASE Clear(c)
    <2>1. Kind[c] = "clear" /\ at[c] # "done" /\ Leave(c, "done") /\ row' = NoRow
        BY <1>12, <1>15 DEF Clear, Write, Succeed, Present
    <2> QED BY <1>8, <2>1
<1>13. CASE Sweep(c)
    <2>1. Kind[c] = "cleanup" /\ at[c] # "done"
        BY <1>13 DEF Sweep, Inv, Placed
    <2>2. CASE Succeed(c)
        BY <1>9, <2>1, <2>2
    <2>3. CASE Write(c, NoRow)
        <3>1. Leave(c, "done") /\ row' = NoRow
            BY <2>3 DEF Write
        <3> QED BY <1>8, <2>1, <3>1
    <2> QED BY <1>13, <2>2, <2>3 DEF Sweep
<1>14. CASE Collect(c)
    BY <1>1, <1>9, <1>14 DEF Collect, Read
<1> QED BY <1>2, <1>3, <1>4, <1>5, <1>6, <1>7, <1>10, <1>11, <1>12, <1>13, <1>14 DEF Step

\* The row under concurrent calls behaves as one cart line on which every
\* successful call acts once and every failed one not at all.
THEOREM ImplementsCartLine == Spec => AsOneLine
<1>1. Init => Line!Init
    BY DEF Init, Line!Init
<1>2. Inv /\ [Next]_vars => [Line!Next]_(Line!vars)
    <2> SUFFICES ASSUME Inv, [Next]_vars PROVE [Line!Next]_(Line!vars)
        OBVIOUS
    <2>1. CASE Age
        BY <2>1 DEF Age, Line!vars, Inv, TypeOK, Row
    <2>2. CASE UNCHANGED vars
        BY <2>2 DEF vars, Line!vars
    <2> QED BY <2>1, <2>2, StepMaps DEF Next, Finished
<1> QED BY <1>1, <1>2, Invariance, PTL DEF Spec, AsOneLine, Line!Spec

\* An addition is overtaken once the row is no longer as it has read it.
Overtaken(c) ==
    \/ at[c] = "update" /\ ~Matches(c)
    \/ at[c] = "insert" /\ Present

\* The calls, c aside, that have succeeded.
Others(c) == {d \in Calls \ {c} : at[d] = "done"}

\* What an addition has lost, the attempt it is about to lose included, it lost
\* to that many calls that succeeded.
Progress ==
    \A c \in Calls :
        /\ lost[c] <= Cardinality(Others(c))
        /\ Overtaken(c) => lost[c] + 1 <= Cardinality(Others(c))

\* Of a step of c: other calls keep their place and what they have read, and
\* the row they have read changes only if c succeeds.
LEMMA OthersStay ==
    ASSUME Inv, NEW c \in Calls, Step(c) \/ Crash(c)
    PROVE  /\ \A d \in Calls \ {c} : at'[d] = at[d] /\ copy'[d] = copy[d] /\ lost'[d] = lost[d]
           /\ at[c] # "done"
           /\ row' # row => at'[c] = "done"
BY DEF Inv, TypeOK, HoldsRow, Step, Crash, ReadItem, RefuseAdd, Update, Overflow, Insert,
       Conflict, Duplicate, LockRow, FindNoRow, SetQuantity, Remove, Clear, Collect,
       Sweep, Retry, Read, Write, Fail, Succeed, Leave

LEMMA CountOthers ==
    ASSUME IsFiniteSet(Calls), Inv, NEW c \in Calls, Step(c) \/ Crash(c), NEW d \in Calls
    PROVE  /\ Cardinality(Others(d)) \in Nat
           /\ Cardinality(Others(d)') \in Nat
           /\ Cardinality(Others(d)) <= Cardinality(Others(d)')
           /\ d # c /\ row' # row => Cardinality(Others(d)) + 1 <= Cardinality(Others(d)')
<1>1. IsFiniteSet(Others(d)) /\ IsFiniteSet(Others(d)')
    BY FS_Subset DEF Others
<1>2. Cardinality(Others(d)) \in Nat /\ Cardinality(Others(d)') \in Nat
    BY <1>1, FS_CardinalityType
<1>3. Others(d)' = Others(d) \/ (c # d /\ c \notin Others(d) /\ Others(d)' = Others(d) \cup {c})
    BY OthersStay DEF Others, Inv, TypeOK
<1>4. c \notin Others(d) => Cardinality(Others(d) \cup {c}) = Cardinality(Others(d)) + 1
    BY <1>1, FS_AddElement
<1>5. d # c /\ row' # row => c \notin Others(d) /\ c \in Others(d)'
    BY OthersStay DEF Others
<1>6. CASE Others(d)' = Others(d)
    BY <1>2, <1>5, <1>6
<1>7. CASE c \notin Others(d) /\ Others(d)' = Others(d) \cup {c}
    <2>1. Cardinality(Others(d)') = Cardinality(Others(d)) + 1
        BY <1>4, <1>7
    <2> QED BY <1>2, <2>1
<1> QED BY <1>3, <1>6, <1>7

LEMMA StepProgress ==
    ASSUME IsFiniteSet(Calls), Inv, Progress, NEW c \in Calls, Step(c) \/ Crash(c)
    PROVE  Progress'
<1> SUFFICES ASSUME NEW d \in Calls
             PROVE  /\ lost'[d] <= Cardinality(Others(d)')
                    /\ Overtaken(d)' => lost'[d] + 1 <= Cardinality(Others(d)')
    BY DEF Progress
<1> DEFINE n == Cardinality(Others(d))
           m == Cardinality(Others(d)')
<1>1. n \in Nat /\ m \in Nat /\ n <= m /\ (d # c /\ row' # row => n + 1 <= m)
    BY CountOthers
<1>2. lost[d] \in Nat /\ lost[d] <= n /\ (Overtaken(d) => lost[d] + 1 <= n)
    BY CartRowAssumption DEF Progress, Inv, TypeOK
<1> HIDE DEF n, m
<1>3. CASE d # c
    <2>1. at'[d] = at[d] /\ copy'[d] = copy[d] /\ lost'[d] = lost[d]
        BY <1>3, OthersStay
    <2>2. row' = row => (Overtaken(d)' <=> Overtaken(d))
        BY <2>1 DEF Overtaken, Matches, Present
    <2> QED BY <1>1, <1>2, <1>3, <2>1, <2>2 DEF n, m
<1>4. CASE d = c
    <2>1. CASE Conflict(c) \/ Duplicate(c)
        <3>1. Overtaken(c)
            BY <2>1 DEF Conflict, Duplicate, Overtaken
        <3>2. lost'[c] = lost[c] + 1 /\ ~Overtaken(c)'
            BY <2>1 DEF Conflict, Duplicate, Retry, Overtaken, Inv, TypeOK
        <3> QED BY <1>1, <1>2, <1>4, <3>1, <3>2 DEF n, m
    <2>2. CASE ReadItem(c) \/ LockRow(c) \/ (Collect(c) /\ row.old)
        <3>1. lost'[c] = lost[c] /\ ~Overtaken(c)'
            BY <2>2 DEF ReadItem, LockRow, Collect, Read, Overtaken, Matches, Present, Inv, TypeOK
        <3> QED BY <1>1, <1>2, <1>4, <3>1 DEF n, m
    <2>3. CASE Leave(c, "done") \/ Leave(c, "failed")
        <3>1. lost'[c] = 0 /\ ~Overtaken(c)'
            BY <2>3 DEF Leave, Overtaken, Inv, TypeOK
        <3> QED BY <1>1, <1>2, <1>4, <3>1 DEF n, m
    <2>4. RefuseAdd(c) \/ Overflow(c) \/ FindNoRow(c) \/ Crash(c) => Leave(c, "done") \/ Leave(c, "failed")
        BY DEF RefuseAdd, Overflow, FindNoRow, Crash, Fail, Succeed
    <2>5. Update(c) \/ Insert(c) \/ SetQuantity(c) \/ Remove(c) => Leave(c, "done")
        BY DEF Update, Insert, SetQuantity, Remove, Write
    <2>6. Clear(c) \/ Sweep(c) => Leave(c, "done")
        BY DEF Clear, Sweep, Write, Succeed
    <2>7. Collect(c) => row.old \/ Leave(c, "done")
        BY DEF Collect, Succeed
    <2>8. \/ Conflict(c) \/ Duplicate(c)
          \/ ReadItem(c) \/ LockRow(c) \/ (Collect(c) /\ row.old)
          \/ Leave(c, "done") \/ Leave(c, "failed")
        BY <2>4, <2>5, <2>6, <2>7 DEF Step
    <2> QED BY <2>1, <2>2, <2>3, <2>8
<1> QED BY <1>3, <1>4

\* An addition loses an attempt only to a call that succeeds, and never two
\* attempts to the same one.
THEOREM NoMutualDefeat ==
    ASSUME IsFiniteSet(Calls)
    PROVE  Spec => []ConflictsMeanProgress
<1>1. Init => Progress
    <2> SUFFICES ASSUME Init, NEW c \in Calls PROVE lost[c] = 0 /\ ~Overtaken(c)
                                                    /\ Cardinality(Others(c)) = 0
        BY DEF Progress
    <2>1. Others(c) = {}
        BY DEF Init, Others
    <2> QED BY <2>1, FS_EmptySet DEF Init, Overtaken
<1>2. Inv /\ Progress /\ [Next]_vars => Progress'
    <2> SUFFICES ASSUME Inv, Progress, [Next]_vars PROVE Progress'
        OBVIOUS
    <2>1. CASE Age
        <3>1. row'.id = row.id /\ row'.version = row.version /\ UNCHANGED <<at, copy, lost>>
            BY <2>1 DEF Age, Inv, TypeOK, Row
        <3> QED BY <3>1 DEF Progress, Overtaken, Matches, Present, Others
    <2>2. CASE UNCHANGED vars
        BY <2>2 DEF vars, Progress, Overtaken, Matches, Present, Others
    <2> QED BY <2>1, <2>2, StepProgress DEF Next, Finished
<1>3. Progress => ConflictsMeanProgress
    BY DEF Progress, ConflictsMeanProgress, Others
<1> QED BY <1>1, <1>2, <1>3, Invariance, PTL DEF Spec
=============================================================================
