-------------------------- MODULE BackOfficeProofs --------------------------
(***************************************************************************)
(* Mails tell of what was committed, payments stay and reports add up, for *)
(* any number of requests, accesses, workers and retries.                  *)
(***************************************************************************)
EXTENDS BackOffice, FiniteSetLemmas

\* The row, its one holder, and what the holder has read.
RowInv ==
    /\ user \in User /\ token \in BOOLEAN
    /\ doing \in [Accesses -> {"start", "loaded", "again", "held", "done", "refused"}]
    /\ seen \in [Accesses -> User]
    /\ \A c \in Accesses : doing[c] = "held" => seen[c] = user /\ Work[c] \in Paying
    /\ \A c \in Accesses : doing[c] = "again" => Work[c] \in Saving
    /\ \A c, d \in Accesses : doing[c] = "held" /\ doing[d] = "held" => c = d

\* The messages: a retry is queued only within max_retries, and every error so
\* far ended one try; a checkout that mails by itself queues none.
QueueInv ==
    /\ task \in [Tasks -> {"none", "queued", "running", "done", "failed", "raised", "lost"}]
    /\ tries \in [Tasks -> 0 .. MaxRetries + 1]
    /\ mails \in [Tasks -> Nat] /\ errors \in [Tasks -> 0 .. MaxRetries + 1]
    /\ \A r \in Tasks :
        /\ task[r] \in {"none", "queued"} => tries[r] <= MaxRetries /\ errors[r] <= tries[r]
        /\ task[r] = "running" => errors[r] < tries[r]
        /\ mails[r] <= errors[r] + 1
        /\ IF Kind[r] = "sync"
           THEN task[r] = "none"
           ELSE /\ task[r] \in {"none", "queued", "running"} => mails[r] <= errors[r]
                /\ task[r] = "none" => mails[r] = 0

\* A task exists only after its request has committed, and an order cancelled
\* by a request stays so.
RequestInv ==
    /\ sold \subseteq 1 .. Past
    /\ at \in [Tasks \cup Accesses ->
              {"absent", "start", "acted", "refused", "ended", "unqueued", "crashed"}]
    /\ \A r \in Tasks :
        /\ task[r] # "none" \/ mails[r] > 0 => at[r] = "ended"
        /\ at[r] \in {"acted", "ended"} /\ Kind[r] = "cancel" => Cancels[r] \notin sold

Inv == RowInv /\ QueueInv /\ RequestInv
----------------------------------------------------------------------------
LEMMA InitInv == Init => Inv
<1> SUFFICES ASSUME Init PROVE Inv
    OBVIOUS
<1> USE BackOfficeAssumption
<1>1. RowInv
    BY DEF Init, UserInit, RowInv, User, NoUser
<1>2. QueueInv
    BY DEF Init, TasksInit, QueueInv
<1>3. RequestInv
    BY DEF Init, TasksInit, SalesInit, RequestInv
<1> QED BY <1>1, <1>2, <1>3 DEF Inv

\* What one access does to the row and to the objects others have loaded.
Accessing(c) ==
    \/ Load(c) \/ Reject(c) \/ LogIn(c) \/ LogOut(c) \/ SaveAll(c) \/ SavePassword(c) \/ Deactivate(c)
    \/ LockUser(c) \/ Debit(c) \/ TooPoor(c) \/ Drop(c, "start") \/ Drop(c, "refused")

\* An access keeps the row consistent, and explains how it has changed it.
LEMMA AccessInv ==
    ASSUME RowInv, NEW c \in Accesses, Accessing(c)
    PROVE  /\ RowInv'
           /\ MovesAreExplained({d \in Accesses : Work[d] \in Saving /\ doing'[d] # doing[d]})
<1> DEFINE saving == {d \in Accesses : Work[d] \in Saving /\ doing'[d] # doing[d]}
<1>a. NoUser \in User
    BY DEF NoUser, User
<1>b. user.wallet \in Int /\ user.active \in BOOLEAN /\ seen[c] \in User
      /\ seen[c].wallet \in Int /\ seen[c].active \in BOOLEAN
    BY DEF RowInv, User
<1>1. ASSUME NEW place \in {"start", "loaded", "refused"}, NEW o \in User, Move(c, place, o), user' = user
      PROVE  RowInv' /\ MovesAreExplained(saving)
    BY <1>1 DEF RowInv, Move, Go, MovesAreExplained
<1>2. CASE Load(c) \/ Reject(c) \/ TooPoor(c) \/ Drop(c, "start") \/ Drop(c, "refused")
    <2>1. user \in User
        BY DEF RowInv
    <2> QED BY <1>1, <1>2, <1>a, <2>1 DEF Load, Reject, TooPoor, Drop
<1>3. CASE LockUser(c)
    BY <1>3 DEF LockUser, RowInv, Move, Go, UserFree, MovesAreExplained
\* A save when nobody holds the row.
<1>4. ASSUME NEW place \in {"again", "done"}, NEW o \in User, NEW u \in User, Move(c, place, o),
             user' = u, UserFree, place = "again" => Work[c] \in Saving
      PROVE  RowInv'
    BY <1>4 DEF RowInv, Move, Go, UserFree
<1>5. CASE SaveAll(c)
    <2>1. PICK active \in BOOLEAN :
            /\ active = seen[c].active \/ Work[c] = "admin"
            /\ user' = [seen[c] EXCEPT !.active = active]
            /\ IF Work[c] = "password" THEN Move(c, "again", user') ELSE Move(c, "done", NoUser)
        BY <1>5, <1>b DEF SaveAll
    <2>2. user' \in User /\ user'.wallet = seen[c].wallet /\ user'.active = active
        BY <1>b, <2>1 DEF User
    <2>3. c \in saving
        BY <1>5, <2>1 DEF SaveAll, Move, Go, RowInv
    <2>4. MovesAreExplained(saving)
        BY <2>1, <2>2, <2>3 DEF MovesAreExplained
    <2>5. UserFree /\ Work[c] \in Saving
        BY <1>5 DEF SaveAll
    <2>6. RowInv'
        BY <1>4, <1>a, <2>1, <2>2, <2>5
    <2> QED BY <2>4, <2>6
<1>6. CASE SavePassword(c)
    <2>1. c \in saving
        BY <1>6 DEF SavePassword, Move, Go, RowInv
    <2>2. MovesAreExplained(saving)
        BY <1>6, <2>1 DEF SavePassword, MovesAreExplained
    <2>3. RowInv'
        BY <1>4, <1>6, <1>a, <1>b DEF SavePassword
    <2> QED BY <2>2, <2>3
<1>7. CASE Deactivate(c)
    <2>1. user' \in User /\ user'.wallet = user.wallet /\ ~user'.active
        BY <1>7, <1>b DEF Deactivate, User, RowInv
    <2>2. RowInv'
        BY <1>4, <1>7, <1>a, <2>1 DEF Deactivate
    <2> QED BY <2>1, <2>2 DEF MovesAreExplained
<1>8. CASE Debit(c)
    <2>1. seen[c] = user /\ Work[c] \in Paying /\ \A d \in Accesses \ {c} : doing[d] # "held"
        BY <1>8 DEF Debit, RowInv
    <2>2. Cost[c] \in Nat
        BY BackOfficeAssumption
    <2>3. user' \in User /\ user'.wallet = user.wallet - Cost[c] /\ user'.active = user.active
        BY <1>8, <1>b, <2>1, <2>2 DEF Debit, User, RowInv
    <2>4. doing[c] = "held" /\ doing'[c] = "done"
        BY <1>8 DEF Debit, Move, Go, RowInv
    <2>5. MovesAreExplained(saving)
        BY <2>1, <2>3, <2>4 DEF MovesAreExplained
    <2>6. RowInv'
        BY <1>8, <1>a, <2>1, <2>3 DEF Debit, Move, Go, RowInv
    <2> QED BY <2>5, <2>6
<1>9. CASE LogIn(c) \/ LogOut(c)
    <2>1. token' \in BOOLEAN
        BY <1>9, Zenon DEF LogIn, LogOut
    <2> QED BY <1>9, <1>a, <2>1 DEF LogIn, LogOut, Go, RowInv, MovesAreExplained
<1> QED BY <1>2, <1>3, <1>5, <1>6, <1>7, <1>8, <1>9 DEF Accessing

\* Every step leaves the row alone or is the step of one access.
LEMMA RowSteps ==
    ASSUME Next
    PROVE  UNCHANGED userVars \/ \E c \in Accesses : Accessing(c)
<1>1. ASSUME NEW r \in Tasks, PaymentStep(r) \/ PaymentFails(r)
      PROVE  \E c \in Accesses : Accessing(c)
    BY <1>1, BackOfficeAssumption DEF PaymentStep, PaymentFails, Accessing
<1>2. ASSUME NEW r \in Tasks, WorkerDies(r)
      PROVE  UNCHANGED userVars \/ \E c \in Accesses : Accessing(c)
    BY <1>2 DEF WorkerDies, Accessing
<1>3. ASSUME NEW c \in Accesses \ Tasks, Access(c) \/ CrashAccess(c)
      PROVE  \E d \in Accesses : Accessing(d)
    BY <1>3 DEF Access, CrashAccess, Accessing
<1>4. ASSUME NEW r \in Tasks, Request(r) \/ CrashRequest(r)
      PROVE  UNCHANGED userVars
    BY <1>4 DEF Request, Act, Refuse, MailHere, Queued, NotQueued, CrashRequest
<1>5. ASSUME NEW r \in Tasks, TakeTask(r) \/ SendMail(r) \/ BatchStep(r) \/ MailFails(r) \/ TaskFails(r)
      PROVE  UNCHANGED userVars
    BY <1>5 DEF TakeTask, SendMail, BatchStep, MailFails, TaskFails
<1>6. UNCHANGED vars => UNCHANGED userVars
    BY DEF vars
<1> QED BY <1>1, <1>2, <1>3, <1>4, <1>5, <1>6 DEF Next, DoTask, Finished

\* The queue and the mails under one step.
LEMMA QueueStep ==
    ASSUME QueueInv, RequestInv, Next
    PROVE  QueueInv'
<1> USE BackOfficeAssumption
<1>1. ASSUME NEW r \in Tasks, NEW how \in {"done", "failed", "raised", "lost"}, End(r, how),
             UNCHANGED <<mails, errors>>
      PROVE  QueueInv'
    BY <1>1 DEF QueueInv, End, Running
<1>2. ASSUME NEW r \in Tasks, Retry(r), mails' = mails, errors' = errors PROVE QueueInv'
    BY <1>2 DEF QueueInv, Retry, End, Running
<1>3. ASSUME UNCHANGED <<taskVars, mails, errors>> PROVE QueueInv'
    BY <1>3 DEF QueueInv, taskVars
<1>4. ASSUME NEW r \in Tasks, Request(r) \/ CrashRequest(r) PROVE QueueInv'
    <2>1. ASSUME Queued(r) PROVE QueueInv'
        BY <2>1 DEF QueueInv, Queued, Enqueue
    <2>2. ASSUME MailHere(r) PROVE QueueInv'
        <3>1. mails[r] = 0
            BY <2>2 DEF QueueInv, RequestInv, MailHere
        <3> QED BY <2>2, <3>1 DEF QueueInv, MailHere, taskVars
    <2> QED BY <1>3, <1>4, <2>1, <2>2 DEF Request, Act, Refuse, NotQueued, CrashRequest
<1>5. ASSUME NEW r \in Tasks, TakeTask(r) PROVE QueueInv'
    BY <1>5 DEF QueueInv, TakeTask, Take, requestVars
<1>6. ASSUME NEW r \in Tasks, SendMail(r) PROVE QueueInv'
    BY <1>6 DEF QueueInv, SendMail, End, Running
<1>7. ASSUME NEW r \in Tasks, MailFails(r) PROVE QueueInv'
    BY <1>7 DEF QueueInv, MailFails, Retry, End, Running
<1>8. ASSUME NEW r \in Tasks, BatchStep(r) \/ PaymentStep(r) \/ PaymentFails(r) \/ TaskFails(r) \/ WorkerDies(r)
      PROVE  QueueInv'
    BY <1>1, <1>2, <1>3, <1>8 DEF BatchStep, PaymentStep, PaymentFails, TaskFails, WorkerDies, requestVars
<1>9. ASSUME NEW c \in Accesses, Access(c) \/ CrashAccess(c) PROVE QueueInv'
    BY <1>3, <1>9 DEF Access, CrashAccess, requestVars
<1>10. UNCHANGED vars => QueueInv'
    BY <1>3 DEF vars, requestVars
<1> QED BY <1>4, <1>5, <1>6, <1>7, <1>8, <1>9, <1>10 DEF Next, DoTask, Finished

\* The requests under one step.
LEMMA RequestStep ==
    ASSUME RequestInv, QueueInv, Next
    PROVE  RequestInv'
<1> USE BackOfficeAssumption
\* A worker's step on a task that exists.
<1>1. ASSUME NEW r \in Tasks, task[r] # "none", \A u \in Tasks \ {r} : task'[u] = task[u],
             \A u \in Tasks \ {r} : mails'[u] = mails[u], at' = at, sold' = sold
      PROVE  RequestInv'
    BY <1>1 DEF RequestInv
<1>2. ASSUME UNCHANGED <<task, mails, at, sold>> PROVE RequestInv'
    BY <1>2 DEF RequestInv
<1>3. ASSUME NEW r \in Tasks, NEW how, End(r, how)
      PROVE  task[r] # "none" /\ \A u \in Tasks \ {r} : task'[u] = task[u]
    BY <1>3 DEF End, Running, QueueInv
<1>4. ASSUME NEW r \in Tasks, Act(r) PROVE RequestInv'
    BY <1>4 DEF RequestInv, Act, Goto, CancelSale, salesVars, taskVars
<1>5. ASSUME NEW r \in Tasks, Refuse(r) \/ NotQueued(r) \/ CrashRequest(r)
      PROVE  RequestInv'
    <2>1. ASSUME NEW place \in {"refused", "unqueued", "crashed"},
                 at[r] \in {"start", "acted"}, Goto(r, place), UNCHANGED <<task, mails, sold>>
          PROVE  RequestInv'
        <3>1. /\ at' \in [Tasks \cup Accesses ->
                     {"absent", "start", "acted", "refused", "ended", "unqueued", "crashed"}]
              /\ sold' \subseteq 1 .. Past
            BY <2>1 DEF RequestInv, Goto
        <3>2. ~(task[r] # "none" \/ mails[r] > 0)
            BY <2>1 DEF RequestInv
        <3>3. \A u \in Tasks : IF u = r THEN at'[u] = place ELSE at'[u] = at[u]
            BY <2>1 DEF RequestInv, Goto
        <3> QED BY <2>1, <3>1, <3>2, <3>3 DEF RequestInv
    <2>2. CASE Refuse(r)
        BY <2>1, <2>2 DEF Refuse, salesVars, taskVars
    <2>3. CASE NotQueued(r)
        BY <2>1, <2>3 DEF NotQueued, salesVars, taskVars
    <2>4. CASE CrashRequest(r)
        BY <2>1, <2>4 DEF CrashRequest, salesVars, taskVars
    <2> QED BY <1>5, <2>2, <2>3, <2>4
<1>6. ASSUME NEW r \in Tasks, Queued(r) PROVE RequestInv'
    BY <1>6 DEF RequestInv, QueueInv, Queued, Enqueue, Goto, salesVars
<1>7. ASSUME NEW r \in Tasks, TakeTask(r) PROVE RequestInv'
    <2>1. task[r] # "none" /\ \A u \in Tasks \ {r} : task'[u] = task[u]
        BY <1>7 DEF TakeTask, Take, QueueInv
    <2> QED BY <1>1, <1>7, <2>1 DEF TakeTask, requestVars, salesVars
<1>8. ASSUME NEW r \in Tasks, SendMail(r) \/ MailFails(r) PROVE RequestInv'
    BY <1>1, <1>3, <1>8 DEF SendMail, MailFails, Retry, salesVars, QueueInv
<1>9. ASSUME NEW r \in Tasks, TaskFails(r) \/ WorkerDies(r) \/ PaymentFails(r) PROVE RequestInv'
    BY <1>1, <1>3, <1>9 DEF TaskFails, WorkerDies, PaymentFails, Retry, requestVars, salesVars
<1>10. ASSUME NEW r \in Tasks, BatchStep(r) \/ PaymentStep(r) PROVE RequestInv'
    <2>1. CASE UNCHANGED taskVars
        BY <1>2, <1>10, <2>1 DEF BatchStep, PaymentStep, Complete, Collect, SumChunk, ReadAllOrders,
            requestVars, taskVars, salesVars
    <2>2. CASE End(r, "done")
        BY <1>1, <1>3, <1>10, <2>2 DEF BatchStep, PaymentStep, Collect, SumChunk, ReadAllOrders,
            requestVars, salesVars
    <2> QED BY <1>10, <2>1, <2>2 DEF BatchStep, PaymentStep
<1>11. ASSUME NEW c \in Accesses, Access(c) \/ CrashAccess(c) PROVE RequestInv'
    BY <1>2, <1>11 DEF Access, CrashAccess, requestVars, salesVars, taskVars
<1>12. UNCHANGED vars => RequestInv'
    BY <1>2 DEF vars, requestVars, salesVars, taskVars
<1>13. ASSUME NEW r \in Tasks, MailHere(r) PROVE RequestInv'
    BY <1>13 DEF RequestInv, QueueInv, MailHere, Goto, salesVars, taskVars
<1> QED BY <1>4, <1>5, <1>6, <1>7, <1>8, <1>9, <1>10, <1>11, <1>12, <1>13 DEF Next, Request, DoTask, Finished

LEMMA Invariance == Inv /\ [Next]_vars => Inv'
<1> SUFFICES ASSUME Inv, [Next]_vars PROVE Inv'
    OBVIOUS
<1>1. CASE Next
    <2>1. RowInv'
        <3>1. UNCHANGED userVars => RowInv'
            BY DEF Inv, RowInv, userVars
        <3> QED BY <1>1, <3>1, RowSteps, AccessInv DEF Inv
    <2> QED BY <1>1, <2>1, QueueStep, RequestStep DEF Inv
<1>2. CASE UNCHANGED vars
    BY <1>2 DEF vars, taskVars, userVars, salesVars, requestVars, Inv, RowInv, QueueInv, RequestInv
<1> QED BY <1>1, <1>2
----------------------------------------------------------------------------
\* Types; no task is tried more than max_retries + 1 times.
THEOREM TypeCorrect == Spec => []TypeOK
<1>1. Inv => TypeOK
    BY DEF Inv, RowInv, QueueInv, RequestInv, TypeOK
<1> QED BY <1>1, InitInv, Invariance, PTL DEF Spec

\* Mails tell of what was committed, and are repeated only after an error.
THEOREM OnlyDueMails == Spec => []MailsAreDue
<1>1. Inv => MailsAreDue
    <2> SUFFICES ASSUME Inv, NEW r \in Tasks, mails[r] > 0
                 PROVE  /\ at[r] = "ended"
                        /\ Kind[r] = "cancel" => Cancels[r] \notin sold
                        /\ mails[r] <= errors[r] + 1 /\ errors[r] <= MaxRetries + 1
        BY DEF MailsAreDue
    <2>1. mails[r] <= errors[r] + 1 /\ errors[r] <= MaxRetries + 1
        BY BackOfficeAssumption DEF Inv, QueueInv
    <2> QED BY <2>1 DEF Inv, RequestInv
<1> QED BY <1>1, InitInv, Invariance, PTL DEF Spec

\* Whoever else writes the row: a payment takes its total from the balance as
\* it is, and only a save of a whole object loaded earlier undoes it.
THEOREM NothingElseUndoes == Spec => PaymentsStay
<1> DEFINE saving == {c \in Accesses : Work[c] \in Saving /\ doing'[c] # doing[c]}
<1>1. Inv /\ [Next]_vars => [MovesAreExplained(saving)]_vars
    <2> SUFFICES ASSUME Inv, Next PROVE MovesAreExplained(saving)
        OBVIOUS
    <2>1. UNCHANGED userVars => MovesAreExplained(saving)
        BY DEF userVars, MovesAreExplained
    <2> QED BY <2>1, RowSteps, AccessInv DEF Inv
<1> QED BY <1>1, InitInv, Invariance, PTL DEF Spec, PaymentsStay
----------------------------------------------------------------------------
(* The sales report. *)

Report == [collected : BOOLEAN, ids : SUBSET (1 .. Past),
           left : SUBSET (1 .. Past), revenue : Int]

\* The revenue so far is that of the ids already summed, and an order that is
\* still sold was collected.
SalesInv ==
    /\ sold \subseteq 1 .. Past
    /\ report \in [Batches -> Report]
    /\ \A b \in Batches :
        /\ report[b].left \subseteq report[b].ids
        /\ report[b].revenue = Revenue(report[b].ids \ report[b].left)
        /\ Collected(b) => sold \subseteq report[b].ids

LEMMA RevenueFacts ==
    \A orders \in SUBSET (1 .. Past) :
        /\ IsFiniteSet(orders) /\ Numeric(Total, orders) /\ Revenue(orders) \in Int
<1> SUFFICES ASSUME NEW orders \in SUBSET (1 .. Past)
             PROVE  /\ IsFiniteSet(orders) /\ Numeric(Total, orders)
                    /\ Revenue(orders) \in Int
    OBVIOUS
<1>1. IsFiniteSet(orders)
    <2>1. IsFiniteSet(1 .. Past)
        BY SalesAssumption, FS_Interval
    <2> QED BY <2>1, FS_Subset
<1>2. Numeric(Total, orders)
    BY SalesAssumption DEF Numeric
<1> QED BY <1>1, <1>2, SumType DEF Revenue

\* A step of one batch keeps the others' reports.
LEMMA OneReport ==
    ASSUME SalesInv, NEW b \in Batches, sold' = sold,
           NEW next \in Report, report' = [report EXCEPT ![b] = next],
           next.left \subseteq next.ids, sold \subseteq next.ids,
           next.revenue = Revenue(next.ids \ next.left)
    PROVE  SalesInv'
<1>1. report' \in [Batches -> Report]
    BY DEF SalesInv, Report
<1>2. ASSUME NEW c \in Batches
      PROVE  /\ report'[c].left \subseteq report'[c].ids
             /\ report'[c].revenue = Revenue(report'[c].ids \ report'[c].left)
             /\ Collected(c)' => sold' \subseteq report'[c].ids
    <2>1. CASE c = b
        <3>1. report'[c] = next
            BY <2>1 DEF SalesInv
        <3> QED BY ONLY <3>1, sold' = sold, sold \subseteq next.ids,
                        next.left \subseteq next.ids,
                        next.revenue = Revenue(next.ids \ next.left), Zenon
    <2>2. CASE c # b
        <3>1. report'[c] = report[c]
            BY <2>2 DEF SalesInv
        <3> QED BY <3>1 DEF SalesInv, Collected
    <2> QED BY <2>1, <2>2
<1> QED BY <1>1, <1>2 DEF SalesInv, Report, Revenue

LEMMA BatchKeepsReports ==
    ASSUME SalesInv, NEW b \in Batches, Collect(b) \/ SumChunk(b) \/ ReadAllOrders(b)
    PROVE  SalesInv'
<1>0. sold \in SUBSET (1 .. Past) /\ Revenue(sold) \in Int /\ report[b] \in Report
    BY RevenueFacts DEF SalesInv, Report
<1>1. CASE Collect(b)
    <2> DEFINE next == [collected |-> TRUE, ids |-> sold, left |-> sold, revenue |-> 0]
    <2>1. Revenue(sold \ sold) = 0
        <3>1. sold \ sold = {}
            OBVIOUS
        <3>2. Revenue({}) = 0
            BY SumEmpty DEF Revenue
        <3> QED BY ONLY <3>1, <3>2, Zenon
    <2>2. /\ next \in Report /\ next.left = sold /\ next.ids = sold
          /\ next.revenue = Revenue(sold \ sold)
        BY <1>0, <2>1 DEF Report
    <2>3. report' = [report EXCEPT ![b] = next] /\ sold' = sold
        BY <1>1 DEF Collect
    <2> HIDE DEF next
    <2> QED BY <2>2, <2>3, OneReport
<1>2. CASE ReadAllOrders(b)
    <2> DEFINE next == [collected |-> TRUE, ids |-> sold, left |-> {},
                        revenue |-> Revenue(sold)]
    <2>1. Revenue(sold \ {}) = Revenue(sold)
        <3>1. sold \ {} = sold
            OBVIOUS
        <3> QED BY ONLY <3>1, Zenon
    <2>2. /\ next \in Report /\ next.left = {} /\ next.ids = sold
          /\ next.revenue = Revenue(sold \ {})
        BY <1>0, <2>1 DEF Report
    <2>3. report' = [report EXCEPT ![b] = next] /\ sold' = sold
        BY <1>2 DEF ReadAllOrders
    <2> HIDE DEF next
    <2> QED BY <2>2, <2>3, OneReport
<1>3. CASE SumChunk(b)
    <2> DEFINE ids == report[b].ids
               left == report[b].left
               chunk == FirstOf(left, Chunk[b])
               next == [collected |-> TRUE, ids |-> ids, left |-> left \ chunk,
                        revenue |-> report[b].revenue + Revenue(chunk)]
    <2>1. sold' = sold /\ Collected(b) /\ report' = [report EXCEPT ![b] = next]
        BY <1>3 DEF SumChunk
    <2>2. /\ ids \in SUBSET (1 .. Past) /\ left \in SUBSET ids
          /\ chunk \in SUBSET left /\ chunk \in SUBSET (1 .. Past)
        <3>1. ids \in SUBSET (1 .. Past) /\ left \in SUBSET ids
            BY <1>0 DEF SalesInv, Report
        <3>2. chunk \in SUBSET left
            BY DEF FirstOf
        <3> HIDE DEF ids, left, chunk
        <3> QED BY <3>1, <3>2
    <2>3. Revenue(chunk) \in Int
        BY <2>2, RevenueFacts
    <2>4. /\ next \in Report /\ next.ids = ids /\ next.left = left \ chunk
          /\ next.revenue = report[b].revenue + Revenue(chunk)
        <3> HIDE DEF chunk
        <3> QED BY <1>0, <2>2, <2>3 DEF Report
    <2>5. Revenue(ids \ (left \ chunk)) = Revenue(ids \ left) + Revenue(chunk)
        <3> DEFINE summed == ids \ left
        <3>1. /\ IsFiniteSet(summed) /\ IsFiniteSet(chunk)
              /\ Numeric(Total, summed \cup chunk)
            BY <2>2, RevenueFacts
        <3>2. summed \cap chunk = {}
            BY <2>2
        <3>3. Revenue(summed \cup chunk) = Revenue(summed) + Revenue(chunk)
            BY ONLY <3>1, <3>2, SumUnion DEF Revenue
        <3>4. ids \ (left \ chunk) = summed \cup chunk
            BY <2>2
        <3> QED BY ONLY <3>3, <3>4, Zenon
    <2>6. report[b].revenue = Revenue(ids \ left)
        BY DEF SalesInv
    <2>7. next.revenue = Revenue(next.ids \ next.left)
        <3> HIDE DEF ids, left, chunk, next
        <3> QED BY ONLY <2>4, <2>5, <2>6, Zenon
    <2>8. sold \subseteq ids
        BY <2>1 DEF SalesInv
    <2>9. next.left \subseteq next.ids
        <3> HIDE DEF ids, left, chunk, next
        <3> QED BY <2>2, <2>4
    <2> HIDE DEF ids, left, chunk, next
    <2> QED BY <2>1, <2>4, <2>7, <2>8, <2>9, OneReport
<1> QED BY <1>1, <1>2, <1>3

LEMMA SalesStep == SalesInv /\ [Next]_vars => SalesInv'
<1> SUFFICES ASSUME SalesInv, [Next]_vars PROVE SalesInv'
    OBVIOUS
<1>1. ASSUME UNCHANGED salesVars PROVE SalesInv'
    BY <1>1 DEF salesVars, SalesInv, Collected, Revenue
<1>2. ASSUME NEW r \in Tasks, Act(r) PROVE SalesInv'
    <2>1. CASE UNCHANGED salesVars
        BY <1>1, <2>1
    <2>2. CASE CancelSale(Cancels[r])
        BY <2>2 DEF CancelSale, SalesInv, Collected, Revenue
    <2> QED BY <1>2, <2>1, <2>2 DEF Act
<1>3. ASSUME NEW r \in Tasks, BatchStep(r) PROVE SalesInv'
    BY <1>1, <1>3, BatchKeepsReports DEF BatchStep
<1>4. ASSUME NEW r \in Tasks, Request(r) \/ CrashRequest(r), ~Act(r) PROVE SalesInv'
    BY <1>1, <1>4 DEF Request, Refuse, MailHere, Queued, NotQueued, CrashRequest
<1>5. ASSUME NEW r \in Tasks,
             TakeTask(r) \/ SendMail(r) \/ PaymentStep(r) \/ MailFails(r) \/ TaskFails(r)
                \/ PaymentFails(r) \/ WorkerDies(r)
      PROVE  SalesInv'
    BY <1>1, <1>5 DEF TakeTask, SendMail, PaymentStep, MailFails, TaskFails,
       PaymentFails, WorkerDies
<1>6. ASSUME NEW c \in Accesses, Access(c) \/ CrashAccess(c) PROVE SalesInv'
    BY <1>1, <1>6 DEF Access, CrashAccess
<1>7. CASE Finished \/ UNCHANGED vars
    BY <1>1, <1>7 DEF Finished, vars
<1> QED BY <1>2, <1>3, <1>4, <1>5, <1>6, <1>7 DEF Next, DoTask

\* A finished report counts each collected order once, in chunks of any size
\* and whatever is cancelled meanwhile, and misses no order that is still sold.
THEOREM EachSaleOnce == Spec => []CountsEachSaleOnce
<1>1. Init => SalesInv
    <2> SUFFICES ASSUME Init PROVE SalesInv
        OBVIOUS
    <2>1. Revenue({}) = 0
        BY SumEmpty DEF Revenue
    <2>2. \A b \in Batches : report[b] = NoReport
        BY DEF Init, SalesInit
    <2>3. {} \ {} = {}
        OBVIOUS
    <2>4. Revenue({} \ {}) = 0
        BY ONLY <2>1, <2>3, Zenon
    <2>5. \A b \in Batches : /\ report[b].ids = {} /\ report[b].left = {}
                              /\ report[b].revenue = 0 /\ ~Collected(b)
        BY <2>2 DEF NoReport, Collected
    <2>6. \A b \in Batches : Revenue(report[b].ids \ report[b].left) = 0
        BY <2>4, <2>5, Zenon
    <2>7. report \in [Batches -> Report]
        BY DEF Init, SalesInit, NoReport, Report
    <2> QED BY <2>5, <2>6, <2>7 DEF Init, SalesInit, SalesInv
<1>2. SalesInv => CountsEachSaleOnce
    <2> SUFFICES ASSUME SalesInv, NEW b \in Batches, Complete(b)
                 PROVE  /\ report[b].revenue = Revenue(report[b].ids)
                        /\ sold \subseteq report[b].ids
        BY DEF CountsEachSaleOnce
    <2>1. report[b].left = {} /\ Collected(b)
        BY DEF Complete
    <2>2. report[b].ids \ report[b].left = report[b].ids
        BY <2>1
    <2>3. Revenue(report[b].ids \ report[b].left) = Revenue(report[b].ids)
        BY ONLY <2>2, Zenon
    <2> QED BY <2>1, <2>3 DEF SalesInv
<1> QED BY <1>1, <1>2, SalesStep, PTL DEF Spec
----------------------------------------------------------------------------
(* The balance as a ledger of payments.                                    *)

Paid == {c \in Accesses : Work[c] \in Paying /\ doing[c] = "done"}

\* A wallet task that has paid is over: no retry runs it again.
PaidTasksEnded == \A c \in Accesses \cap Tasks : doing[c] = "done" => task[c] = "done"

\* No copy of the row shows a debt, so none that is saved does.
Solvent == user.wallet >= 0 /\ \A c \in Accesses : seen[c].wallet >= 0

\* The balance at the start is what is left and what was paid.
BalanceIsPayments == user.wallet = InitBalance - SumFunctionOnSet(Cost, Paid)

\* A step on the row is one of an access at work, and a task that comes to its
\* end there ends as a message too.
LEMMA AccessAtWork ==
    ASSUME QueueInv, PaidTasksEnded, Next
    PROVE  \/ UNCHANGED userVars
           \/ \E c \in Accesses :
                /\ Accessing(c) /\ doing[c] # "done"
                /\ c \in Tasks => task'[c] = "done" \/ Drop(c, "start") \/ Drop(c, "refused")
                                    \/ Load(c) \/ LockUser(c)
<1> DEFINE AtWork(c) ==
        /\ Accessing(c) /\ doing[c] # "done"
        /\ c \in Tasks => task'[c] = "done" \/ Drop(c, "start") \/ Drop(c, "refused")
                            \/ Load(c) \/ LockUser(c)
<1>1. ASSUME NEW c \in Accesses, Load(c) \/ Reject(c) \/ LogIn(c) \/ LogOut(c) \/ SaveAll(c)
                \/ SavePassword(c) \/ Deactivate(c) \/ LockUser(c) \/ Debit(c) \/ TooPoor(c)
      PROVE  doing[c] # "done"
    BY <1>1 DEF Load, Reject, LogIn, LogOut, SaveAll, SavePassword, Deactivate, LockUser, Debit,
       TooPoor
<1>2. ASSUME NEW r \in Tasks, PaymentStep(r) PROVE \E c \in Accesses : AtWork(c)
    <2>1. r \in Accesses
        BY <1>2, BackOfficeAssumption DEF PaymentStep
    <2>2. Debit(r) \/ TooPoor(r) => task'[r] = "done"
        BY <1>2 DEF PaymentStep, Running, End, QueueInv, Debit, TooPoor, Load, LockUser
    <2> QED BY <1>1, <1>2, <2>1, <2>2 DEF PaymentStep, Accessing
<1>3. ASSUME NEW r \in Tasks, PaymentFails(r) PROVE \E c \in Accesses : AtWork(c)
    BY <1>3, BackOfficeAssumption DEF PaymentFails, Accessing
<1>4. ASSUME NEW r \in Tasks, WorkerDies(r)
      PROVE  UNCHANGED userVars \/ \E c \in Accesses : AtWork(c)
    BY <1>4 DEF WorkerDies, Accessing, PaidTasksEnded, End, Running
<1>5. ASSUME NEW c \in Accesses \ Tasks, Access(c) \/ CrashAccess(c)
      PROVE  \E d \in Accesses : AtWork(d)
    BY <1>1, <1>5 DEF Access, CrashAccess, Accessing
<1>6. ASSUME NEW r \in Tasks, Request(r) \/ CrashRequest(r)
      PROVE  UNCHANGED userVars
    BY <1>6 DEF Request, Act, Refuse, MailHere, Queued, NotQueued, CrashRequest
<1>7. ASSUME NEW r \in Tasks, TakeTask(r) \/ SendMail(r) \/ BatchStep(r) \/ MailFails(r) \/ TaskFails(r)
      PROVE  UNCHANGED userVars
    BY <1>7 DEF TakeTask, SendMail, BatchStep, MailFails, TaskFails
<1>8. UNCHANGED vars => UNCHANGED userVars
    BY DEF vars
<1> QED BY <1>2, <1>3, <1>4, <1>5, <1>6, <1>7, <1>8 DEF Next, DoTask, Finished
\* What such a step does to the places, the balance and the copies.
LEMMA AccessMoves ==
    ASSUME RowInv, NEW c \in Accesses, Accessing(c)
    PROVE  /\ \A d \in Accesses \ {c} : doing'[d] = doing[d]
           /\ doing' \in [Accesses -> {"start", "loaded", "again", "held", "done", "refused"}]
           /\ IF Work[c] \in Paying /\ doing[c] # "done" /\ doing'[c] = "done"
              THEN user'.wallet = user.wallet - Cost[c]
              ELSE Work[c] \notin Saving => user'.wallet = user.wallet
<1>1. ASSUME NEW place \in {"start", "loaded", "again", "held", "done", "refused"}, NEW o,
             Go(c, place, o)
      PROVE  /\ \A d \in Accesses \ {c} : doing'[d] = doing[d]
             /\ doing' \in [Accesses -> {"start", "loaded", "again", "held", "done", "refused"}]
             /\ doing'[c] = place
    BY <1>1 DEF Go, RowInv
<1>2. CASE Load(c) \/ Reject(c) \/ LogIn(c) \/ LogOut(c) \/ LockUser(c) \/ TooPoor(c)
           \/ Drop(c, "start") \/ Drop(c, "refused")
    <2>1. user' = user
        BY <1>2 DEF Load, Reject, LogIn, LogOut, LockUser, TooPoor, Drop
    <2>2. CASE LogIn(c) \/ LogOut(c)
        BY <1>1, <2>1, <2>2 DEF LogIn, LogOut, Paying
    <2>3. CASE Load(c) \/ Reject(c) \/ LockUser(c) \/ TooPoor(c)
               \/ Drop(c, "start") \/ Drop(c, "refused")
        BY <1>1, <2>1, <2>3 DEF Load, Reject, LockUser, TooPoor, Drop, Move
    <2> QED BY <1>2, <2>2, <2>3
<1>3. CASE SaveAll(c)
    BY <1>1, <1>3 DEF SaveAll, Move, Saving, Paying
<1>4. CASE SavePassword(c)
    <2>1. Work[c] \in Saving /\ Work[c] \notin Paying
        BY <1>4 DEF SavePassword, RowInv, Saving, Paying
    <2> QED BY <1>1, <1>4, <2>1 DEF SavePassword, Move
<1>5. CASE Deactivate(c)
    <2>1. user'.wallet = user.wallet /\ Work[c] \notin Paying
        BY <1>5 DEF Deactivate, RowInv, User, Paying
    <2> QED BY <1>1, <1>5, <2>1 DEF Deactivate, Move
<1>6. CASE Debit(c)
    <2>1. seen[c] = user /\ Work[c] \in Paying /\ doing[c] = "held"
        BY <1>6 DEF Debit, RowInv
    <2>2. user'.wallet = user.wallet - Cost[c]
        BY <1>6, <2>1 DEF Debit, RowInv, User
    <2> QED BY <1>1, <1>6, <2>1, <2>2 DEF Debit, Move
<1> QED BY <1>2, <1>3, <1>4, <1>5, <1>6 DEF Accessing

\* A message that is done is never queued again.
LEMMA DoneStaysDone ==
    ASSUME QueueInv, Next, NEW t \in Tasks, task[t] = "done"
    PROVE  task'[t] = "done"
<1>1. ASSUME NEW r \in Tasks, NEW how, End(r, how) PROVE task'[t] = "done"
    BY <1>1 DEF QueueInv, End, Running
<1>2. ASSUME NEW r \in Tasks, TakeTask(r) \/ Queued(r) PROVE task'[t] = "done"
    BY <1>2 DEF QueueInv, TakeTask, Take, Queued, Enqueue
<1>3. ASSUME UNCHANGED taskVars PROVE task'[t] = "done"
    BY <1>3 DEF taskVars
<1>4. ASSUME NEW r \in Tasks, Request(r) \/ CrashRequest(r) PROVE task'[t] = "done"
    BY <1>2, <1>3, <1>4 DEF Request, Act, Refuse, MailHere, NotQueued, CrashRequest
<1>5. ASSUME NEW r \in Tasks, SendMail(r) \/ MailFails(r) \/ TaskFails(r) \/ WorkerDies(r)
                \/ PaymentFails(r) \/ BatchStep(r) \/ PaymentStep(r)
      PROVE  task'[t] = "done"
    BY <1>1, <1>3, <1>5 DEF SendMail, MailFails, Retry, TaskFails, WorkerDies, PaymentFails,
       BatchStep, PaymentStep
<1>6. ASSUME NEW c \in Accesses, Access(c) \/ CrashAccess(c) PROVE task'[t] = "done"
    BY <1>3, <1>6 DEF Access, CrashAccess
<1>7. CASE Finished
    BY <1>3, <1>7 DEF Finished, vars
<1> QED BY <1>2, <1>4, <1>5, <1>6, <1>7 DEF Next, DoTask

LEMMA PaidTasksEndedStep ==
    ASSUME RowInv, QueueInv, PaidTasksEnded, [Next]_vars
    PROVE  PaidTasksEnded'
<1> SUFFICES ASSUME NEW c \in Accesses \cap Tasks, doing'[c] = "done"
             PROVE  task'[c] = "done"
    BY DEF PaidTasksEnded
<1>1. CASE UNCHANGED vars
    BY <1>1 DEF vars, userVars, taskVars, PaidTasksEnded
<1>2. CASE Next
    <2>1. CASE doing[c] = "done"
        <3>1. task[c] = "done"
            BY <2>1 DEF PaidTasksEnded
        <3> QED BY <1>2, <3>1, DoneStaysDone
    <2>2. CASE doing[c] # "done"
        <3>1. PICK d \in Accesses :
                /\ Accessing(d) /\ doing[d] # "done"
                /\ d \in Tasks => task'[d] = "done" \/ Drop(d, "start") \/ Drop(d, "refused")
                                    \/ Load(d) \/ LockUser(d)
            BY <1>2, <2>2, AccessAtWork DEF userVars
        <3>2. c = d
            BY <2>2, <3>1, AccessMoves
        <3>3. ~(Drop(d, "start") \/ Drop(d, "refused") \/ Load(d) \/ LockUser(d))
            BY <3>2 DEF Drop, Load, LockUser, Move, Go, RowInv
        <3> QED BY <3>1, <3>2, <3>3
    <2> QED BY <2>1, <2>2
<1> QED BY <1>1, <1>2
\* A payment or any other access that has gone through is never undone or run a
\* second time, however often its task is retried: Celery's early
\* acknowledgement loses payments and never repeats one.
THEOREM NoSecondPayment ==
    Spec => [][\A c \in Accesses : doing[c] = "done" => doing'[c] = "done"]_vars
<1>1. Init => PaidTasksEnded
    BY DEF Init, UserInit, PaidTasksEnded
<1>2. Inv /\ PaidTasksEnded /\ [Next]_vars => PaidTasksEnded'
    BY PaidTasksEndedStep DEF Inv
<1>3. Inv /\ PaidTasksEnded /\ [Next]_vars =>
          [\A c \in Accesses : doing[c] = "done" => doing'[c] = "done"]_vars
    <2> SUFFICES ASSUME Inv, PaidTasksEnded, Next, NEW c \in Accesses, doing[c] = "done"
                 PROVE  doing'[c] = "done"
        OBVIOUS
    <2>1. CASE UNCHANGED userVars
        BY <2>1 DEF userVars
    <2>2. ASSUME NEW d \in Accesses, Accessing(d), doing[d] # "done" PROVE doing'[c] = "done"
        BY <2>2, AccessMoves DEF Inv
    <2> QED BY <2>1, <2>2, AccessAtWork DEF Inv
<1> QED BY <1>1, <1>2, <1>3, InitInv, Invariance, PTL DEF Spec

\* The balance is never negative, whole-row saves or not: a payment is tested
\* against a copy that no one else changes, and a stale copy that is saved shows
\* an earlier balance.
THEOREM NeverInDebt == Spec => [](user.wallet >= 0)
<1>1. Init => Solvent
    BY BackOfficeAssumption DEF Init, UserInit, NoUser, Solvent
<1>2. ASSUME RowInv, Solvent, NEW c \in Accesses, Accessing(c) PROVE Solvent'
    <2>1. user \in User /\ seen \in [Accesses -> User] /\ NoUser \in User /\ Cost[c] \in Nat
        BY <1>2, BackOfficeAssumption DEF RowInv, NoUser, User
    <2>2. ASSUME NEW place, NEW o \in User, o.wallet >= 0, NEW u \in User, u.wallet >= 0,
                 Go(c, place, o), user' = u
          PROVE  Solvent'
        BY <1>2, <2>1, <2>2 DEF Go, Solvent
    <2>3. NoUser.wallet >= 0 /\ user.wallet >= 0 /\ seen[c] \in User /\ seen[c].wallet >= 0
        BY <1>2, <2>1 DEF NoUser, Solvent
    <2>4. CASE Load(c) \/ Reject(c) \/ LogIn(c) \/ LogOut(c) \/ LockUser(c) \/ TooPoor(c)
               \/ Drop(c, "start") \/ Drop(c, "refused")
        BY <2>1, <2>2, <2>3, <2>4 DEF Load, Reject, LogIn, LogOut, LockUser, TooPoor, Drop, Move
    <2>5. CASE SaveAll(c)
        <3>1. PICK active \in BOOLEAN :
                /\ user' = [seen[c] EXCEPT !.active = active]
                /\ IF Work[c] = "password" THEN Move(c, "again", user') ELSE Move(c, "done", NoUser)
            BY <2>3, <2>5 DEF SaveAll, User
        <3>2. user' \in User /\ user'.wallet >= 0
            BY <2>3, <3>1 DEF User
        <3> QED BY <2>1, <2>2, <2>3, <3>1, <3>2 DEF Move
    <2>6. CASE SavePassword(c)
        BY <2>1, <2>2, <2>3, <2>6 DEF SavePassword, Move
    <2>7. CASE Deactivate(c)
        <3>1. user' \in User /\ user'.wallet >= 0 /\ Move(c, "done", NoUser)
            BY <2>1, <2>3, <2>7 DEF Deactivate, User
        <3> QED BY <2>1, <2>2, <2>3, <3>1 DEF Move
    <2>8. CASE Debit(c)
        <3>1. user' \in User /\ user'.wallet >= 0 /\ Move(c, "done", NoUser)
            BY <2>1, <2>3, <2>8 DEF Debit, User
        <3> QED BY <2>1, <2>2, <2>3, <3>1 DEF Move
    <2> QED BY <1>2, <2>4, <2>5, <2>6, <2>7, <2>8 DEF Accessing
<1>3. Inv /\ Solvent /\ [Next]_vars => Solvent'
    BY <1>2, RowSteps DEF Inv, vars, userVars, Solvent
<1>4. Solvent => user.wallet >= 0
    BY DEF Solvent
<1> QED BY <1>1, <1>3, <1>4, InitInv, Invariance, PTL DEF Spec

\* No PATCH and no change of password: nobody saves a whole object.
NoneSaves == \A c \in Accesses : Work[c] \notin Saving

LEMMA BalanceStep ==
    ASSUME IsFiniteSet(Accesses), NoneSaves, Inv, PaidTasksEnded, BalanceIsPayments, [Next]_vars
    PROVE  BalanceIsPayments'
<1>1. CASE UNCHANGED userVars
    <2>1. Paid' = Paid /\ user' = user
        BY <1>1 DEF userVars, Paid
    <2> QED BY <2>1 DEF BalanceIsPayments
<1>2. ASSUME NEW c \in Accesses, Accessing(c), doing[c] # "done" PROVE BalanceIsPayments'
    <2>1. /\ \A d \in Accesses \ {c} : doing'[d] = doing[d]
          /\ IF Work[c] \in Paying /\ doing'[c] = "done"
             THEN user'.wallet = user.wallet - Cost[c]
             ELSE user'.wallet = user.wallet
        BY <1>2, AccessMoves DEF Inv, NoneSaves
    <2>2. CASE Work[c] \in Paying /\ doing'[c] = "done"
        <3>1. Paid' = Paid \cup {c} /\ c \notin Paid
            BY <1>2, <2>1, <2>2 DEF Paid
        <3>2. IsFiniteSet(Paid') /\ Numeric(Cost, Paid') /\ IsFiniteSet(Paid) /\ Numeric(Cost, Paid)
            BY BackOfficeAssumption, FS_Subset DEF Paid, Numeric
        <3>3. SumFunctionOnSet(Cost, Paid') = Cost[c] + SumFunctionOnSet(Cost, Paid' \ {c})
            BY <3>1, <3>2, SumRemove
        <3>4. Paid' \ {c} = Paid
            BY <3>1
        <3>5. SumFunctionOnSet(Cost, Paid) \in Int /\ Cost[c] \in Int /\ InitBalance \in Int
            BY <3>2, SumType, BackOfficeAssumption
        <3>6. SumFunctionOnSet(Cost, Paid') = Cost[c] + SumFunctionOnSet(Cost, Paid)
            BY ONLY <3>3, <3>4, Zenon
        <3>7. user'.wallet = user.wallet - Cost[c]
            BY <2>1, <2>2
        <3> QED BY <3>5, <3>6, <3>7 DEF BalanceIsPayments
    <2>3. CASE ~(Work[c] \in Paying /\ doing'[c] = "done")
        <3>1. Paid' = Paid
            BY <1>2, <2>1, <2>3 DEF Paid
        <3>2. user'.wallet = user.wallet
            BY <2>1, <2>3
        <3> QED BY <3>1, <3>2, Zenon DEF BalanceIsPayments
    <2> QED BY <2>2, <2>3
<1> QED BY <1>1, <1>2, AccessAtWork DEF Inv, vars

\* Where nobody saves a whole object, the balance is the one at the start less
\* the payments that went through, in requests and in tasks alike.
THEOREM BalanceAdds ==
    IsFiniteSet(Accesses) /\ NoneSaves => (Spec => []BalanceIsPayments)
<1> SUFFICES ASSUME IsFiniteSet(Accesses), NoneSaves PROVE Spec => []BalanceIsPayments
    OBVIOUS
<1>1. Init => PaidTasksEnded
    BY DEF Init, UserInit, PaidTasksEnded
<1>2. Init => BalanceIsPayments
    <2> SUFFICES ASSUME Init PROVE BalanceIsPayments
        OBVIOUS
    <2>1. Paid = {} /\ user.wallet = InitBalance
        BY DEF Init, UserInit, Paid
    <2>2. SumFunctionOnSet(Cost, Paid) = 0
        BY <2>1, SumEmpty
    <2> QED BY <2>1, <2>2, BackOfficeAssumption DEF BalanceIsPayments
<1>3. Inv /\ PaidTasksEnded /\ [Next]_vars => PaidTasksEnded'
    BY PaidTasksEndedStep DEF Inv
<1>4. Inv /\ PaidTasksEnded /\ BalanceIsPayments /\ [Next]_vars => BalanceIsPayments'
    BY BalanceStep
<1> QED BY <1>1, <1>2, <1>3, <1>4, InitInv, Invariance, PTL DEF Spec
=============================================================================
