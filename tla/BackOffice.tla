----------------------------- MODULE BackOffice -----------------------------
(***************************************************************************)
(* What happens around the checkout: requests that commit something and    *)
(* then queue a Celery task about it, the workers that run the tasks, the  *)
(* sales batch, and the accesses to the row of one user.                   *)
(***************************************************************************)
EXTENDS TaskQueue, UserRow, SalesBatch

CONSTANTS
    Kind,           \* the endpoint of the request behind each task
    Cancels,        \* the order a "cancel" is about
    Together        \* the sets of requests and accesses that may come together

VARIABLES
    at,             \* where each request is
    mails,          \* the mails a task has had delivered
    errors          \* how often the mail server has refused or timed out

requestVars == <<at, mails, errors>>
vars == <<taskVars, userVars, salesVars, requestVars>>

Mailing == {"register", "checkout", "cancel", "sync"}

ASSUME BackOfficeAssumption ==
    /\ Kind \in [Tasks -> Mailing \cup {"batch", "naive", "wallet"}]
    /\ Cancels \in [Tasks -> 1 .. Past]
    /\ Batches = {r \in Tasks : Kind[r] \in {"batch", "naive"}}
    /\ \A b \in Batches : Chunk[b] \in Nat /\ (Chunk[b] = 0 <=> Kind[b] = "naive")
    /\ Tasks \cap Accesses = {r \in Tasks : Kind[r] = "wallet"}
    /\ Work \in [Accesses -> Saving \cup Paying \cup {"login", "logout", "deactivate"}]
    /\ \A c \in Accesses : Work[c] = "task" <=> c \in Tasks
    /\ Cost \in [Accesses -> Nat] /\ InitBalance \in Nat
    /\ MaxRetries \in Nat

\* The requests of one of the sets come, in any order.
Init ==
    /\ TasksInit /\ UserInit /\ SalesInit
    /\ mails = [r \in Tasks |-> 0]
    /\ errors = [r \in Tasks |-> 0]
    /\ \E S \in Together : at = [r \in Tasks \cup Accesses |-> IF r \in S THEN "start" ELSE "absent"]
----------------------------------------------------------------------------
(* The requests. *)

Goto(r, place) == at' = [at EXCEPT ![r] = place]

\* The transaction of the request commits; a batch or a wallet payment only
\* has its arguments and its user checked.
Act(r) ==
    /\ at[r] = "start"
    /\ Kind[r] = "wallet" => token /\ user.active
    /\ Goto(r, "acted")
    /\ IF Kind[r] = "cancel"
       THEN Cancels[r] \in sold /\ CancelSale(Cancels[r])
       ELSE UNCHANGED salesVars
    /\ UNCHANGED <<taskVars, userVars, mails, errors>>

\* A 4xx answer: bad arguments, an empty cart, a cancelled order.
Refuse(r) ==
    /\ at[r] = "start"
    /\ Kind[r] = "cancel" => Cancels[r] \notin sold
    /\ Goto(r, "refused")
    /\ UNCHANGED <<taskVars, userVars, salesVars, mails, errors>>

\* checkout_sync_demo_view "sends" the mail itself before it answers.
MailHere(r) ==
    /\ at[r] = "acted" /\ Kind[r] = "sync"
    /\ mails' = [mails EXCEPT ![r] = @ + 1]
    /\ Goto(r, "ended")
    /\ UNCHANGED <<taskVars, userVars, salesVars, errors>>

\* Mutant of Queued: the task is queued before COMMIT.
QueuedEarly(r) ==
    /\ at[r] \in {"start", "acted"}
    /\ Enqueue(r)
    /\ Goto(r, IF at[r] = "acted" THEN "ended" ELSE "start")
    /\ UNCHANGED <<userVars, salesVars, mails, errors>>

Queued(r) ==
    /\ at[r] = "acted" /\ Kind[r] # "sync"
    /\ Enqueue(r)
    /\ Goto(r, "ended")
    /\ UNCHANGED <<userVars, salesVars, mails, errors>>

\* The broker cannot be reached: 500 or 503 for a batch or a payment, and
\* nobody is told for a mail.
NotQueued(r) ==
    /\ at[r] = "acted" /\ Kind[r] # "sync"
    /\ Goto(r, "unqueued")
    /\ UNCHANGED <<taskVars, userVars, salesVars, mails, errors>>

CrashRequest(r) ==
    /\ at[r] \in {"start", "acted"}
    /\ Goto(r, "crashed")
    /\ UNCHANGED <<taskVars, userVars, salesVars, mails, errors>>

Request(r) == Act(r) \/ Refuse(r) \/ MailHere(r) \/ Queued(r) \/ NotQueued(r)
----------------------------------------------------------------------------
(* The workers. *)

TakeTask(r) == Take(r) /\ UNCHANGED <<userVars, salesVars, requestVars>>

\* The three mail tasks find their order or user and send.
SendMail(r) ==
    /\ Kind[r] \in Mailing
    /\ End(r, "done")
    /\ mails' = [mails EXCEPT ![r] = @ + 1]
    /\ UNCHANGED <<userVars, salesVars, at, errors>>

\* send_mail raises, before or after the server has taken the mail.  Only the
\* welcome mail calls self.retry.
MailFails(r) ==
    /\ Kind[r] = "register"
    /\ Retry(r)
    /\ \E taken \in 0 .. 1 : mails' = [mails EXCEPT ![r] = @ + taken]
    /\ errors' = [errors EXCEPT ![r] = @ + 1]
    /\ UNCHANGED <<userVars, salesVars, at>>

\* Any other exception: max_retries is declared, but nothing calls self.retry.
TaskFails(r) ==
    /\ Kind[r] = "wallet" => doing[r] = "start"
    /\ End(r, "raised")
    /\ UNCHANGED <<userVars, salesVars, requestVars>>

BatchStep(r) ==
    /\ r \in Batches /\ Running(r)
    /\ \/ (Collect(r) \/ SumChunk(r) \/ ReadAllOrders(r)) /\ UNCHANGED taskVars
       \/ Complete(r) /\ End(r, "done") /\ UNCHANGED salesVars
    /\ UNCHANGED <<userVars, requestVars>>

\* process_wallet_payment_async: checkout_with_wallet, one statement at a time.
PaymentStep(r) ==
    /\ Kind[r] = "wallet" /\ Running(r)
    /\ \/ (Load(r) \/ LockUser(r)) /\ UNCHANGED taskVars
       \/ (Debit(r) \/ TooPoor(r)) /\ End(r, "done")
    /\ UNCHANGED <<salesVars, requestVars>>

\* An unexpected exception rolls the payment back and is retried.
PaymentFails(r) ==
    /\ Kind[r] = "wallet" /\ doing[r] \in {"loaded", "held"}
    /\ Drop(r, "start")
    /\ Retry(r)
    /\ UNCHANGED <<salesVars, requestVars>>

\* The worker dies with the task, which nobody delivers again.
WorkerDies(r) ==
    /\ End(r, "lost")
    /\ IF r \in Accesses THEN Drop(r, "refused") ELSE UNCHANGED userVars
    /\ UNCHANGED <<salesVars, requestVars>>

DoTask(r) == SendMail(r) \/ BatchStep(r) \/ PaymentStep(r)
----------------------------------------------------------------------------
(* The requests about the user row that queue nothing. *)

Access(c) ==
    /\ at[c] = "start"
    /\ \/ Load(c) \/ Reject(c) \/ LogIn(c) \/ LogOut(c) \/ SaveAll(c) \/ SavePassword(c) \/ Deactivate(c)
       \/ LockUser(c) \/ Debit(c) \/ TooPoor(c)
    /\ UNCHANGED <<taskVars, salesVars, requestVars>>

CrashAccess(c) ==
    /\ at[c] = "start" /\ doing[c] \notin {"done", "refused"}
    /\ Drop(c, "refused")
    /\ UNCHANGED <<taskVars, salesVars, requestVars>>
----------------------------------------------------------------------------
Answered(r) == at[r] \notin {"start", "acted"}
Settled(r) == Answered(r) /\ task[r] \notin {"queued", "running"}
Requested(c) == at[c] = "start" => doing[c] \in {"done", "refused"}
Finished ==
    /\ \A r \in Tasks : Settled(r)
    /\ \A c \in Accesses \ Tasks : Requested(c)
    /\ UNCHANGED vars

Next ==
    \/ \E r \in Tasks :
        \/ Request(r) \/ CrashRequest(r)
        \/ TakeTask(r) \/ DoTask(r) \/ MailFails(r) \/ TaskFails(r) \/ PaymentFails(r) \/ WorkerDies(r)
    \/ \E c \in Accesses \ Tasks : Access(c) \/ CrashAccess(c)
    \/ Finished

\* Requests are served and workers work; faults need not happen.
Fairness ==
    /\ \A r \in Tasks : /\ WF_vars(Request(r)) /\ WF_vars(TakeTask(r))
                        /\ WF_vars(DoTask(r) \/ MailFails(r) \/ PaymentFails(r))
    /\ \A c \in Accesses \ Tasks : WF_vars(Access(c))

Spec == Init /\ [][Next]_vars /\ Fairness
----------------------------------------------------------------------------
TypeOK ==
    /\ task \in [Tasks -> {"none", "queued", "running", "done", "failed", "raised", "lost"}]
    /\ tries \in [Tasks -> 0 .. MaxRetries + 1]
    /\ user \in User /\ token \in BOOLEAN
    /\ doing \in [Accesses -> {"start", "loaded", "again", "held", "done", "refused"}]
    /\ seen \in [Accesses -> User]
    /\ sold \subseteq 1 .. Past
    /\ at \in [Tasks \cup Accesses ->
              {"absent", "start", "acted", "refused", "ended", "unqueued", "crashed"}]
    /\ mails \in [Tasks -> Nat] /\ errors \in [Tasks -> 0 .. MaxRetries + 1]

\* A mail is only sent about what was committed and is still so, and a second
\* time only after an error of the mail server, of which max_retries + 1 end
\* the task.
MailsAreDue ==
    \A r \in Tasks : mails[r] > 0 =>
        /\ at[r] = "ended"
        /\ Kind[r] = "cancel" => Cancels[r] \notin sold
        /\ mails[r] <= errors[r] + 1 /\ errors[r] <= MaxRetries + 1

\* Nothing but a save of a whole object loaded earlier undoes a payment or
\* brings a deactivated user back.
PaymentsStay ==
    [][MovesAreExplained({c \in Accesses : Work[c] \in Saving /\ doing'[c] # doing[c]})]_vars

\* Every request is answered and every task ends.  What was queued about a
\* committed change is mailed, unless the worker died or raised, or the mail
\* server failed for every attempt.
MailArrives(r) ==
    Kind[r] \in Mailing /\ at[r] = "ended" =>
        mails[r] > 0 \/ task[r] \in {"lost", "raised"} \/ errors[r] > MaxRetries
EverythingSettles ==
    <>[](/\ \A r \in Tasks : Settled(r) /\ MailArrives(r)
         /\ \A c \in Accesses \ Tasks : Requested(c))
============================================================================
