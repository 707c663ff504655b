----------------------------- MODULE TaskQueue ------------------------------
(***************************************************************************)
(* Celery over Redis as this project configures it: named queues with a    *)
(* pool of worker slots each, a message acknowledged when a slot takes it  *)
(* (acks_late is not set), self.retry publishing the message again.        *)
(***************************************************************************)
EXTENDS Integers, FiniteSets

CONSTANTS
    Tasks, Queue,   \* the messages, and CELERY_TASK_ROUTES
    Slots,          \* the concurrency of each queue's worker
    MaxRetries

VARIABLES
    task,           \* where each message is
    tries           \* how often it was taken

taskVars == <<task, tries>>

Running(t) == task[t] = "running"

TasksInit ==
    /\ task = [t \in Tasks |-> "none"]
    /\ tries = [t \in Tasks |-> 0]

\* task.delay(...)
Enqueue(t) ==
    /\ task[t] = "none"
    /\ task' = [task EXCEPT ![t] = "queued"]
    /\ UNCHANGED tries

Take(t) ==
    /\ task[t] = "queued"
    /\ Cardinality({u \in Tasks : Running(u) /\ Queue[u] = Queue[t]}) < Slots[Queue[t]]
    /\ task' = [task EXCEPT ![t] = "running"]
    /\ tries' = [tries EXCEPT ![t] = @ + 1]

End(t, how) ==
    /\ Running(t)
    /\ task' = [task EXCEPT ![t] = how]
    /\ UNCHANGED tries

\* Mutant of Retry: the exception is raised without self.retry.
RetryNever(t) == End(t, "failed")

\* self.retry: published again with a countdown, until max_retries is used up.
Retry(t) == End(t, IF tries[t] <= MaxRetries THEN "queued" ELSE "failed")
============================================================================
