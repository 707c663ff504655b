---------------------------- MODULE ProductCache ----------------------------
(***************************************************************************)
(* Reads of one cached key through Redis, some with the distributed lock   *)
(* (get_or_set_cache_with_distributed_lock), some by plain cache-aside,    *)
(* some bypassing Redis, while admins, customers who review and checkouts  *)
(* change what the key was built from.  A Redis key is the set of what it  *)
(* holds: {} or one entry.  The database's content is the number of        *)
(* changes made to it so far.                                              *)
(***************************************************************************)
EXTENDS Integers

CONSTANTS
    Keys,              \* the keys to look at, one per behaviour
    Readers, Locked,   \* the requests, and those with ?req7_mode=after
    Writers,           \* requests that change what the key is built from
    MaxPolls           \* polls that fit in wait_timeout_ms

AllKeys == {"product_list", "top_selling_products", "product_detail", "product_rating_summary"}

ASSUME CacheAssumption ==
    /\ Keys \subseteq AllKeys
    /\ Locked \subseteq Readers
    /\ MaxPolls \in Nat

VARIABLES
    key,             \* the key
    reviewed,        \* the reviewing user's Review row of this product exists
    db,              \* the database's content
    cache,           \* {} or {[value, ttl]}: ttl says the key expires
    lock,            \* {} or {[owner, ttl]}
    at, value,       \* where each reader is, and what it has read and not yet
                     \* stored (None: nothing)
    polls,           \* how often each waiting reader has polled
    writer,          \* where each writer is
    early,           \* a lock has expired under a reader still rebuilding
    fills, drops     \* cache.set calls under the lock; times the key was emptied

reader == <<at, value, polls>>
data == <<key, reviewed, db>>
vars == <<data, cache, lock, reader, writer, early, fills, drops>>

None == -1
Rebuilding == {"check", "rebuild", "store"}

Init ==
    /\ key \in Keys
    /\ reviewed = FALSE
    /\ db = 0
    /\ cache = {} /\ lock = {}
    /\ at = [r \in Readers |-> "start"]
    /\ value = [r \in Readers |-> None]
    /\ polls = [r \in Readers |-> 0]
    /\ writer = [w \in Writers |-> "start"]
    /\ early = FALSE
    /\ fills = 0 /\ drops = 0

Goto(r, place) == at' = [at EXCEPT ![r] = place]

\* Only the product list and the top sellers have a mode with the lock.
UsesLock(r) == r \in Locked /\ key \in {"product_list", "top_selling_products"}
AfterRebuild(r) == IF UsesLock(r) THEN "release" ELSE "done"
Drop == cache' = {} /\ drops' = IF cache = {} THEN drops ELSE drops + 1
----------------------------------------------------------------------------
(* One read. *)

\* cache.get finds the key: at the start, in the double check, or in a poll.
Hit(r) ==
    /\ at[r] \in {"start", "check", "wait"}
    /\ cache # {}
    /\ Goto(r, IF at[r] = "check" THEN "release" ELSE "done")
    /\ UNCHANGED <<data, cache, lock, value, polls, writer, early, fills, drops>>

Miss(r) ==
    /\ at[r] = "start" /\ cache = {}
    /\ Goto(r, IF UsesLock(r) THEN "acquire" ELSE "rebuild")
    /\ UNCHANGED <<data, cache, lock, value, polls, writer, early, fills, drops>>

\* The benchmark header X-Req6-Bypass-Cache, or a member of staff reading the
\* product's detail: the database is read, Redis is left alone.
Bypass(r) ==
    /\ at[r] = "start" /\ ~UsesLock(r)
    /\ Goto(r, "done")
    /\ UNCHANGED <<data, cache, lock, value, polls, writer, early, fills, drops>>

\* Mutants of Acquire: SET without NX, and SET without PX.
AcquireAnyway(r) ==
    /\ at[r] = "acquire"
    /\ lock' = {[owner |-> r, ttl |-> TRUE]}
    /\ Goto(r, "check")
    /\ UNCHANGED <<data, cache, value, polls, writer, early, fills, drops>>
AcquireForever(r) ==
    /\ at[r] = "acquire" /\ lock = {}
    /\ lock' = {[owner |-> r, ttl |-> FALSE]}
    /\ Goto(r, "check")
    /\ UNCHANGED <<data, cache, value, polls, writer, early, fills, drops>>

Acquire(r) ==
    /\ at[r] = "acquire" /\ lock = {}
    /\ lock' = {[owner |-> r, ttl |-> TRUE]}
    /\ Goto(r, "check")
    /\ UNCHANGED <<data, cache, value, polls, writer, early, fills, drops>>

FailToAcquire(r) ==
    /\ at[r] = "acquire" /\ lock # {}
    /\ Goto(r, "wait")
    /\ UNCHANGED <<data, cache, lock, value, polls, writer, early, fills, drops>>

\* Mutant of MissAgain: no double check after the lock was acquired.
RebuildAtOnce(r) ==
    /\ at[r] = "check"
    /\ Goto(r, "rebuild")
    /\ UNCHANGED <<data, cache, lock, value, polls, writer, early, fills, drops>>

MissAgain(r) ==
    /\ at[r] = "check" /\ cache = {}
    /\ Goto(r, "rebuild")
    /\ UNCHANGED <<data, cache, lock, value, polls, writer, early, fills, drops>>

\* callback() reads the database ...
Rebuild(r) ==
    /\ at[r] = "rebuild"
    /\ value' = [value EXCEPT ![r] = db]
    /\ Goto(r, "store")
    /\ UNCHANGED <<data, cache, lock, polls, writer, early, fills, drops>>

\* ... or it or cache.set raises, and "finally" still releases the lock.
FailToRebuild(r) ==
    /\ at[r] \in {"rebuild", "store"}
    /\ value' = [value EXCEPT ![r] = None]
    /\ Goto(r, AfterRebuild(r))
    /\ UNCHANGED <<data, cache, lock, polls, writer, early, fills, drops>>

\* Mutant of Store: cache.set without a TTL.
StoreForever(r) ==
    /\ at[r] = "store"
    /\ cache' = {[value |-> value[r], ttl |-> FALSE]}
    /\ value' = [value EXCEPT ![r] = None]
    /\ fills' = IF UsesLock(r) THEN fills + 1 ELSE fills
    /\ Goto(r, AfterRebuild(r))
    /\ UNCHANGED <<data, lock, polls, writer, early, drops>>

Store(r) ==
    /\ at[r] = "store"
    /\ cache' = {[value |-> value[r], ttl |-> TRUE]}
    /\ value' = [value EXCEPT ![r] = None]
    /\ fills' = IF UsesLock(r) THEN fills + 1 ELSE fills
    /\ Goto(r, AfterRebuild(r))
    /\ UNCHANGED <<data, lock, polls, writer, early, drops>>

\* Mutant of Release: a plain DEL, without the comparison.
ReleaseAny(r) ==
    /\ at[r] = "release"
    /\ lock' = {}
    /\ Goto(r, "done")
    /\ UNCHANGED <<data, cache, value, polls, writer, early, fills, drops>>

\* The compare-and-delete script.
Release(r) ==
    /\ at[r] = "release"
    /\ lock' = {l \in lock : l.owner # r}
    /\ Goto(r, "done")
    /\ UNCHANGED <<data, cache, value, polls, writer, early, fills, drops>>

\* Mutant of MissPoll: no deadline.
PollForever(r) ==
    /\ at[r] = "wait" /\ cache = {}
    /\ polls' = [polls EXCEPT ![r] = @ + 1]
    /\ UNCHANGED <<data, cache, lock, at, value, writer, early, fills, drops>>

MissPoll(r) ==
    /\ at[r] = "wait" /\ cache = {}
    /\ polls[r] < MaxPolls
    /\ polls' = [polls EXCEPT ![r] = @ + 1]
    /\ UNCHANGED <<data, cache, lock, at, value, writer, early, fills, drops>>

\* Mutant of FallBack: keep waiting for the owner.
KeepWaiting(r) == at[r] = "wait" /\ cache = {} /\ UNCHANGED vars

\* The deadline has passed (a slow poll can use it up at any time): read the
\* database and answer, or raise, without writing to Redis.
FallBack(r) ==
    /\ at[r] = "wait"
    /\ Goto(r, "done")
    /\ UNCHANGED <<data, cache, lock, value, polls, writer, early, fills, drops>>

\* The process dies; what it put in Redis stays.
Crash(r) ==
    /\ at[r] \notin {"done", "crashed"}
    /\ value' = [value EXCEPT ![r] = None]
    /\ Goto(r, "crashed")
    /\ UNCHANGED <<data, cache, lock, polls, writer, early, fills, drops>>
----------------------------------------------------------------------------
(* Redis and the writers. *)

\* px = lock_ttl_ms: time runs whatever the owner does.
ExpireLock ==
    \E l \in lock :
        /\ l.ttl
        /\ lock' = {}
        /\ early' = (early \/ at[l.owner] \in Rebuilding)
        /\ UNCHANGED <<data, cache, reader, writer, fills, drops>>

\* PRODUCT_CACHE_TTL; also the cache.delete a checkout does before COMMIT.
ExpireCache ==
    /\ \E e \in cache : e.ttl
    /\ Drop
    /\ UNCHANGED <<data, lock, reader, writer, early, fills>>

\* serializer.save() commits before the key is invalidated.
Save(w) ==
    /\ writer[w] = "start"
    /\ db' = db + 1
    /\ writer' = [writer EXCEPT ![w] = "saved"]
    /\ UNCHANGED <<key, reviewed, cache, lock, reader, early, fills, drops>>

\* The first review a user writes of the product is inserted ...
SaveReview(w) ==
    /\ writer[w] = "start" /\ key = "product_rating_summary"
    /\ ~reviewed /\ reviewed' = TRUE
    /\ db' = db + 1
    /\ writer' = [writer EXCEPT ![w] = "saved"]
    /\ UNCHANGED <<key, cache, lock, reader, early, fills, drops>>

\* ... any other raises IntegrityError and invalidates nothing.
RefuseReview(w) ==
    /\ writer[w] = "start" /\ key = "product_rating_summary" /\ reviewed
    /\ writer' = [writer EXCEPT ![w] = "done"]
    /\ UNCHANGED <<data, cache, lock, reader, early, fills, drops>>

\* A checkout changes the best sellers and deletes only "product_list".
Sell(w) ==
    /\ writer[w] = "start" /\ key = "top_selling_products"
    /\ db' = db + 1
    /\ writer' = [writer EXCEPT ![w] = "done"]
    /\ UNCHANGED <<key, reviewed, cache, lock, reader, early, fills, drops>>

Invalidate(w) ==
    /\ writer[w] = "saved"
    /\ Drop
    /\ writer' = [writer EXCEPT ![w] = "done"]
    /\ UNCHANGED <<data, lock, reader, early, fills>>

CrashWriter(w) ==
    /\ writer[w] \in {"start", "saved"}
    /\ writer' = [writer EXCEPT ![w] = "crashed"]
    /\ UNCHANGED <<data, cache, lock, reader, early, fills, drops>>
----------------------------------------------------------------------------
Read(r) ==
    \/ Hit(r) \/ Miss(r) \/ Bypass(r)
    \/ Acquire(r) \/ FailToAcquire(r) \/ MissAgain(r)
    \/ Rebuild(r) \/ FailToRebuild(r) \/ Store(r) \/ Release(r)
    \/ MissPoll(r) \/ FallBack(r)

Write(w) ==
    \/ Save(w) \/ SaveReview(w) \/ RefuseReview(w) \/ Sell(w)
    \/ Invalidate(w) \/ CrashWriter(w)

Ended(r) == at[r] \in {"done", "crashed"}
Finished ==
    /\ \A r \in Readers : Ended(r)
    /\ \A w \in Writers : writer[w] \in {"done", "crashed"}
    /\ UNCHANGED vars

Next ==
    \/ \E r \in Readers : Read(r) \/ Crash(r)
    \/ \E w \in Writers : Write(w)
    \/ ExpireLock \/ ExpireCache
    \/ Finished

\* A live request goes on, and time passes for Redis; writers owe nothing.
Fairness ==
    /\ \A r \in Readers : WF_vars(Read(r))
    /\ WF_vars(ExpireLock) /\ WF_vars(ExpireCache)

Spec == Init /\ [][Next]_vars /\ Fairness
----------------------------------------------------------------------------
Owns(r) == \E l \in lock : l.owner = r

TypeOK ==
    /\ key \in AllKeys
    /\ reviewed \in BOOLEAN
    /\ db \in Nat
    /\ cache \in SUBSET [value : Nat, ttl : BOOLEAN]
    /\ lock \in SUBSET [owner : Locked, ttl : BOOLEAN]
    /\ at \in [Readers -> Rebuilding \cup
                 {"start", "acquire", "wait", "release", "done", "crashed"}]
    /\ value \in [Readers -> Nat \cup {None}]
    /\ polls \in [Readers -> 0 .. MaxPolls]
    /\ writer \in [Writers -> {"start", "saved", "done", "crashed"}]
    /\ early \in BOOLEAN
    /\ fills \in Nat /\ drops \in Nat

\* As long as no lock expired under its owner, who rebuilds under the lock
\* owns it, so at most one request does ("Only the lock owner may rebuild and
\* write the cache", cache_utils.py).
OnlyOwnerRebuilds ==
    ~early => \A r \in Locked :
        UsesLock(r) /\ at[r] \in Rebuilding => lock # {} /\ \A l \in lock : l.owner = r

\* No stampede: each time the key is emptied, the requests that use the lock
\* store it at most once, however many of them missed it (README
\* "only one request rebuilds the cache").
NoStampede == ~early => fills <= drops + 1

\* A request never takes away another's lock, even when its own has expired
\* ("prevents an old request from deleting a newer request's lock").
OthersLockSurvives ==
    [][\A r \in Readers : Owns(r) /\ ~Owns(r)' => at'[r] = "done" \/ UNCHANGED at]_vars

\* A lock whose owner crashed does not stay ("the TTL prevents a stuck lock").
LockIsFreed == []<>(lock = {})

\* Every request is answered, even when the owner it waits for has crashed.
AllAnswered == <>(\A r \in Readers : Ended(r))

\* A value stored after it was invalidated, or never invalidated because the
\* request died or is a checkout, does not outlive its TTL.
EventuallyFresh == <>[](\A e \in cache : e.value = db)
============================================================================
