------------------------ MODULE ProductCacheProofs -------------------------
(***************************************************************************)
(* Proofs about ProductCache, for any number of requests and admins.       *)
(***************************************************************************)
EXTENDS ProductCache, TLAPS

\* The locked requests past the double check.
Filling == {r \in Locked : UsesLock(r) /\ at[r] \in {"rebuild", "store"}}

\* Only requests that use the lock are ever at its steps, there is at most
\* one lock, and no data is stored before it was read.
Shape ==
    /\ \A r \in Readers : at[r] \in {"acquire", "check", "wait", "release"} => UsesLock(r)
    /\ \A l, m \in lock : l = m
    /\ \A r \in Readers : at[r] = "store" => value[r] # None

\* A locked request that has the right to fill the key finds no fill since
\* the key was last emptied.
FillsAccounted ==
    ~early => /\ fills <= drops + 1
              /\ cache = {} \/ Filling # {} => fills <= drops

Inv == TypeOK /\ Shape /\ OnlyOwnerRebuilds /\ FillsAccounted

LEMMA InitInv == Init => Inv
<1> SUFFICES ASSUME Init PROVE Inv
    OBVIOUS
<1> USE CacheAssumption DEF CacheAssumption, Init, Rebuilding
<1>1. TypeOK
    <2>1. cache \in SUBSET [value : Nat, ttl : BOOLEAN] /\ lock \in SUBSET [owner : Locked, ttl : BOOLEAN]
        OBVIOUS
    <2>2. polls \in [Readers -> 0 .. MaxPolls]
        OBVIOUS
    <2>3. value \in [Readers -> Nat \cup {None}]
        OBVIOUS
    <2> QED BY <2>1, <2>2, <2>3 DEF TypeOK
<1>2. Shape
    BY DEF Shape
<1>3. OnlyOwnerRebuilds /\ FillsAccounted
    BY DEF OnlyOwnerRebuilds, FillsAccounted
<1> QED BY <1>1, <1>2, <1>3 DEF Inv

LEMMA ReadInv == ASSUME Inv, NEW r \in Readers, Read(r) \/ Crash(r) PROVE Inv'
<1> USE CacheAssumption
    DEF CacheAssumption, Inv, TypeOK, Shape, OnlyOwnerRebuilds, FillsAccounted, Filling, Rebuilding,
        Goto, None, data, UsesLock
<1>1. CASE Hit(r) \/ Bypass(r)
    BY <1>1 DEF Hit, Bypass
<1>2. CASE Miss(r) \/ FailToAcquire(r) \/ MissPoll(r) \/ Crash(r)
    BY <1>2 DEF Miss, FailToAcquire, MissPoll, Crash
<1>3. CASE Acquire(r)
    BY <1>3 DEF Acquire
<1>4. CASE MissAgain(r)
    BY <1>4 DEF MissAgain
<1>5. CASE Rebuild(r) \/ FallBack(r)
    BY <1>5 DEF Rebuild, FallBack
<1>6. CASE FailToRebuild(r)
    BY <1>6 DEF FailToRebuild, AfterRebuild
<1>7. CASE Store(r)
    <2> USE <1>7 DEF Store, AfterRebuild
    <2>1. value[r] \in Nat
        OBVIOUS
    <2>2. TypeOK'
        BY <2>1
    <2>3. Shape' /\ OnlyOwnerRebuilds'
        OBVIOUS
    <2>4. CASE UsesLock(r)
        <3>1. ~early => fills <= drops
            BY <2>4
        <3>2. ASSUME ~early, NEW s \in Locked, s # r, UsesLock(s) PROVE at[s] \notin Rebuilding
            <4> SUFFICES ASSUME at[s] \in Rebuilding PROVE FALSE
                OBVIOUS
            <4>1. lock # {} /\ (\A l \in lock : l.owner = r) /\ (\A l \in lock : l.owner = s)
                BY <2>4, <3>2
            <4> QED BY <4>1, <3>2
        <3>3. ~early => Filling' = {}
            BY <2>4, <3>2
        <3>4. cache' # {} /\ early' = early /\ drops' = drops /\ fills' = fills + 1
            BY <2>4
        <3>5. FillsAccounted'
            <4> HIDE DEF Filling, Store
            <4> QED BY <3>1, <3>3, <3>4
        <3> QED BY <2>2, <2>3, <3>5
    <2>5. CASE ~UsesLock(r)
        <3>1. Filling' = Filling /\ cache' # {}
            BY <2>5
        <3> QED BY <2>2, <2>3, <2>5, <3>1
    <2> QED BY <2>4, <2>5
<1>8. CASE Release(r)
    BY <1>8 DEF Release
<1> QED BY <1>1, <1>2, <1>3, <1>4, <1>5, <1>6, <1>7, <1>8 DEF Read

LEMMA RedisInv == ASSUME Inv, ExpireLock \/ ExpireCache PROVE Inv'
<1> USE CacheAssumption
    DEF CacheAssumption, Inv, TypeOK, Shape, OnlyOwnerRebuilds, FillsAccounted, Filling, Rebuilding,
        reader, None, data, UsesLock
<1>1. CASE ExpireLock
    BY <1>1 DEF ExpireLock
<1>2. CASE ExpireCache
    BY <1>2 DEF ExpireCache, Drop
<1> QED BY <1>1, <1>2

LEMMA WriteInv == ASSUME Inv, NEW w \in Writers, Write(w) PROVE Inv'
<1> USE DEF Inv, TypeOK, Shape, OnlyOwnerRebuilds, FillsAccounted, Filling, Rebuilding,
        reader, None, data, UsesLock
<1>1. CASE Save(w) \/ CrashWriter(w)
    BY <1>1 DEF Save, CrashWriter
<1>2. CASE RefuseReview(w)
    BY <1>2 DEF RefuseReview
<1>3. CASE SaveReview(w)
    <2>1. reviewed' \in BOOLEAN
        BY <1>3, Zenon DEF SaveReview
    <2>2. UNCHANGED <<key, cache, lock, at, value, polls, early, fills, drops>>
        BY <1>3 DEF SaveReview
    <2>3. db' \in Nat /\ writer' \in [Writers -> {"start", "saved", "done", "crashed"}]
        BY <1>3 DEF SaveReview
    <2> QED BY <2>1, <2>2, <2>3
<1>4. CASE Sell(w)
    BY <1>4 DEF Sell
<1>5. CASE Invalidate(w)
    BY <1>5 DEF Invalidate, Drop
<1> QED BY <1>1, <1>2, <1>3, <1>4, <1>5 DEF Write

LEMMA NextInv == Inv /\ [Next]_vars => Inv'
<1> SUFFICES ASSUME Inv, [Next]_vars PROVE Inv'
    OBVIOUS
<1>1. ASSUME UNCHANGED vars PROVE Inv'
    BY <1>1 DEF vars, data, reader, Inv, TypeOK, Shape, OnlyOwnerRebuilds, FillsAccounted,
       Filling, UsesLock
<1> QED BY <1>1, ReadInv, RedisInv, WriteInv DEF Next, Finished

THEOREM Invariance == Spec => []Inv
BY InitInv, NextInv, PTL DEF Spec

\* Every variable of the cache protocol keeps its type; in particular no
\* request polls more often than its wait budget allows.
THEOREM TypeCorrect == Spec => []TypeOK
<1>1. Inv => TypeOK
    BY DEF Inv
<1> QED BY <1>1, Invariance, PTL

\* Until a lock expires early, only its owner rebuilds.
THEOREM Exclusive == Spec => []OnlyOwnerRebuilds
<1>1. Inv => OnlyOwnerRebuilds
    BY DEF Inv
<1> QED BY <1>1, Invariance, PTL

\* Until a lock expires early, the key is filled once per time it was emptied.
THEOREM OneRebuild == Spec => []NoStampede
<1>1. Inv => NoStampede
    BY DEF Inv, FillsAccounted, NoStampede
<1> QED BY <1>1, Invariance, PTL

\* Locks expired early or not, no request takes away another's.
THEOREM NoTheft == Spec => OthersLockSurvives
<1> DEFINE Kept == \A r \in Readers : Owns(r) /\ ~Owns(r)' => at'[r] = "done" \/ UNCHANGED at
<1>1. Inv /\ [Next]_vars => [Kept]_vars
    <2> SUFFICES ASSUME Inv, Next, NEW s \in Readers, Owns(s), ~Owns(s)'
                 PROVE  at'[s] = "done" \/ UNCHANGED at
        OBVIOUS
    <2>1. ASSUME NEW r \in Readers, Read(r) \/ Crash(r) PROVE at'[s] = "done"
        <3>1. lock' # lock
            BY DEF Owns
        <3>2. Acquire(r) \/ Release(r)
            BY <2>1, <3>1 DEF Read, Hit, Miss, Bypass, FailToAcquire, MissAgain, Rebuild,
               FailToRebuild, Store, MissPoll, FallBack, Crash, vars
        <3>3. CASE Acquire(r)
            BY <3>3 DEF Acquire, Owns
        <3>4. CASE Release(r)
            BY <3>4 DEF Release, Owns, Goto, Inv, TypeOK
        <3> QED BY <3>2, <3>3, <3>4
    <2>2. ASSUME ExpireLock \/ ExpireCache PROVE UNCHANGED at
        BY <2>2 DEF ExpireLock, ExpireCache, reader
    <2>3. ASSUME NEW w \in Writers, Write(w) PROVE UNCHANGED at
        BY <2>3 DEF Write, Save, SaveReview, RefuseReview, Sell, Invalidate, CrashWriter, reader
    <2> QED BY <2>1, <2>2, <2>3 DEF Next, Finished, vars, reader
<1> QED BY <1>1, Invariance, PTL DEF Spec, OthersLockSurvives
----------------------------------------------------------------------------
(* The safety under the liveness properties. *)

\* Whatever Redis holds, it will forget.
RedisForgets == (\A l \in lock : l.ttl) /\ (\A e \in cache : e.ttl)

\* Neither a lock nor an entry of the key is ever written without a TTL, so
\* nobody has to come back for one: a crashed owner blocks the others, and a
\* wrong entry misleads them, for a limited time.
THEOREM NothingStays == Spec => []RedisForgets
<1>1. Init => RedisForgets
    BY DEF Init, RedisForgets
<1>2. RedisForgets /\ [Next]_vars => RedisForgets'
    <2> SUFFICES ASSUME RedisForgets, [Next]_vars PROVE RedisForgets'
        OBVIOUS
    <2> USE DEF RedisForgets
    <2>1. ASSUME NEW r \in Readers, Read(r) \/ Crash(r) PROVE RedisForgets'
        BY <2>1 DEF Read, Hit, Miss, Bypass, Acquire, FailToAcquire, MissAgain, Rebuild,
           FailToRebuild, Store, Release, MissPoll, FallBack, Crash
    <2>2. CASE ExpireLock \/ ExpireCache
        BY <2>2 DEF ExpireLock, ExpireCache, Drop
    <2>3. ASSUME NEW w \in Writers, Write(w) PROVE RedisForgets'
        BY <2>3 DEF Write, Save, SaveReview, RefuseReview, Sell, Invalidate, CrashWriter, Drop
    <2>4. CASE UNCHANGED vars
        BY <2>4 DEF vars
    <2> QED BY <2>1, <2>2, <2>3, <2>4 DEF Next, Finished
<1> QED BY <1>1, <1>2, PTL DEF Spec

\* No request stores what changed since it read it.
NoLateStore == [][\A r \in Readers : Store(r) => value[r] = db]_vars

\* A wrong entry has a writer that has not invalidated it, or died before it
\* could, or is a checkout, which never does.
StaleAccounted ==
    \A e \in cache : e.value # db =>
        \/ \E w \in Writers : writer[w] \in {"saved", "crashed"}
        \/ key = "top_selling_products" /\ \E w \in Writers : writer[w] = "done"

\* The lock does not keep entries fresh, and it need not: save, then invalidate
\* leaves a stale entry only while the writer is between the two, or died there,
\* or is a checkout, or a request stores late what it had read before.
THEOREM StaleOnlyBy == Spec /\ NoLateStore => []StaleAccounted
<1>1. Init => StaleAccounted
    BY DEF Init, StaleAccounted
<1> DEFINE Late == \A r \in Readers : Store(r) => value[r] = db
<1>2. TypeOK /\ StaleAccounted /\ [Next]_vars /\ [Late]_vars => StaleAccounted'
    <2> SUFFICES ASSUME TypeOK, StaleAccounted, [Next]_vars, [Late]_vars PROVE StaleAccounted'
        OBVIOUS
    <2> USE DEF TypeOK, StaleAccounted, data, reader
    <2>1. CASE UNCHANGED vars
        BY <2>1 DEF vars
    <2>2. ASSUME NEW r \in Readers, Store(r) PROVE StaleAccounted'
        <3>1. CASE Late
            <4>1. value[r] = db
                BY <2>2, <3>1
            <4> QED BY <2>2, <4>1 DEF Store
        <3> QED BY <2>1, <3>1
    <2>3. ASSUME NEW r \in Readers, Read(r) \/ Crash(r), ~Store(r) PROVE StaleAccounted'
        <3>1. UNCHANGED <<data, cache, writer>>
            BY <2>3 DEF Read, Hit, Miss, Bypass, Acquire, FailToAcquire, MissAgain, Rebuild,
               FailToRebuild, Release, MissPoll, FallBack, Crash
        <3> QED BY <3>1
    <2>4. CASE ExpireLock \/ ExpireCache
        BY <2>4 DEF ExpireLock, ExpireCache, Drop
    <2>5. ASSUME NEW w \in Writers, Save(w) \/ SaveReview(w) \/ CrashWriter(w) PROVE StaleAccounted'
        <3>1. writer'[w] \in {"saved", "crashed"}
            BY <2>5 DEF Save, SaveReview, CrashWriter
        <3> QED BY <3>1
    <2>6. ASSUME NEW w \in Writers, Sell(w) PROVE StaleAccounted'
        <3>1. writer'[w] = "done" /\ key' = "top_selling_products"
            BY <2>6 DEF Sell
        <3> QED BY <3>1
    <2>7. ASSUME NEW w \in Writers, Invalidate(w) PROVE StaleAccounted'
        BY <2>7 DEF Invalidate, Drop
    <2>8. ASSUME NEW w \in Writers, RefuseReview(w) PROVE StaleAccounted'
        <3>1. UNCHANGED <<data, cache>> /\ writer' = [writer EXCEPT ![w] = "done"] /\ writer[w] = "start"
            BY <2>8 DEF RefuseReview
        <3> QED BY <3>1
    <2> QED BY <2>1, <2>2, <2>3, <2>4, <2>5, <2>6, <2>7, <2>8 DEF Next, Finished, Write
<1> QED BY <1>1, <1>2, TypeCorrect, PTL DEF Spec, NoLateStore

\* The steps a request may still make.
StepsLeft(r) ==
    CASE at[r] = "start" -> MaxPolls + 7
      [] at[r] = "acquire" -> MaxPolls + 6
      [] at[r] = "wait" -> 1 + MaxPolls - polls[r]
      [] at[r] = "check" -> 4
      [] at[r] = "rebuild" -> 3
      [] at[r] = "store" -> 2
      [] at[r] = "release" -> 1
      [] OTHER -> 0

\* No step turns a request back: each of its own uses up one that was left, and
\* those of others, Redis among them, leave it as many.
TurnsEnd(r) ==
    /\ StepsLeft(r) \in Nat
    /\ StepsLeft(r)' <= StepsLeft(r)
    /\ (Read(r) \/ Crash(r)) => StepsLeft(r)' < StepsLeft(r)
ReadsShrink == [][\A r \in Readers : TurnsEnd(r)]_vars

\* A read ends after at most MaxPolls + 7 steps, however often the key is emptied
\* or the lock changes hands while it waits.
THEOREM ReadsEnd == Spec => ReadsShrink
<1>1. TypeOK /\ TypeOK' /\ [Next]_vars => [\A r \in Readers : TurnsEnd(r)]_vars
    <2> SUFFICES ASSUME TypeOK, TypeOK', Next, NEW r \in Readers PROVE TurnsEnd(r)
        OBVIOUS
    <2>0. /\ MaxPolls \in Nat
          /\ polls[r] \in 0 .. MaxPolls /\ polls'[r] \in 0 .. MaxPolls
        BY CacheAssumption DEF TypeOK
    <2>1. StepsLeft(r) \in Nat /\ StepsLeft(r)' \in Nat
        BY <2>0 DEF StepsLeft
    <2>2. ASSUME Read(r) \/ Crash(r) PROVE StepsLeft(r)' < StepsLeft(r)
        <3> USE <2>0 DEF StepsLeft, TypeOK, Goto, Rebuilding
        <3>1. CASE Hit(r) \/ Bypass(r) \/ Miss(r)
            BY <3>1 DEF Hit, Bypass, Miss
        <3>2. CASE Acquire(r) \/ FailToAcquire(r) \/ MissAgain(r) \/ Rebuild(r)
            BY <3>2 DEF Acquire, FailToAcquire, MissAgain, Rebuild
        <3>3. CASE FailToRebuild(r) \/ Store(r)
            BY <3>3 DEF FailToRebuild, Store, AfterRebuild
        <3>4. CASE Release(r) \/ MissPoll(r) \/ FallBack(r)
            BY <3>4 DEF Release, MissPoll, FallBack
        <3>5. CASE Crash(r)
            BY <3>5 DEF Crash
        <3> QED BY <2>2, <3>1, <3>2, <3>3, <3>4, <3>5 DEF Read
    <2>3. ASSUME ~(Read(r) \/ Crash(r)) PROVE StepsLeft(r)' = StepsLeft(r)
        <3>1. SUFFICES at'[r] = at[r] /\ polls'[r] = polls[r]
            BY DEF StepsLeft
        <3>2. ASSUME NEW s \in Readers, s # r, Read(s) \/ Crash(s)
              PROVE  at'[r] = at[r] /\ polls'[r] = polls[r]
            BY <3>2 DEF TypeOK, Goto, Read, Hit, Miss, Bypass, Acquire, FailToAcquire, MissAgain,
               Rebuild, FailToRebuild, Store, Release, MissPoll, FallBack, Crash
        <3>3. ASSUME ~ \E s \in Readers : Read(s) \/ Crash(s) PROVE UNCHANGED reader
            BY <3>3 DEF Next, Finished, vars, ExpireLock, ExpireCache, Write, Save, SaveReview,
               RefuseReview, Sell, Invalidate, CrashWriter
        <3> QED BY <2>3, <3>2, <3>3 DEF reader
    <2> QED BY <2>1, <2>2, <2>3 DEF TurnsEnd
<1> QED BY <1>1, TypeCorrect, PTL DEF Spec, ReadsShrink
============================================================================
