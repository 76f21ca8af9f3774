---------------------------- MODULE ShardedStore ----------------------------
(***************************************************************************)
(* The sharded key store behind the in-memory limiters                     *)
(* (src/memory/sharded_store.go).  Goroutines call withState(key, now, fn) *)
(* concurrently; a key lives in the shard its hash selects, each shard has *)
(* a mutex, and one atomic counter, live, bounds the number of keys over   *)
(* all shards.  Every step below is one atomic access to state another     *)
(* goroutine can observe; work on a shard done under its lock is cut only  *)
(* where it touches live.                                                  *)
(***************************************************************************)
EXTENDS Integers, FiniteSets

CONSTANTS
  Threads,           \* goroutines calling Allow
  Keys,              \* limiter keys
  Hash,              \* fnv1a64, as a function from Keys to Nat
  ShardCount,        \* WithShards
  Eviction,          \* WithEviction: "reject" (EvictReject) or "lru" (EvictLRU)
  MaxKeys,           \* WithMaxKeys; 0 is unlimited
  KeyTTL,            \* WithKeyTTL, in clock ticks; 0 disables expiry
  CleanupInterval,   \* WithCleanupInterval, in clock ticks
  CleanupBatchSize,  \* cleanupBatchSize
  MaxTime,           \* bound on the clock
  NoOne              \* owner of a free mutex

\* options.validate and applyDefaults: what a constructor accepts.
ValidOptions ==
  /\ Eviction \in {"reject", "lru"}
  /\ MaxKeys \in Nat
  /\ KeyTTL \in Nat
  /\ CleanupInterval \in Nat
  /\ KeyTTL > 0 => CleanupInterval > 0
  /\ ShardCount \in {1, 2, 4, 8, 16, 32, 64, 128, 256, 512, 1024}

ASSUME OptionsAssumption == ValidOptions
ASSUME HashAssumption == Hash \in [Keys -> Nat]
ASSUME BatchAssumption == CleanupBatchSize \in Nat \ {0}
ASSUME FiniteAssumption == IsFiniteSet(Threads) /\ IsFiniteSet(Keys)
ASSUME KeysAssumption == Keys # {}
ASSUME NoOneAssumption == NoOne \notin Threads
ASSUME TimeAssumption == MaxTime \in Nat

VARIABLES
  clock,        \* what clock.Now() returns
  items,        \* keys stored: items (EvictReject) or orderItems (EvictLRU)
  lastSeen,     \* lastSeen of a key's entry
  ahead,        \* the order lists: <<a, b>> when a is nearer the front than b
  lock,         \* shard -> goroutine holding shard.mu
  lastCleanup,  \* shard.lastCleanup
  live,         \* shardedStore.live
  evicts,       \* shardedStore.evicts
  sweepMu,      \* goroutine holding sweepMu
  lastSweep,    \* shardedStore.lastSweep
  pc,           \* where each goroutine is
  key,          \* argument key of its call
  now,          \* argument now of its call
  n,            \* live as loaded in reserveSlot; evictions left to report
  swept,        \* reserveSlot's local of that name
  idx,          \* next shard of sweepExpired or evictAnyOther
  site,         \* where cleanupMap/cleanupLRU was called from
  expired,      \* keys cleanup has collected and not yet deleted
  res           \* what withState returned

shardVars  == <<items, lastSeen, ahead, lastCleanup>>
localVars  == <<key, now, n, swept, idx, site, expired, res>>
vars == <<clock, items, lastSeen, ahead, lock, lastCleanup, live, evicts,
          sweepMu, lastSweep, pc, key, now, n, swept, idx, site, expired, res>>

Shards == 0 .. (ShardCount - 1)

\* The shard count is a power of two, so the mask is a remainder.
shardFor(k) == Hash[k] % ShardCount

Self(t) == shardFor(key[t])
InShard(s) == {k \in items : shardFor(k) = s}

\* The zero time.Time: now.Sub saturates, so every interval has passed since.
LongAgo == 0 - CleanupInterval

\* What the key local of a goroutine outside Allow holds; never read.
AnyKey == CHOOSE k \in Keys : TRUE

PCs == {"idle", "lock", "scan", "delete", "load", "cas", "full", "recheck",
        "fn", "sweep", "sweepNext", "check", "evictNext", "relock", "ret",
        "fire"}
-----------------------------------------------------------------------------
\* Fault: Remove leaves the element behind its predecessors.
WithoutHead(k) == {p \in ahead : p[1] # k}

\* container/list: MoveToFront and PushFront, Remove, Back.
Without(k) == {p \in ahead : p[1] # k /\ p[2] # k}

ToFront(k) ==
  IF Eviction = "lru"
  THEN Without(k) \cup {<<k, x>> : x \in InShard(shardFor(k)) \ {k}}
  ELSE ahead

IsBack(k) == \A x \in InShard(shardFor(k)) \ {k} : <<x, k>> \in ahead

\* keyEntry/lruEntry of k goes out of its shard, and its slot is released.
Delete(k) ==
  /\ items' = items \ {k}
  /\ lastSeen' = [lastSeen EXCEPT ![k] = 0]
  /\ ahead' = Without(k)
  /\ live' = live - 1

\* Fault: the eviction is not counted.
EvictQuietly(s) ==
  /\ \E k \in InShard(s) : IsBack(k) /\ Delete(k)
  /\ UNCHANGED evicts

\* evictFrom on a non-empty shard s.
EvictFrom(s) ==
  \E k \in InShard(s) :
    /\ IsBack(k)
    /\ Delete(k)
    /\ evicts' = evicts + 1

\* Faults: lastSeen is not refreshed; the deadline is stored for the time.
TouchOrderOnly(t) ==
  /\ UNCHANGED lastSeen
  /\ ahead' = ToFront(key[t])

TouchDeadline(t) ==
  /\ lastSeen' = [lastSeen EXCEPT ![key[t]] = now[t] + KeyTTL]
  /\ ahead' = ToFront(key[t])

\* The request refreshes its entry: lastSeen = now, and MoveToFront.
Touch(t) ==
  /\ lastSeen' = [lastSeen EXCEPT ![key[t]] = now[t]]
  /\ ahead' = ToFront(key[t])

Goto(t, where) == pc' = [pc EXCEPT ![t] = where]
\* Fault: the unlock is forgotten.
StaysLocked(s) == UNCHANGED lock

Unlock(s) == lock' = [lock EXCEPT ![s] = NoOne]
Acquire(t, s) ==
  /\ lock[s] = NoOne
  /\ lock' = [lock EXCEPT ![s] = t]
-----------------------------------------------------------------------------
\* Allow reads the clock before it takes the shard lock.
Call(t, k) ==
  /\ pc[t] = "idle"
  /\ key' = [key EXCEPT ![t] = k]
  /\ now' = [now EXCEPT ![t] = clock]
  /\ Goto(t, "lock")
  /\ UNCHANGED <<clock, shardVars, lock, live, evicts, sweepMu, lastSweep,
                 n, swept, idx, site, expired, res>>

\* withState takes the lock; getOrCreate looks the key up and, on a hit,
\* refreshes it.  Either way it calls cleanup next.
Lookup(t) ==
  /\ pc[t] = "lock"
  /\ Acquire(t, Self(t))
  /\ IF key[t] \in items
     THEN Touch(t) /\ site' = [site EXCEPT ![t] = "hit"]
     ELSE /\ site' = [site EXCEPT ![t] = "miss"]
          /\ UNCHANGED <<lastSeen, ahead>>
  /\ Goto(t, "scan")
  /\ UNCHANGED <<clock, items, lastCleanup, live, evicts, sweepMu, lastSweep,
                 key, now, n, swept, idx, expired, res>>

\* cleanupMap and cleanupLRU.
CleaningShard(t) == IF site[t] = "sweep" THEN idx[t] ELSE Self(t)

CleanupDisabled == KeyTTL = 0 \/ CleanupInterval = 0

CleanupDue(t, s) ==
  /\ ~CleanupDisabled
  /\ now[t] - lastCleanup[s] >= CleanupInterval

\* Ranging over a map visits any entries; the list is read from its front.
ScannedSets(s) ==
  IF Eviction = "lru"
  THEN {{k \in InShard(s) :
           Cardinality({x \in InShard(s) : <<x, k>> \in ahead})
             < CleanupBatchSize}}
  ELSE {b \in SUBSET InShard(s) :
          \/ Cardinality(b) = CleanupBatchSize
          \/ b = InShard(s) /\ Cardinality(b) < CleanupBatchSize}

\* Fault: a key goes one tick early.
IsExpiredEarly(k, at) == at - lastSeen[k] >= KeyTTL - 1

IsExpired(k, at) == at - lastSeen[k] >= KeyTTL

Scan(t) ==
  /\ pc[t] = "scan"
  /\ LET s == CleaningShard(t) IN
       IF CleanupDue(t, s)
       THEN /\ lastCleanup' = [lastCleanup EXCEPT ![s] = now[t]]
            /\ \E scanned \in ScannedSets(s) :
                 expired' = [expired EXCEPT ![t] =
                               {k \in scanned : IsExpired(k, now[t])}]
       ELSE UNCHANGED <<lastCleanup, expired>>
  /\ Goto(t, "delete")
  /\ UNCHANGED <<clock, items, lastSeen, ahead, lock, live, evicts, sweepMu,
                 lastSweep, key, now, n, swept, idx, site, res>>

\* One expired key deleted, and live decremented.
DeleteExpired(t) ==
  /\ pc[t] = "delete"
  /\ \E k \in expired[t] :
       /\ expired' = [expired EXCEPT ![t] = @ \ {k}]
       /\ IF k \in items
          THEN Delete(k)
          ELSE UNCHANGED <<items, lastSeen, ahead, live>>
  /\ UNCHANGED <<clock, lock, lastCleanup, evicts, sweepMu,
                 lastSweep, pc, key, now, n, swept, idx, site, res>>

\* Cleanup returns to its caller: a hit goes on to fn, a miss to reserveSlot,
\* and sweepExpired unlocks the shard and moves to the next one.
CleanupDone(t) ==
  /\ pc[t] = "delete"
  /\ expired[t] = {}
  /\ \/ /\ site[t] = "hit"
        /\ Goto(t, "fn")
        /\ UNCHANGED <<lock, idx>>
     \/ /\ site[t] = "miss"
        /\ Goto(t, "load")
        /\ UNCHANGED <<lock, idx>>
     \/ /\ site[t] = "sweep"
        /\ Unlock(idx[t])
        /\ idx' = [idx EXCEPT ![t] = @ + 1]
        /\ Goto(t, "sweepNext")
  /\ UNCHANGED <<clock, shardVars, live, evicts, sweepMu, lastSweep,
                 key, now, n, swept, site, expired, res>>
-----------------------------------------------------------------------------
\* reserveSlot: the unlimited store only counts; otherwise load live and
\* either try to take a slot or handle the full store.
Load(t) ==
  /\ pc[t] = "load"
  /\ IF MaxKeys = 0
     THEN /\ live' = live + 1
          /\ Goto(t, "recheck")
          /\ UNCHANGED n
     ELSE /\ n' = [n EXCEPT ![t] = live]
          /\ Goto(t, IF live < MaxKeys THEN "cas" ELSE "full")
          /\ UNCHANGED live
  /\ UNCHANGED <<clock, shardVars, lock, evicts, sweepMu, lastSweep,
                 key, now, swept, idx, site, expired, res>>

\* Fault: a store instead of the compare-and-swap.
StoresAnyway(t) == TRUE

\* live.CompareAndSwap(n, n+1) succeeds.
Swaps(t) == live = n[t]

CompareAndSwap(t) ==
  /\ pc[t] = "cas"
  /\ IF Swaps(t)
     THEN live' = n[t] + 1 /\ Goto(t, "recheck")
     ELSE Goto(t, "load") /\ UNCHANGED live
  /\ UNCHANGED <<clock, shardVars, lock, evicts, sweepMu, lastSweep,
                 localVars>>

\* Full, EvictLRU, and this shard has a key: evict its tail and try again.
EvictLocal(t) ==
  /\ pc[t] = "full"
  /\ Eviction = "lru"
  /\ EvictFrom(Self(t))
  /\ Goto(t, "load")
  /\ UNCHANGED <<clock, lock, lastCleanup, sweepMu, lastSweep, localVars>>

\* Fault: the shard stays locked during the sweep.
KeepsShard(t) ==
  /\ pc[t] = "full"
  /\ \/ Eviction = "lru" /\ InShard(Self(t)) = {}
     \/ Eviction = "reject" /\ ~swept[t]
  /\ swept' = [swept EXCEPT ![t] = TRUE]
  /\ Goto(t, IF swept[t] THEN "check" ELSE "sweep")
  /\ UNCHANGED <<clock, shardVars, lock, live, evicts, sweepMu, lastSweep,
                 key, now, n, idx, site, expired, res>>

\* Full otherwise: unlock, and sweep the first time round.
LeaveShard(t) ==
  /\ pc[t] = "full"
  /\ \/ Eviction = "lru" /\ InShard(Self(t)) = {}
     \/ Eviction = "reject" /\ ~swept[t]
  /\ Unlock(Self(t))
  /\ swept' = [swept EXCEPT ![t] = TRUE]
  /\ Goto(t, IF swept[t] THEN "check" ELSE "sweep")
  /\ UNCHANGED <<clock, shardVars, live, evicts, sweepMu, lastSweep,
                 key, now, n, idx, site, expired, res>>

\* Still full after the sweep, EvictReject: ErrMaxKeysExceeded.
Reject(t) ==
  /\ pc[t] = "full"
  /\ Eviction = "reject"
  /\ swept[t]
  /\ Unlock(Self(t))
  /\ res' = [res EXCEPT ![t] = "err"]
  /\ Goto(t, "ret")
  /\ UNCHANGED <<clock, shardVars, live, evicts, sweepMu, lastSweep,
                 key, now, n, swept, idx, site, expired>>

AfterSweep == IF Eviction = "lru" THEN "check" ELSE "relock"

SweepDue(t) == now[t] - lastSweep >= CleanupInterval

\* sweepExpired: disabled, rate limited, or started under sweepMu.
Sweep(t) ==
  /\ pc[t] = "sweep"
  /\ \/ /\ CleanupDisabled
        /\ Goto(t, AfterSweep)
        /\ UNCHANGED <<sweepMu, lastSweep, idx>>
     \/ /\ ~CleanupDisabled
        /\ sweepMu = NoOne
        /\ IF SweepDue(t)
           THEN /\ sweepMu' = t
                /\ lastSweep' = now[t]
                /\ idx' = [idx EXCEPT ![t] = 0]
                /\ Goto(t, "sweepNext")
           ELSE /\ Goto(t, AfterSweep)
                /\ UNCHANGED <<sweepMu, lastSweep, idx>>
  /\ UNCHANGED <<clock, shardVars, lock, live, evicts,
                 key, now, n, swept, site, expired, res>>

SweepShard(t) ==
  /\ pc[t] = "sweepNext"
  /\ idx[t] < ShardCount
  /\ Acquire(t, idx[t])
  /\ site' = [site EXCEPT ![t] = "sweep"]
  /\ Goto(t, "scan")
  /\ UNCHANGED <<clock, shardVars, live, evicts, sweepMu, lastSweep,
                 key, now, n, swept, idx, expired, res>>

SweepDone(t) ==
  /\ pc[t] = "sweepNext"
  /\ idx[t] = ShardCount
  /\ sweepMu' = NoOne
  /\ Goto(t, AfterSweep)
  /\ UNCHANGED <<clock, shardVars, lock, live, evicts, lastSweep, localVars>>

\* EvictLRU, no lock held: evict elsewhere when the store is still full.
CheckFull(t) ==
  /\ pc[t] = "check"
  /\ Goto(t, IF live >= MaxKeys THEN "evictNext" ELSE "relock")
  /\ idx' = [idx EXCEPT ![t] = 0]
  /\ UNCHANGED <<clock, shardVars, lock, live, evicts, sweepMu, lastSweep,
                 key, now, n, swept, site, expired, res>>

\* evictAnyOther: lock, evictFrom and unlock the next other shard.
EvictOther(t) ==
  /\ pc[t] = "evictNext"
  /\ idx[t] < ShardCount
  /\ idx[t] # Self(t)
  /\ lock[idx[t]] = NoOne
  /\ EvictFrom(idx[t])
  /\ Goto(t, "relock")
  /\ UNCHANGED <<clock, lock, lastCleanup, sweepMu, lastSweep, localVars>>

\* ... which is this goroutine's own shard, or is empty.
SkipShard(t) ==
  /\ pc[t] = "evictNext"
  /\ idx[t] < ShardCount
  /\ \/ idx[t] = Self(t)
     \/ lock[idx[t]] = NoOne /\ InShard(idx[t]) = {}
  /\ idx' = [idx EXCEPT ![t] = @ + 1]
  /\ UNCHANGED <<clock, shardVars, lock, live, evicts, sweepMu, lastSweep,
                 pc, key, now, n, swept, site, expired, res>>

NothingToEvict(t) ==
  /\ pc[t] = "evictNext"
  /\ idx[t] = ShardCount
  /\ Goto(t, "relock")
  /\ UNCHANGED <<clock, shardVars, lock, live, evicts, sweepMu, lastSweep,
                 localVars>>

Relock(t) ==
  /\ pc[t] = "relock"
  /\ Acquire(t, Self(t))
  /\ Goto(t, "load")
  /\ UNCHANGED <<clock, shardVars, live, evicts, sweepMu, lastSweep,
                 localVars>>

\* Fault: a key created meanwhile is not noticed.
NotFound(t) == FALSE

Found(t) == key[t] \in items

\* The slot is reserved: the key may have been created while the lock was
\* released, and then the slot is given back; otherwise create the entry.
Recheck(t) ==
  /\ pc[t] = "recheck"
  /\ Touch(t)
  /\ IF Found(t)
     THEN live' = live - 1 /\ UNCHANGED items
     ELSE items' = items \cup {key[t]} /\ UNCHANGED live
  /\ Goto(t, "fn")
  /\ UNCHANGED <<clock, lock, lastCleanup, evicts, sweepMu, lastSweep,
                 localVars>>

\* fn decides on the key's state, then the deferred Unlock runs.
RunFn(t) ==
  /\ pc[t] = "fn"
  /\ Unlock(Self(t))
  /\ res' = [res EXCEPT ![t] = "ok"]
  /\ Goto(t, "ret")
  /\ UNCHANGED <<clock, shardVars, live, evicts, sweepMu, lastSweep,
                 key, now, n, swept, idx, site, expired>>

\* Fault: only a call that failed takes them.
TakenOnError(t) == IF res[t] = "err" THEN evicts ELSE 0

\* evicts.Swap(0)
Taken(t) == evicts

\* drainEvictions, with no lock held: take the pending evictions ...
Drain(t) ==
  /\ pc[t] = "ret"
  /\ n' = [n EXCEPT ![t] = Taken(t)]
  /\ evicts' = evicts - Taken(t)
  /\ Goto(t, "fire")
  /\ UNCHANGED <<clock, shardVars, lock, live, sweepMu, lastSweep,
                 key, now, swept, idx, site, expired, res>>

\* ... and call onEvict once for each.
FireEvict(t) ==
  /\ pc[t] = "fire"
  /\ n[t] > 0
  /\ n' = [n EXCEPT ![t] = @ - 1]
  /\ UNCHANGED <<clock, shardVars, lock, live, evicts, sweepMu, lastSweep, pc,
                 key, now, swept, idx, site, expired, res>>

\* The call is over and its locals are gone.
Return(t) ==
  /\ pc[t] = "fire"
  /\ n[t] = 0
  /\ Goto(t, "idle")
  /\ key' = [key EXCEPT ![t] = AnyKey]
  /\ now' = [now EXCEPT ![t] = 0]
  /\ swept' = [swept EXCEPT ![t] = FALSE]
  /\ idx' = [idx EXCEPT ![t] = 0]
  /\ site' = [site EXCEPT ![t] = "miss"]
  /\ res' = [res EXCEPT ![t] = "none"]
  /\ UNCHANGED <<clock, shardVars, lock, live, evicts, sweepMu, lastSweep,
                 n, expired>>

Tick ==
  /\ clock < MaxTime
  /\ clock' = clock + 1
  /\ UNCHANGED <<shardVars, lock, live, evicts, sweepMu, lastSweep, pc,
                 localVars>>
-----------------------------------------------------------------------------
Init ==
  /\ clock = 0
  /\ items = {}
  /\ lastSeen = [k \in Keys |-> 0]
  /\ ahead = {}
  /\ lock = [s \in Shards |-> NoOne]
  /\ lastCleanup = [s \in Shards |-> LongAgo]
  /\ live = 0
  /\ evicts = 0
  /\ sweepMu = NoOne
  /\ lastSweep = LongAgo
  /\ pc = [t \in Threads |-> "idle"]
  /\ key = [t \in Threads |-> AnyKey]
  /\ now = [t \in Threads |-> 0]
  /\ n = [t \in Threads |-> 0]
  /\ swept = [t \in Threads |-> FALSE]
  /\ idx = [t \in Threads |-> 0]
  /\ site = [t \in Threads |-> "miss"]
  /\ expired = [t \in Threads |-> {}]
  /\ res = [t \in Threads |-> "none"]

Step(t) ==
  \/ Lookup(t) \/ Scan(t) \/ DeleteExpired(t) \/ CleanupDone(t)
  \/ Load(t) \/ CompareAndSwap(t) \/ EvictLocal(t) \/ LeaveShard(t) \/ Reject(t)
  \/ Sweep(t) \/ SweepShard(t) \/ SweepDone(t)
  \/ CheckFull(t) \/ EvictOther(t) \/ SkipShard(t) \/ NothingToEvict(t)
  \/ Relock(t) \/ Recheck(t) \/ RunFn(t)
  \/ Drain(t) \/ FireEvict(t) \/ Return(t)

Next ==
  \/ Tick
  \/ \E t \in Threads : Step(t) \/ \E k \in Keys : Call(t, k)

Spec == Init /\ [][Next]_vars
-----------------------------------------------------------------------------
\* Every variable keeps its type; in particular lock owners and the locals
\* of a call are what the Go types allow.
TypeOK ==
  /\ clock \in 0 .. MaxTime
  /\ items \in SUBSET Keys
  /\ lastSeen \in [Keys -> 0 .. MaxTime]
  /\ ahead \in SUBSET (Keys \X Keys)
  /\ lock \in [Shards -> Threads \cup {NoOne}]
  /\ lastCleanup \in [Shards -> Int]
  /\ live \in Int
  /\ evicts \in Nat
  /\ sweepMu \in Threads \cup {NoOne}
  /\ lastSweep \in Int
  /\ pc \in [Threads -> PCs]
  /\ key \in [Threads -> Keys]
  /\ now \in [Threads -> 0 .. MaxTime]
  /\ n \in [Threads -> Int]
  /\ swept \in [Threads -> BOOLEAN]
  /\ idx \in [Threads -> 0 .. ShardCount]
  /\ site \in [Threads -> {"hit", "miss", "sweep"}]
  /\ expired \in [Threads -> SUBSET Keys]
  /\ res \in [Threads -> {"none", "ok", "err"}]

\* A goroutine is inside a shard's critical section.
Owns(t, s) ==
  \/ pc[t] \in {"load", "cas", "full", "recheck", "fn"} /\ s = Self(t)
  \/ pc[t] \in {"scan", "delete"} /\ s = CleaningShard(t)

Reserving == {t \in Threads : pc[t] = "recheck"}

\* "The live atomic counter keeps maxKeys exact across shards"
\* (sharded_store.go:32): live counts every stored key and every slot that a
\* goroutine has reserved and not yet turned into a key or given back.
LiveExact == live = Cardinality(items) + Cardinality(Reserving)

\* No interleaving of loads, compare-and-swaps, evictions and lock releases
\* stores, or reserves, more than maxKeys keys (eviction.go:12).
CapExact == MaxKeys > 0 => live <= MaxKeys /\ Cardinality(items) <= MaxKeys

\* reserveSlot and sweepExpired unlock and relock by hand around the deferred
\* Unlock of withState: a mutex is held exactly by the goroutine inside its
\* critical section, and nobody holds two shards at once ("single lock held
\* at any time, no nesting", sharded_store.go:204).
LockDiscipline ==
  /\ \A s \in Shards, t \in Threads : lock[s] = t <=> Owns(t, s)
  /\ \A t \in Threads : sweepMu = t <=>
       \/ pc[t] = "sweepNext"
       \/ pc[t] \in {"scan", "delete"} /\ site[t] = "sweep"

\* The next thing goroutine t does is to lock shard s.
WaitsFor(t, s) ==
  \/ pc[t] \in {"lock", "relock"} /\ s = Self(t)
  \/ pc[t] = "sweepNext" /\ s = idx[t]
  \/ pc[t] = "evictNext" /\ s = idx[t] /\ s # Self(t)

\* It waits for no mutex.
Running(t) ==
  pc[t] \notin {"idle", "sweep"} /\ \A s \in Shards : ~WaitsFor(t, s)

\* Sweeping, evicting elsewhere and taking the shard again never end in a
\* circle of goroutines ("no nesting, no deadlock", sharded_store.go:204): a
\* shard mutex that somebody waits for is held by a goroutine that waits for
\* nothing, and sweepMu by one that waits, if at all, for such a mutex.
WaitsEnd ==
  /\ \A t \in Threads, s \in Shards :
       WaitsFor(t, s) /\ lock[s] # NoOne =>
         \E u \in Threads : lock[s] = u /\ Running(u)
  /\ \A t \in Threads :
       pc[t] = "sweep" /\ sweepMu # NoOne =>
         \E u \in Threads :
           sweepMu = u /\ (Running(u) \/ \E s \in Shards : WaitsFor(u, s))

\* fn never runs on an entry that the goroutine's own cleanup, or anybody
\* else, has taken out of the store: its decision would be lost.
FnOnStoredKey ==
  \A t \in Threads : pc[t] = "fn" => key[t] \in items

\* The order list of a shard lists exactly its keys, each once: evictFrom
\* always finds a unique tail and cleanupLRU a unique prefix.
OrderIsTotal ==
  Eviction = "lru" =>
    /\ \A p \in ahead : {p[1], p[2]} \subseteq items
                       /\ shardFor(p[1]) = shardFor(p[2]) /\ p[1] # p[2]
    /\ \A a, b \in items : a # b /\ shardFor(a) = shardFor(b) =>
         (<<a, b>> \in ahead <=> <<b, a>> \notin ahead)
    /\ \A a, b, c \in items :
         <<a, b>> \in ahead /\ <<b, c>> \in ahead => <<a, c>> \in ahead

\* A stored key goes only when it has been unseen for keyTTL, or, under
\* EvictLRU, when maxKeys makes evictFrom run: no request loses its state to a
\* cleanup that used an older scan or a younger clock.
LeavesOnlyExpired ==
  [][\A k \in items \ items' :
       \/ KeyTTL > 0 /\ clock - lastSeen[k] >= KeyTTL
       \/ Eviction = "lru" /\ MaxKeys > 0 /\ evicts' = evicts + 1]_vars

\* Evictions are reported exactly once: an eviction still pending has a
\* goroutine that will run drainEvictions after it.
EvictionsWillDrain ==
  evicts > 0 => \E t \in Threads : pc[t] \notin {"idle", "fire"}

\* "ErrMaxKeysExceeded is returned when maxKeys is reached and the requested
\* key is new" (options.go:10).
RejectsOnlyNewKeys ==
  [][\A t \in Threads : res[t] = "none" /\ res'[t] = "err"
                           => key[t] \notin items]_vars

\* "EvictLRU evicts the least recently used key to make room for a new one"
\* (eviction.go:9): making room for a key never evicts that key.
KeepsRequestedKey ==
  [][\A t \in Threads : pc[t] = "full" /\ pc'[t] = "load" /\ key[t] \in items
                           => key[t] \in items']_vars
-----------------------------------------------------------------------------
\* withState implements the bounded key set of KeyStore: for its callers the
\* reservations, sweeps and lock releases never show.
callStatus ==
  [t \in Threads |-> IF pc[t] = "idle" THEN "idle"
                     ELSE IF res[t] = "none" THEN "busy" ELSE res[t]]

Promise == INSTANCE KeyStore WITH
  stored <- items, status <- callStatus, arg <- key,
  MayRefuse <- Eviction = "reject" /\ MaxKeys > 0,
  MayForget <- KeyTTL > 0 \/ (Eviction = "lru" /\ MaxKeys > 0)

\* The refinement of KeyStore by the sharded store.
ImplementsKeyStore == Promise!StoreSpec
=============================================================================
