# Verification of the kaka rate limiters

TLA+ models of the rate-limiting library in `src/`: what TLC checks on small
instances, and what TLAPS proves for every value of the constants. Paths below
are relative to `src/`.

## The system

| part | source | what it does | here |
| --- | --- | --- | --- |
| limiter interface | `limiter.go`, `metrics.go` | `Allow(ctx, key)` returning `Result{Allowed, Remaining, RetryAfter}`; `MetricSink` | `Result` in the limiter modules; the sink's calls in `MemoryAllow`, `RedisClient`, `Layered` |
| key store | `memory/sharded_store.go`, `state_store.go`, `eviction.go`, `options.go` | keys in shards, a mutex each; one atomic counter bounds the keys over all shards; lazy cleanup, a global sweep, rejection or LRU eviction at the cap | `ShardedStore`, `KeyStore` |
| `Allow` of the in-memory limiters | `memory/token_bucket.go:65`, the same in the other two | `withState`, then the reports to the sink, without a lock | `MemoryAllow` |
| in-memory algorithms | `memory/token_bucket.go`, `leaky_bucket.go`, `sliding_window_log.go`, `numeric.go`, `clock.go` | the decision on the state of one key, run under its shard's lock | `Request`, `Numeric`, `TokenBucket`, `LeakyBucket`, `SlidingWindow` |
| Lua scripts | `redis/scripts/*.lua` | the same algorithms, atomic on a Redis key, in server time | `RedisKey` |
| Redis client | `redis/script.go`, `limiter.go`, `options.go`, the three limiters | EVALSHA with a cached SHA, reload on NOSCRIPT, degradation by `ErrorPolicy` | `RedisClient` |
| two-tier limiter | `layered/limiter.go` | the in-memory limiter first; unless it denies, Redis decides | `Layered` |
| middleware | `middleware/{http,gin,echo,fiber}` | asks a limiter per request, sets headers, denies or passes on | `Middleware`, `RetryHeader` |

A request enters an adapter, which derives a key from it and calls a limiter's
`Allow`. The in-memory `Allow` reads the clock *before* it takes the shard lock.
`withState` finds or creates the key's state and runs the algorithm on it under
the lock; the sink is told after the lock is released. Three consequences drive
the in-memory models: goroutines decide in another order than they read the
clock, `reserveSlot` gives the lock up in the middle of a call when the store is
full, and reports to the sink can overtake each other. The Redis limiters send one
script per call; there the hard part is what the network, the client library's
resends, the server's script cache, its clock and its key expiry do.

## Modules

Two towers. In memory: `ShardedStore` under `MemoryAllow`, and beside them the
algorithms, one key each. Distributed: `RedisClient`, extended by `Layered`,
extended by `Middleware`, and beside them `RedisKey`, the scripts on one key.

**ShardedStore** models `withState` with everything below it. One step is one
atomic access that another goroutine can observe. `pc` is the place in the
code: `lock` (`withState`), `scan`/`delete` (`cleanupMap`, `cleanupLRU`),
`load`/`cas`/`full`/`relock` (`reserveSlot`), `sweep`/`sweepNext`
(`sweepExpired`), `check`/`evictNext` (`evictAnyOther`), `recheck` (the second
lookup), `fn` (the decision), `ret`/`fire` (`drainEvictions`). Two goroutines
never share a shard's data without its lock, so work under the lock is cut only
where it touches `live`; `evictFrom` is one step, as is a lock, `evictFrom`,
unlock of another shard. The order lists are the relation `ahead`. The zero
`time.Time` is `LongAgo`. The sink is taken to be configured, so evictions are
drained; without one `drainEvictions` is not called and nothing reads the count.
The hash is a constant: results hold for every hash.

**KeyStore** is the abstract specification: an atomic, bounded set of keys.
`ShardedStore!ImplementsKeyStore` is the refinement, with reservations, sweeps
and lock releases hidden. It may refuse any call that is under way: `reject_race`
shows that this is what the store does.

**MemoryAllow** puts `Allow` around the store: blank keys, and the reports after
`withState`. `phase` says how far a call's reports are. The error or decision of
a call is reported from values no other goroutine can reach, so that report is
one step with the evaluation of `len()` that follows it, and is not recorded.
`SetKeys` is a step of its own, so counts can arrive out of order. `evicted`,
`seen`, `late`, `latest` and `settled` are history. Calls are finitely many,
with weak fairness, for `EveryCallReturns`.

**Request** is what the three in-memory algorithms share: read the clock, then
decide later. **Numeric** has the conversions of `numeric.go`. **TokenBucket**,
**LeakyBucket** and **SlidingWindow** are the algorithms on one key; `Forget` is
the store expiring or evicting it. `ShardedStore` justifies that a decision is
one step (`LockDiscipline`, `FnOnStoredKey`). `mark`, `granted`, `upto` and
`grants` belong to an observer and are never read by the algorithm. In
`LeakyBucket` the water of a key that is not stored is a placeholder, chosen so
that the mapping to `TokenBucket` is one expression. **RetryHeader** adds the
whole seconds the adapters make of a token bucket's `RetryAfter`.

**RedisKey** runs each script as one step (Redis does). Time goes in ticks, `Ms`
to a millisecond, and what the code cuts down to milliseconds is cut down:
`TIME`, the window and the TTL (`Milliseconds`). `real` is the time that has
really passed; `wall`, the server's clock, may step back but not jump ahead.
`Expire` is PEXPIRE taking effect. A request may be evaluated twice with the
same salt, which is what a resend is; salts of different requests are taken to
be different. `HSET` writes a Lua number with 17 digits, so the stored value
reads back as it was. The `remaining` a script returns is left out: nothing
depends on it.

**RedisClient** is `Script.Run` and the error path of `Allow`, which is the same
in the three limiters, with the script abstracted to a quota of each key. `call`
holds one record per goroutine: where it is, the reply under way, the result,
the reports made. Requests and replies are lost (`Lose`), a reply is not an
array of three integers (`Unreadable`), go-redis sends EVALSHA again (`Resend`),
the server loses its scripts but not its keys (`Flush`). A resend of SCRIPT LOAD
has no further effect and is not modelled. A resend charges again in this model,
as the bucket scripts do; the window script keeps its member across a resend,
and so charges less (`RedisKey`).

**Layered** puts the local tier in front, as a quota of each key that may also
fail, and adds the reports to the layered sink. **Middleware** puts an adapter
in front of that: the default `KeyFunc` of each (`http` takes the address with
the port), the error and denial paths, and whether the chain of handlers goes on.
A configuration is a record; the goroutines serve one client over a connection
each. `ended` counts the requests by what `Allow` returned and `served` those that
reached the next handler; both are history. Headers are left out here.

The `MC*` modules hold the constants of the TLC instances. Operators under a
`Fault:` comment are plausible wrong versions of the next definition. No
specification uses them. Substituting one for the definition must break the
property `PROJECT.json` pairs it with, which shows that the property depends on
that code.

Arithmetic is exact: amounts are integers, `One` units to a token or drop, so
that a tick refills a fraction of a token. Float rounding, and the epsilon of
`durationFromSecondsCeil`, are outside the models.

## Runs

| run | checks | instance | distinct states |
| --- | --- | --- | --- |
| `store_reject` | under EvictReject: counter, cap, refinement of `KeyStore` | 2 goroutines, 3 keys in 2 shards, cap 2, TTL 1, clock to 2 | 360,635 |
| `store_lru` | under EvictLRU: locks, no circular wait, entries under decision, order lists, pending evictions, what leaves the store, refinement | same | 835,756 |
| `memory_allow` | evictions reported once, the keys gauge, the life of a key, every call returns | 2 goroutines, 2 keys in 2 shards, cap 1, TTL 2, clock to 2, 3 calls | 422,476 |
| `token_bucket` | rate bound, exact RetryAfter and header, honest Remaining | capacity 11/5, rate 3/5, 2 ticks to a second, clock to 4 | 11,325 |
| `leaky_bucket` | same decisions and reports as the token bucket | capacity 7/3, rate 2/3, clock to 4 | 12,310 |
| `sliding_window` | log bound, limit, binary search, RetryAfter, Remaining | limit 3, window 3, clock to 5 | 37,403 |
| `redis_key` | the three scripts: bounds, rate, limit, retry | 3 requests, 10 ticks of half a millisecond, 2 clock steps back, window 2.5 ms, TTL 4.5 ms | 301,320 |
| `service` | adapters over the two tiers: charging, quota, reloads, reports, what a client is served, termination | 2 goroutines of one process, quotas 1, 2 requests, 2 script losses, 1 resend, 4 configurations | 333,493 |
| `reject_race`, `evict_race`, `window_over_admits`, `redis_window_ttl` | the disagreements below; each ends with a counterexample | | |

Why the bounds are enough for the cases of interest. Three keys over two shards
give a shard with two keys (an order list) and one that can be empty (the
cross-shard path); a cap below the number of keys makes every full path run; a
batch of one makes cleanup stop early; a TTL and an interval of one tick with a
clock to 2 let keys expire while calls are under way. In `memory_allow` three
calls by two goroutines are enough for a report overtaken by another call's and
for an eviction drained by a call that did not cause it. Capacities and rates
are not whole tokens, so rounding matters; a second of two ticks makes the
header round a second time. Half-millisecond ticks put the cut of `TIME`, of the
window and of the TTL inside the model. In `service` two script losses are what
a second NOSCRIPT needs, a quota of one makes the second request the interesting
one, and each adapter occurs in one configuration: between them they have, and
lack, an error handler, aborting handlers and fail-open, though not in
every combination. Two goroutines suffice for each race found; more
goroutines, several processes, `maxKeys = 0`, and the properties of one eviction
policy under the other, are covered by the theorems below. Symmetry is used for
goroutines in the store's safety runs and for requests in `redis_key`, never
with liveness. `memory_allow` and `service` make finitely many calls and then
stop, so deadlock is not checked there.

Fairness: `memory_allow` assumes that a goroutine that can take a step does so
(the Go scheduler, and mutexes that are released are granted); `service`
assumes that a goroutine that serves a request goes on, because go-redis ends
every command with a reply, an error or a timeout and bounds its resends. New
calls, clock ticks and script losses are not fair. `reserveSlot` can be
overtaken for as long as other calls keep coming, so `EveryCallReturns` is
stated for finitely many calls.

Conditions worth knowing.

- `GaugeSettles` is for the case that the count read last is received last. When
  two `SetKeys` swap, the gauge stays wrong until the next call.
- `FreshKept` leaves out keys whose requests reached the lock in another order
  than they read the clock: `lastSeen` then steps back and the key expires
  early.
- `AtMostLimitInOrder`, `SearchFindsFirst` and the window's `RetryAfterExact`
  and `RemainingHonest` are for grants in clock order; `window_over_admits`
  shows what happens otherwise.
- `RedisKey!WithinRate` is for no TTL, or one in which an empty bucket fills
  with two milliseconds to spare: one for `TIME`, one for the server that
  deletes in the millisecond a TTL ends. It grants the refill of less than one
  millisecond more than the real time, for the cut of `TIME`.
- `AtMostLimitKept` is for a TTL no shorter than the window, and for the window
  less a millisecond, which the cuts of `TIME` and of the window take away. Of a
  window of one millisecond or less it promises nothing: such a window becomes
  zero or one.
- The scripts' bucket `RetryAfterExact` is for a clock that has caught up with
  the key: after a step back the wait is too short. It is about the key as it is
  stored; one that expires during the wait is granted sooner.
- `ClientWithinQuota` holds of every configuration. The quota is exceeded only
  by what the configuration lets through without a decision (`LetThrough`):
  calls degraded under fail-open, errors without an `ErrorHandler`, and whatever
  gin handlers stop without aborting. Behind `http` it bounds each connection.
- `RunsExplained` and `QuotaAccounted` say where a grant can be lost: only in a
  reply that was lost.

## Where code and documentation differ

With a run that ends in a counterexample:

- `reject_race`: `memory/sharded_store.go:119` refuses a call without another
  lookup after the lock was released, so a stored key can be refused;
  `memory/options.go:10` says the error is for a new key.
- `evict_race`: `memory/sharded_store.go:199` can evict the requested key, which
  another goroutine has just created; `memory/eviction.go:9`.
- `window_over_admits`: `memory/sliding_window_log.go:110` appends in lock order,
  so the log can be unsorted and the binary search drops times still in the
  window; line 25 says at most limit requests.
- `redis_window_ttl`: `redis/scripts/sliding_window_log.lua:34` sets a TTL that
  may be shorter than the window; an idle key then forgets grants that still
  count. The default TTL is 30 minutes. `redis/sliding_window_log.go:21`.

Stated as a condition of a property that holds otherwise:

- `README.md:145` says adapters key on the client IP; `http` keys on
  `RemoteAddr`, port included (`middleware/http/middleware.go:33`), so a client
  has a quota for each connection.
- `layered/doc.go:8` says the distributed quota is never exceeded; fail-open,
  and adapters without an `ErrorHandler`, exceed it by configuration.
- A gin `DeniedHandler` that does not abort denies the request and lets the
  chain go on (`middleware/gin/middleware.go:83`).
- `metrics.go:28` and `memory/options.go:70`: see `GaugeSettles` and `FreshKept`.

Observed while modelling: `README.md:145` says denials carry `Retry-After`, and
the denial of a limiter that cannot reach Redis has none
(`redis/limiter.go:50`); L1 of `memory/invariants_test.go:80`, `0 <= water <=
capacity`, is tested on sequential requests, and with a negative elapsed time
the water of the leaky bucket can exceed the capacity (`TypeOK` has only the
lower half); a duplicate reservation makes the store look full for a moment;
`cleanupLRU` scans from the recently used end; EVALSHA network errors are
labelled `ErrScript`.

## Proofs

| theorem | statement | rests on |
| --- | --- | --- |
| `ShardedStoreProofs!TypeCorrect` | `TypeOK` | `TypeInv`: also the range of `idx` during a sweep |
| `!LocksDisciplined` | `LockDiscipline` | `TypeInv`; what a step does to the locks (`StepLockEffect`, `StepSweepEffect`) |
| `!CounterExact` | `LiveExact` | `CountEffect`: the five ways a step changes keys, reservations and `live` |
| `!CapHolds` | `CapExact` | `SlotInv`: a compare-and-swap starts from a count below the cap |
| `!FnSeesStoredKey` | `FnOnStoredKey` | `EntryInv`: keys about to be deleted have expired, a hit's entry is fresh |
| `!OrderKept` | `OrderIsTotal` | `OrderEffect`: a step removes a key from the order or moves one to its front |
| `!EvictionsDrained` | `EvictionsWillDrain` | `DrainEffect`: who evicts has yet to drain |
| `!NoCircularWait` | `WaitsEnd` | `LockDiscipline`: who holds a shard waits for nothing |
| `ShardedStoreRefinement!Refinement` | `ImplementsKeyStore` | `StoreInv` and `CappedInv` |
| `!KeysLeaveOnlyExpired` | `LeavesOnlyExpired` | the same |
| `MemoryAllowProofs!AllowUsesStore` | `AllowSpec => Spec` | every step of `Allow` is one of the store, or none |
| `!GaugeRight` | `GaugeSettles` | `ReportInv`; `LiveExact` of the store |
| `!FreshStays` | `FreshKept` | `SeenInv`; `KeysLeaveOnlyExpired` |
| `!EvictionsCounted` | `EvictionsReported` | `TotalChange`: a sum over goroutines moves with one of its terms |
| `TokenBucketProofs!BucketTyped`, `!RateBounded` | `TypeOK`, `WithinRate` | `BucketInv` |
| `!WaitSuffices`, `!HeaderSuffices`, `!RemainingTrue` | `RetryAfterExact`, `HeaderExact`, `RemainingHonest` | the lemmas on floor, ceiling and refill |
| `LeakyBucketProofs!LeakyTyped`, `!LeakyIsTokenBucket`, `!LeakyReports` | `TypeOK`, `ActsAsTokenBucket`, `SameReport` | `LeakIsRefill` |
| `SlidingWindowProofs!SearchCorrect` | what the binary search returns for any log | `LoopInv`, the invariant of the loop |
| `!WindowTyped`, `!LogStaysBounded` | `TypeOK`, `LogBounded` | `BoundInv` |
| `!LimitHolds`, `!SearchIsFirst`, `!WaitSuffices`, `!RemainingTrue` | `AtMostLimitInOrder`, `SearchFindsFirst`, `RetryAfterExact`, `RemainingHonest` | `WindowInv`; `SearchCorrect` |
| `RedisKeyProofs!KeyTyped`, `!RetryAfterOnServer` | `TypeOK`, `RetryAfterExact` | the cut of `TIME`; ceiling division |
| `!RateBoundedOnServer` | `WithinRate` | `RateInv` |
| `!WindowBoundedOnServer` | `AtMostLimitKept` | `WindowInv` |
| `MiddlewareProofs!ServiceTyped`, `!GrantsAccounted`, `!NoDoubleRun`, `!FailureNeedsFlush`, `!ClientBounded` | `TypeOK`, `QuotaAccounted`, `RunsExplained`, `NoScriptNeedsFlush`, `ClientWithinQuota` | `Inv` |
| `!VerdictsHeard` | `Reported` | `ToldInv`: what has been told, by the place of the call |

They hold for any finite sets of goroutines, processes and keys, any hash, any
options a constructor accepts, any quota, rate, window, TTL and configuration,
and any bound on time, calls, resends and losses. The assumptions are the named
`ASSUME`s of the modules, which TLC evaluates in the runs.

**The store.** The inductive invariant is `StoreInv`, the conjunction of
`TypeInv`, `LockDiscipline`, `EntryInv`, `SlotInv`, `LiveExact` and `ResultInv`.
None of the parts that matter is inductive alone. `LiveExact` needs that a
deleted key is stored and a created one is not, which needs the locks.
`FnOnStoredKey` needs that a goroutine's own cleanup cannot have collected the
key it has just touched, and that nobody else deletes in a shard it holds.

**Allow.** `GaugeSettles` speaks of the moment when nobody is calling; its
invariant `GaugeInv` speaks of all others: some call has yet to read the count,
or the count read last is `live`. Since every call that changes `live` reads it
afterwards, this is kept; with nobody calling no slot is reserved, and `LiveExact`
makes `live` the number of keys. `SeenInv` ties `lastSeen`, which the store
compares, to the latest request; the rest is the theorem on the store, which
applies because `AllowSpec` implies `Spec`.

`EvictionsReported` is a sum over the goroutines that are calling `onEvict`. It is
kept because an eviction raises `evicts`, a drain moves `evicts` into one term of
the sum, and each call of `onEvict` takes one from its own term.

**The buckets.** `WithinRate` is not inductive because it does not mention the
tokens left. `Conserved` adds them: grants since the mark, and the tokens, come
out of one full bucket and the refill since the mark. It survives a negative
elapsed time because that takes tokens out again. The leaky bucket gets the
bound by refinement, under `tokens = capacity - water`.

**The sliding window.** The search is modelled turn by turn (`Iterate`, `Loop`).
`LoopInv` has it that after `n` turns at most `len - n` entries are undecided,
which is why `len` turns are enough, that the answer so far is the entry behind
the undecided ones, and, in a sorted log, that everything before them is out of
the window and everything behind them in it. In an unsorted log only the range of
the answer is left, which is all that `TypeOK` and `LogBounded` need.
`AtMostLimitInOrder` is not inductive because it does not mention the log.
`OrderInv` ties the log to the grants: it is their end, what was dropped is a
window older than the latest grant, and grants `Limit` apart are a window apart,
so that no window holds more than `Limit`. A denied request, late or not, drops
nothing: it finds `Limit` entries in its window, and there are no more
(`DenyKeepsLog`).

**The scripts.** `RateInv` has the same idea with two complications. Time the
key has not seen yet (`Unseen`) counts as refill already earned, so a clock that
steps back only takes away. And a key that expires comes back full, so what was
spent must have been earned by then: at every moment the spending is at most
what is earned now plus what will be by the time the key expires. `WindowInv`
says that each grant still to be counted is in the sorted set, with a score not
older than its age but for the rounding, on a key that lives long enough.

**The service.** `Inv` relates the place of each call to its reply, its number
of script runs and its last load of the script (`CallInv`), accounts for every
grant, and bounds what the next handler has served a caller by the admitted
calls of its key and what the configuration lets through (`ServedInv`).
`Reported` speaks of calls that return; `ToldInv` says for every place how often
each event has been told: none while Redis is being asked, the verdict, with the
error and the callback if the call degraded, once it has answered, and one
verdict more when the layered limiter has passed it on. The error of the local
tier is left out, since it may come before any of these.

**Recursion and sums.** The library's induction theorems take a predicate as a
parameter, which the provers cannot instantiate. The lemmas on `Loop` and on
`MapThenSumSet` look at a least counterexample instead (`HasLeast`,
`SmallestSubset`): a set of numbers, or of finite sets by size, that is not empty
has a least member (`WFMin`), and that member leads to a contradiction.

Only model-checked: liveness (`EveryCallReturns`, `RequestAnswered`), which the
prover does not handle. `NoCircularWait` is the part of it that is a matter of
safety. Every other property of a passing run is proved.

## Not modelled

- Float arithmetic: the rounding of tokens and water, and the epsilon of
  `durationFromSecondsCeil`. The models are exact.
- The FNV hash of a key (any hash will do) and the text of blank-key validation.
- The constructors and option functions, beyond the options they accept, which
  the `ASSUME`s state; the defaults are not fixed, except where a note says so.
- A Redis server that restarts without its keys: every quota starts afresh.
- The `Retry-After` header apart from its seconds, `X-RateLimit-Remaining`, the
  `remaining` the scripts return, and the bodies of responses, which are copied
  from the result or fixed.
- `internal/contracttest`: test support without state of the system. What it
  expects follows from `RetryAfterExact`, `RemainingHonest` and the actions for
  blank keys.
- `benchmarks/`, `examples/`, `scripts/`: flag parsing, wiring and tools.
- A server clock that jumps ahead: it refills a bucket early, as any limiter
  that trusts the server's clock must.
- Redis replication and failover: the scripts see one server.
