---------------------------- MODULE MemoryAllow -----------------------------
(***************************************************************************)
(* Allow of the in-memory limiters around the store: what it reports to    *)
(* its MetricSink once withState has returned and the shard lock is free.  *)
(* The reports of concurrent calls mix; the first of a call leaves nothing *)
(* behind, and is one step with the read of len() after it.                *)
(* Calls are finitely many: reserveSlot retries whenever another goroutine *)
(* wins the slot it freed, so one call may be overtaken for as long as     *)
(* others keep coming; it must return once they stop.                      *)
(***************************************************************************)
EXTENDS ShardedStore, FiniteSetsExt

CONSTANT MaxCalls    \* bound on the calls made
ASSUME CallsAssumption == MaxCalls \in Nat

VARIABLES
  calls,      \* calls made
  phase,      \* how far each goroutine's reports are: "none", "told" or "set"
  count,      \* the len() it has read
  latest,     \* the goroutine whose len() was read last
  gauge,      \* the last SetKeys received
  settled,    \* that SetKeys carried the latest len() read
  evicted,    \* keys evictFrom has taken out
  onEvicts,   \* OnEvict reports received
  seen,       \* time of the latest request that touched a stored key
  late        \* stored keys that were touched out of clock order

sinkVars == <<phase, count, latest, gauge, settled, onEvicts>>
historyVars == <<evicted, seen, late>>
allVars == <<vars, calls, sinkVars, historyVars>>

\* Allow with a blank key: OnError, and the store is not touched.
AllowBlank(t) ==
  /\ pc[t] = "idle"
  /\ calls < MaxCalls
  /\ calls' = calls + 1
  /\ UNCHANGED <<vars, sinkVars, historyVars>>

AllowKey(t, k) ==
  /\ Call(t, k)
  /\ calls < MaxCalls
  /\ calls' = calls + 1
  /\ UNCHANGED <<sinkVars, historyVars>>

\* The step refreshes the entry of the goroutine's key.
Touches(t) ==
  \/ pc[t] = "lock" /\ key[t] \in items
  \/ pc[t] = "recheck"

\* What history keeps of a step of withState.
Remember(t) ==
  /\ evicted' = IF pc[t] \in {"full", "evictNext"}
                THEN evicted + Cardinality(items \ items') ELSE evicted
  /\ seen' = [k \in Keys |->
                IF k \notin items' THEN 0
                ELSE IF Touches(t) /\ k = key[t] /\ now[t] > seen[k]
                     THEN now[t] ELSE seen[k]]
  /\ late' = {k \in items' : \/ k \in late
                             \/ Touches(t) /\ k = key[t] /\ now[t] < seen[k]}

WithState(t) ==
  /\ pc[t] \notin {"ret", "fire"}
  /\ Step(t)
  /\ Remember(t)
  /\ UNCHANGED <<calls, sinkVars>>

\* Fault: the keys of one shard are counted.
lenOfShard == Cardinality(InShard(0))

len == live

\* The error or the decision is reported, from values no other goroutine can
\* reach, and the argument of SetKeys evaluated ...
Tell(t) ==
  /\ pc[t] = "ret"
  /\ phase[t] = "none"
  /\ count' = [count EXCEPT ![t] = len]
  /\ latest' = t
  /\ settled' = FALSE
  /\ phase' = [phase EXCEPT ![t] = "told"]
  /\ UNCHANGED <<vars, calls, gauge, onEvicts, historyVars>>

\* ... and the sink gets it, perhaps after the count of a later call.
SetKeys(t) ==
  /\ phase[t] = "told"
  /\ gauge' = count[t]
  /\ settled' = (latest = t)
  /\ phase' = [phase EXCEPT ![t] = "set"]
  /\ UNCHANGED <<vars, calls, count, latest, onEvicts, historyVars>>

\* drainEvictions fires OnEvict for each eviction it took, and Allow returns.
DrainEvictions(t) ==
  /\ phase[t] = "set"
  /\ \/ Drain(t) /\ UNCHANGED <<phase, count, onEvicts>>
     \/ FireEvict(t) /\ onEvicts' = onEvicts + 1 /\ UNCHANGED <<phase, count>>
     \/ /\ Return(t)
        /\ phase' = [phase EXCEPT ![t] = "none"]
        /\ count' = [count EXCEPT ![t] = 0]
        /\ UNCHANGED onEvicts
  /\ UNCHANGED <<calls, latest, gauge, settled, historyVars>>

AllowInit ==
  /\ Init
  /\ calls = 0
  /\ phase = [t \in Threads |-> "none"]
  /\ count = [t \in Threads |-> 0]
  /\ latest = NoOne
  /\ gauge = 0 /\ settled = TRUE
  /\ evicted = 0 /\ onEvicts = 0
  /\ seen = [k \in Keys |-> 0]
  /\ late = {}

Proceed(t) ==
  WithState(t) \/ Tell(t) \/ SetKeys(t) \/ DrainEvictions(t)

AllowNext ==
  \/ Tick /\ UNCHANGED <<calls, sinkVars, historyVars>>
  \/ \E t \in Threads :
       \/ AllowBlank(t)
       \/ \E k \in Keys : AllowKey(t, k)
       \/ Proceed(t)

\* A goroutine that can go on does.
AllowSpec ==
  /\ AllowInit
  /\ [][AllowNext]_allVars
  /\ \A t \in Threads : WF_allVars(Proceed(t))
-----------------------------------------------------------------------------
\* Every Allow returns: the hand-made unlock/relock of reserveSlot, the sweep
\* under sweepMu and the retry loops leave nobody blocked or spinning.
EveryCallReturns ==
  \A t \in Threads : pc[t] = "lock" ~> pc[t] = "idle"

Quiet == \A t \in Threads : pc[t] = "idle"

\* Evictions each goroutine has taken and not yet reported.
firing == [t \in Threads |-> IF pc[t] = "fire" THEN n[t] ELSE 0]

Total(f, S) == MapThenSumSet(LAMBDA x : f[x], S)

\* Evictions are counted under a shard lock and reported without one, by any
\* call: each is reported exactly once, whoever takes it from the counter.
EvictionsReported ==
  evicted = onEvicts + evicts + Total(firing, Threads)

\* "SetKeys reports the current number of tracked keys" (metrics.go:28): once
\* no call is under way, the gauge is the number of stored keys, provided the
\* count read last is the one received last.  Every change of the number of
\* keys, by cleanup and sweeps too, is followed by a report.
GaugeSettles ==
  Quiet /\ settled => gauge = Cardinality(items)

\* "how long an idle key is kept before it expires" (memory/options.go:70): a
\* key that is not evicted stays for keyTTL after the latest request for it,
\* when those requests got the lock in the order they read the clock.
FreshKept ==
  [][\A k \in items \ items' :
       evicts' = evicts /\ k \notin late => clock - seen[k] >= KeyTTL]_allVars
=============================================================================
