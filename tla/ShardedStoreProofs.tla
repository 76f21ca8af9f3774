------------------------- MODULE ShardedStoreProofs -------------------------
(***************************************************************************)
(* Proofs about ShardedStore, for every set of goroutines and keys, every  *)
(* hash, shard count, policy, cap, TTL, interval, batch size and run time. *)
(***************************************************************************)
EXTENDS ShardedStore, FiniteSetTheorems, TLAPS

\* options.validate leaves at least one shard.
LEMMA ShardCountType == ShardCount \in Nat /\ ShardCount > 0
  BY OptionsAssumption DEF ValidOptions

\* shardFor always lands on a shard.
LEMMA ShardForType == \A k \in Keys : shardFor(k) \in Shards
  BY ShardCountType, HashAssumption DEF shardFor, Shards

\* The placeholder of an idle goroutine's key local is a key.
LEMMA AnyKeyType == AnyKey \in Keys
  BY KeysAssumption DEF AnyKey

\* Cleanup scans only entries of the shard it was given.
LEMMA ScannedInShard ==
  \A s : \A b \in ScannedSets(s) : b \subseteq InShard(s)
  BY Zenon DEF ScannedSets

-----------------------------------------------------------------------------
\* The shard a sweep is cleaning exists.
IdxInRange ==
  \A t \in Threads :
    pc[t] \in {"scan", "delete"} /\ site[t] = "sweep" => idx[t] < ShardCount

TypeInv == TypeOK /\ IdxInRange

\* newShardedStore builds a store of the right types.
LEMMA InitType == Init => TypeInv
  BY ShardCountType, AnyKeyType, OptionsAssumption, TimeAssumption
     DEF Init, TypeInv, TypeOK, IdxInRange, LongAgo, PCs, ValidOptions

\* No step of any operation leaves the types.
LEMMA StepType ==
  TypeInv /\ [Next]_vars => TypeInv'
  <1> SUFFICES ASSUME TypeInv, [Next]_vars PROVE TypeInv'
    OBVIOUS
  <1> USE ShardCountType, ShardForType, TimeAssumption
      DEF TypeInv, TypeOK, IdxInRange, Goto, Acquire, Unlock, PCs,
          shardVars, localVars
  <1>1. CASE Tick
    BY <1>1 DEF Tick
  <1>2. ASSUME NEW t \in Threads, NEW k \in Keys, Call(t, k) PROVE TypeInv'
    BY <1>2 DEF Call
  <1>3. ASSUME NEW t \in Threads, Step(t) PROVE TypeInv'
    <2>1. CASE Lookup(t)
      BY <2>1, SMTT(60) DEF Lookup, Touch, ToFront, Without, InShard, Self
    <2>2. CASE Scan(t)
      BY <2>2, ScannedInShard, SMTT(60) DEF Scan, CleaningShard, Self, InShard
    <2>3. CASE DeleteExpired(t)
      BY <2>3 DEF DeleteExpired, Delete, Without
    <2>4. CASE CleanupDone(t)
      BY <2>4 DEF CleanupDone
    <2>5. CASE Load(t)
      BY <2>5 DEF Load
    <2>6. CASE CompareAndSwap(t)
      BY <2>6 DEF CompareAndSwap, Swaps
    <2>7. CASE EvictLocal(t)
      BY <2>7 DEF EvictLocal, EvictFrom, Delete, Without, InShard
    <2>8. CASE LeaveShard(t)
      BY <2>8, Zenon DEF LeaveShard
    <2>9. CASE Reject(t)
      BY <2>9, Zenon DEF Reject
    <2>10. CASE Sweep(t)
      BY <2>10 DEF Sweep, AfterSweep
    <2>11. CASE SweepShard(t)
      BY <2>11, Zenon DEF SweepShard
    <2>12. CASE SweepDone(t)
      BY <2>12 DEF SweepDone, AfterSweep
    <2>13. CASE CheckFull(t)
      BY <2>13, SMTT(60) DEF CheckFull
    <2>14. CASE EvictOther(t)
      BY <2>14, SMTT(60) DEF EvictOther, EvictFrom, Delete, Without, InShard
    <2>15. CASE SkipShard(t)
      BY <2>15 DEF SkipShard
    <2>16. CASE NothingToEvict(t)
      BY <2>16 DEF NothingToEvict
    <2>17. CASE Relock(t)
      BY <2>17, Zenon DEF Relock
    <2>18. CASE Recheck(t)
      BY <2>18 DEF Recheck, Found, Touch, ToFront, Without, InShard
    <2>19. CASE RunFn(t)
      BY <2>19, Zenon DEF RunFn
    <2>20. CASE Drain(t)
      BY <2>20 DEF Drain, Taken
    <2>21. CASE FireEvict(t)
      BY <2>21, SMTT(60) DEF FireEvict
    <2>22. CASE Return(t)
      BY <2>22, AnyKeyType DEF Return
    <2> QED
      BY <1>3, <2>1, <2>2, <2>3, <2>4, <2>5, <2>6, <2>7, <2>8, <2>9, <2>10,
         <2>11, <2>12, <2>13, <2>14, <2>15, <2>16, <2>17, <2>18, <2>19, <2>20,
         <2>21, <2>22, ZenonT(60)
         DEF Step
  <1>4. CASE UNCHANGED vars
    BY <1>4 DEF vars
  <1> QED
    BY <1>1, <1>2, <1>3, <1>4, Zenon DEF Next

\* TypeOK holds of the sharded store, whatever its options.
THEOREM TypeCorrect == Spec => []TypeOK
  <1>1. TypeInv => TypeOK
    BY DEF TypeInv
  <1> QED
    BY <1>1, InitType, StepType, PTL DEF Spec

-----------------------------------------------------------------------------
\* Nobody holds a mutex of a new store.
LEMMA InitLock == Init => LockDiscipline
  BY NoOneAssumption DEF Init, LockDiscipline, Owns

\* A step of t leaves the locals of every other goroutine alone.
Frame(t) ==
  \A u \in Threads \ {t} :
    /\ pc'[u] = pc[u] /\ key'[u] = key[u] /\ now'[u] = now[u]
    /\ n'[u] = n[u] /\ idx'[u] = idx[u] /\ site'[u] = site[u]
    /\ expired'[u] = expired[u] /\ res'[u] = res[u]

\* A step of one goroutine leaves the locals of the others alone.
LEMMA StepFrame ==
  ASSUME TypeInv, NEW t \in Threads, Step(t)
  PROVE  Frame(t)
  <1> USE DEF Frame, TypeInv, TypeOK, Goto, shardVars, localVars
  <1>1. CASE Lookup(t)
    BY <1>1 DEF Lookup
  <1>2. CASE Scan(t)
    BY <1>2 DEF Scan
  <1>3. CASE DeleteExpired(t)
    BY <1>3 DEF DeleteExpired
  <1>4. CASE CleanupDone(t)
    BY <1>4 DEF CleanupDone
  <1>5. CASE Load(t)
    BY <1>5 DEF Load
  <1>6. CASE CompareAndSwap(t)
    BY <1>6 DEF CompareAndSwap, Swaps
  <1>7. CASE EvictLocal(t)
    BY <1>7 DEF EvictLocal
  <1>8. CASE LeaveShard(t)
    BY <1>8 DEF LeaveShard
  <1>9. CASE Reject(t)
    BY <1>9 DEF Reject
  <1>10. CASE Sweep(t)
    BY <1>10 DEF Sweep
  <1>11. CASE SweepShard(t)
    BY <1>11 DEF SweepShard
  <1>12. CASE SweepDone(t)
    BY <1>12 DEF SweepDone
  <1>13. CASE CheckFull(t)
    BY <1>13 DEF CheckFull
  <1>14. CASE EvictOther(t)
    BY <1>14 DEF EvictOther
  <1>15. CASE SkipShard(t)
    BY <1>15 DEF SkipShard
  <1>16. CASE NothingToEvict(t)
    BY <1>16 DEF NothingToEvict
  <1>17. CASE Relock(t)
    BY <1>17 DEF Relock
  <1>18. CASE Recheck(t)
    BY <1>18 DEF Recheck, Found
  <1>19. CASE RunFn(t)
    BY <1>19 DEF RunFn
  <1>20. CASE Drain(t)
    BY <1>20, SMTT(60) DEF Drain, Taken
  <1>21. CASE FireEvict(t)
    BY <1>21, SMTT(60) DEF FireEvict
  <1>22. CASE Return(t)
    BY <1>22 DEF Return
  <1> QED
    BY <1>1, <1>2, <1>3, <1>4, <1>5, <1>6, <1>7, <1>8, <1>9, <1>10, <1>11,
       <1>12, <1>13, <1>14, <1>15, <1>16, <1>17, <1>18, <1>19, <1>20, <1>21,
       <1>22, ZenonT(60)
       DEF Step

\* What a step of t does to the shard mutexes: nothing, take one that is free,
\* or release the one it holds.
LockEffect(t) ==
  \/ lock' = lock /\ \A s \in Shards : Owns(t, s)' <=> Owns(t, s)
  \/ \E r \in Shards :
       /\ lock[r] = NoOne
       /\ lock' = [lock EXCEPT ![r] = t]
       /\ \A s \in Shards : ~Owns(t, s) /\ (Owns(t, s)' <=> s = r)
  \/ \E r \in Shards :
       /\ Owns(t, r)
       /\ lock' = [lock EXCEPT ![r] = NoOne]
       /\ \A s \in Shards : ~Owns(t, s)' /\ (Owns(t, s) <=> s = r)

\* Every step of a goroutine takes a shard lock, releases the one it holds,
\* or changes neither the locks nor what it owns.
LEMMA StepLockEffect ==
  ASSUME TypeInv, NEW t \in Threads, Step(t)
  PROVE  LockEffect(t)
  <1> USE ShardForType, ShardCountType
      DEF LockEffect, Owns, Self, CleaningShard, TypeInv, TypeOK, IdxInRange,
          Goto, Acquire, Unlock, Shards, shardVars, localVars
  <1>1. CASE Lookup(t)
    BY <1>1, Zenon DEF Lookup
  <1>2. CASE Scan(t)
    BY <1>2 DEF Scan
  <1>3. CASE DeleteExpired(t)
    BY <1>3, Zenon DEF DeleteExpired
  <1>4. CASE CleanupDone(t)
    <2>1. CASE site[t] = "sweep"
      <3>1. idx[t] \in Shards /\ Owns(t, idx[t])
        BY <1>4, <2>1, SMTT(60) DEF CleanupDone
      <3>2. lock' = [lock EXCEPT ![idx[t]] = NoOne]
        BY <1>4, <2>1, SMTT(60) DEF CleanupDone
      <3>3. \A s \in Shards : ~Owns(t, s)' /\ (Owns(t, s) <=> s = idx[t])
        BY <1>4, <2>1 DEF CleanupDone
      <3> QED
        BY <3>1, <3>2, <3>3, Zenon
    <2>2. CASE site[t] # "sweep"
      BY <1>4, <2>2, Zenon DEF CleanupDone
    <2> QED
      BY <2>1, <2>2, Zenon
  <1>5. CASE Load(t)
    BY <1>5, Zenon DEF Load
  <1>6. CASE CompareAndSwap(t)
    BY <1>6, ZenonT(60) DEF CompareAndSwap, Swaps
  <1>7. CASE EvictLocal(t)
    BY <1>7 DEF EvictLocal
  <1>8. CASE LeaveShard(t)
    BY <1>8, Zenon DEF LeaveShard
  <1>9. CASE Reject(t)
    BY <1>9, Zenon DEF Reject
  <1>10. CASE Sweep(t)
    BY <1>10, ZenonT(60) DEF Sweep, AfterSweep
  <1>11. CASE SweepShard(t)
    <2>1. /\ idx[t] \in Shards /\ lock[idx[t]] = NoOne
          /\ lock' = [lock EXCEPT ![idx[t]] = t]
      BY <1>11 DEF SweepShard, Shards
    <2>2. \A s \in Shards : ~Owns(t, s)
      BY <1>11, SMTT(60) DEF SweepShard
    <2>3. \A s \in Shards : Owns(t, s)' <=> s = idx[t]
      <3>1. pc'[t] = "scan" /\ site'[t] = "sweep" /\ idx'[t] = idx[t]
        BY <1>11 DEF SweepShard
      <3> QED
        BY <3>1, SMTT(60)
    <2> QED
      BY <2>1, <2>2, <2>3, Zenon
  <1>12. CASE SweepDone(t)
    BY <1>12, ZenonT(60) DEF SweepDone, AfterSweep
  <1>13. CASE CheckFull(t)
    BY <1>13, Zenon DEF CheckFull
  <1>14. CASE EvictOther(t)
    BY <1>14, Zenon DEF EvictOther
  <1>15. CASE SkipShard(t)
    BY <1>15, SMTT(60) DEF SkipShard
  <1>16. CASE NothingToEvict(t)
    BY <1>16 DEF NothingToEvict
  <1>17. CASE Relock(t)
    BY <1>17, Zenon DEF Relock
  <1>18. CASE Recheck(t)
    BY <1>18, Zenon DEF Recheck, Found
  <1>19. CASE RunFn(t)
    BY <1>19, Zenon DEF RunFn
  <1>20. CASE Drain(t)
    BY <1>20 DEF Drain, Taken
  <1>21. CASE FireEvict(t)
    BY <1>21, Zenon DEF FireEvict
  <1>22. CASE Return(t)
    BY <1>22, ZenonT(60) DEF Return
  <1> QED
    BY <1>1, <1>2, <1>3, <1>4, <1>5, <1>6, <1>7, <1>8, <1>9, <1>10, <1>11,
       <1>12, <1>13, <1>14, <1>15, <1>16, <1>17, <1>18, <1>19, <1>20, <1>21,
       <1>22, ZenonT(60)
       DEF Step

\* The goroutine that holds sweepMu, by its position.
Sweeping(t) ==
  \/ pc[t] = "sweepNext"
  \/ pc[t] \in {"scan", "delete"} /\ site[t] = "sweep"

\* What a step of t does to sweepMu: nothing, take it free, or release it.
SweepEffect(t) ==
  \/ sweepMu' = sweepMu /\ (Sweeping(t)' <=> Sweeping(t))
  \/ sweepMu = NoOne /\ sweepMu' = t /\ ~Sweeping(t) /\ Sweeping(t)'
  \/ Sweeping(t) /\ sweepMu' = NoOne /\ ~Sweeping(t)'

\* The same for sweepMu.
LEMMA StepSweepEffect ==
  ASSUME TypeInv, NEW t \in Threads, Step(t)
  PROVE  SweepEffect(t)
  <1> USE DEF SweepEffect, Sweeping, TypeInv, TypeOK, Goto, shardVars,
              localVars
  <1>1. CASE Lookup(t)
    BY <1>1, SMTT(60) DEF Lookup
  <1>2. CASE Scan(t)
    BY <1>2, SMTT(60) DEF Scan
  <1>3. CASE DeleteExpired(t)
    BY <1>3, SMTT(60) DEF DeleteExpired
  <1>4. CASE CleanupDone(t)
    BY <1>4, SMTT(60) DEF CleanupDone
  <1>5. CASE Load(t)
    BY <1>5 DEF Load
  <1>6. CASE CompareAndSwap(t)
    BY <1>6, Zenon DEF CompareAndSwap, Swaps
  <1>7. CASE EvictLocal(t)
    BY <1>7, SMTT(60) DEF EvictLocal
  <1>8. CASE LeaveShard(t)
    BY <1>8, SMTT(60) DEF LeaveShard
  <1>9. CASE Reject(t)
    BY <1>9, SMTT(60) DEF Reject
  <1>10. CASE Sweep(t)
    BY <1>10, SMTT(60) DEF Sweep, AfterSweep
  <1>11. CASE SweepShard(t)
    BY <1>11, SMTT(60) DEF SweepShard
  <1>12. CASE SweepDone(t)
    BY <1>12 DEF SweepDone, AfterSweep
  <1>13. CASE CheckFull(t)
    BY <1>13, Zenon DEF CheckFull
  <1>14. CASE EvictOther(t)
    BY <1>14, Zenon DEF EvictOther
  <1>15. CASE SkipShard(t)
    BY <1>15, Zenon DEF SkipShard
  <1>16. CASE NothingToEvict(t)
    BY <1>16 DEF NothingToEvict
  <1>17. CASE Relock(t)
    BY <1>17, Zenon DEF Relock
  <1>18. CASE Recheck(t)
    BY <1>18, Zenon DEF Recheck, Found
  <1>19. CASE RunFn(t)
    BY <1>19 DEF RunFn
  <1>20. CASE Drain(t)
    BY <1>20, Zenon DEF Drain, Taken
  <1>21. CASE FireEvict(t)
    BY <1>21, Zenon DEF FireEvict
  <1>22. CASE Return(t)
    BY <1>22, Zenon DEF Return
  <1> QED
    BY <1>1, <1>2, <1>3, <1>4, <1>5, <1>6, <1>7, <1>8, <1>9, <1>10, <1>11,
       <1>12, <1>13, <1>14, <1>15, <1>16, <1>17, <1>18, <1>19, <1>20, <1>21,
       <1>22, Zenon DEF Step

\* A goroutine whose position did not change owns what it owned.
LEMMA OwnsFrame ==
  ASSUME NEW u \in Threads, pc'[u] = pc[u], key'[u] = key[u],
         site'[u] = site[u], idx'[u] = idx[u]
  PROVE  /\ \A s \in Shards : Owns(u, s)' <=> Owns(u, s)
         /\ Sweeping(u)' <=> Sweeping(u)
  BY SMTT(60) DEF Owns, Sweeping, Self, CleaningShard

\* LockDiscipline, with the owner of sweepMu named by Sweeping.
LEMMA LockDisciplineIs ==
  LockDiscipline <=>
    /\ \A s \in Shards, t \in Threads : lock[s] = t <=> Owns(t, s)
    /\ \A t \in Threads : sweepMu = t <=> Sweeping(t)
  BY DEF LockDiscipline, Sweeping

\* Every step keeps the lock discipline.
LEMMA StepLock ==
  TypeInv /\ LockDiscipline /\ [Next]_vars => LockDiscipline'
  <1> SUFFICES ASSUME TypeInv, LockDiscipline, [Next]_vars
               PROVE  LockDiscipline'
    OBVIOUS
  <1>1. ASSUME NEW t \in Threads, Step(t) PROVE LockDiscipline'
    <2>1. Frame(t) /\ LockEffect(t) /\ SweepEffect(t)
      BY <1>1, StepFrame, StepLockEffect, StepSweepEffect
    <2>2. ASSUME NEW u \in Threads \ {t}
          PROVE  /\ \A s \in Shards : Owns(u, s)' <=> Owns(u, s)
                 /\ Sweeping(u)' <=> Sweeping(u)
      BY <2>1, OwnsFrame, Zenon DEF Frame
    <2>3. ASSUME NEW s \in Shards, NEW u \in Threads
          PROVE  lock'[s] = u <=> Owns(u, s)'
      <3>1. lock \in [Shards -> Threads \cup {NoOne}]
        BY DEF TypeInv, TypeOK
      <3>2. \A v \in Threads : lock[s] = v <=> Owns(v, s)
        BY LockDisciplineIs
      <3>3. CASE u = t
        BY <2>1, <3>1, <3>2, <3>3, LockDisciplineIs, NoOneAssumption, Zenon
           DEF LockEffect
      <3>4. CASE u # t
        <4>1. Owns(u, s)' <=> Owns(u, s)
          BY <2>2, <3>4
        <4> QED
          BY <2>1, <3>1, <3>2, <3>4, <4>1, LockDisciplineIs, NoOneAssumption,
             SMTT(60)
             DEF LockEffect
      <3> QED
        BY <3>3, <3>4
    <2>4. ASSUME NEW u \in Threads PROVE sweepMu' = u <=> Sweeping(u)'
      BY <2>1, <2>2, LockDisciplineIs, NoOneAssumption, Zenon DEF SweepEffect
    <2> QED
      BY <2>3, <2>4, Zenon DEF LockDiscipline, Sweeping
  <1>2. ASSUME NEW t \in Threads, NEW k \in Keys, Call(t, k)
        PROVE  LockDiscipline'
    <2>1. lock' = lock /\ sweepMu' = sweepMu
      BY <1>2 DEF Call
    <2>2. ASSUME NEW u \in Threads
          PROVE  /\ \A s \in Shards : Owns(u, s)' <=> Owns(u, s)
                 /\ Sweeping(u)' <=> Sweeping(u)
      BY <1>2, Zenon
         DEF Call, Goto, Owns, Sweeping, Self, CleaningShard, TypeInv, TypeOK
    <2> QED
      BY <2>1, <2>2, LockDisciplineIs, Zenon DEF LockDiscipline, Sweeping
  <1>3. CASE Tick \/ UNCHANGED vars
    <2>1. lock' = lock /\ sweepMu' = sweepMu /\ pc' = pc /\ key' = key
          /\ site' = site /\ idx' = idx
      BY <1>3 DEF Tick, vars, localVars
    <2> QED
      BY <2>1, SMTT(60) DEF LockDiscipline, Owns, Self, CleaningShard
  <1> QED
    BY <1>1, <1>2, <1>3 DEF Next

-----------------------------------------------------------------------------
\* A goroutine changes an entry only under that entry's shard lock.
EntryEffect(t) ==
  \A k \in items :
    \/ k \in items' /\ lastSeen'[k] = lastSeen[k]
    \/ Owns(t, shardFor(k))
    \/ lock[shardFor(k)] = NoOne

\* What cleanup has collected is stored, expired, and in the locked shard.
ExpiredInv(t) ==
  /\ expired[t] # {} => pc[t] = "delete"
  /\ \A k \in expired[t] :
       /\ k \in items
       /\ shardFor(k) = CleaningShard(t)
       /\ KeyTTL > 0
       /\ now[t] - lastSeen[k] >= KeyTTL

\* A request that found or made its entry still has it, freshly seen.
HitInv(t) ==
  /\ pc[t] \in {"scan", "delete"} /\ site[t] = "hit" =>
       key[t] \in items /\ lastSeen[key[t]] = now[t]
  /\ pc[t] = "fn" => key[t] \in items

EntryInv == \A t \in Threads : ExpiredInv(t) /\ HitInv(t) /\ now[t] <= clock

\* What a step of a goroutine may do to the stored keys, their times and the
\* keys it is about to delete, given the shard locks it holds.
LEMMA StepEntryEffect ==
  ASSUME TypeInv, EntryInv, NEW t \in Threads, Step(t)
  PROVE  EntryEffect(t)
  <1> USE DEF EntryEffect, TypeInv, TypeOK, shardVars, localVars
  <1>1. CASE Lookup(t)
    BY <1>1, Zenon DEF Lookup, Touch, Acquire, Self
  <1>2. CASE Scan(t)
    BY <1>2, Zenon DEF Scan
  <1>3. CASE DeleteExpired(t)
    BY <1>3, ZenonT(60) DEF DeleteExpired, Delete, EntryInv, ExpiredInv, Owns
  <1>4. CASE CleanupDone(t)
    BY <1>4, Zenon DEF CleanupDone
  <1>5. CASE Load(t)
    BY <1>5, Zenon DEF Load
  <1>6. CASE CompareAndSwap(t)
    BY <1>6, Zenon DEF CompareAndSwap, Swaps
  <1>7. CASE EvictLocal(t)
    BY <1>7, Zenon DEF EvictLocal, EvictFrom, Delete, InShard, Owns
  <1>8. CASE LeaveShard(t)
    BY <1>8, Zenon DEF LeaveShard
  <1>9. CASE Reject(t)
    BY <1>9, Zenon DEF Reject
  <1>10. CASE Sweep(t)
    BY <1>10, Zenon DEF Sweep
  <1>11. CASE SweepShard(t)
    BY <1>11, Zenon DEF SweepShard
  <1>12. CASE SweepDone(t)
    BY <1>12, Zenon DEF SweepDone
  <1>13. CASE CheckFull(t)
    BY <1>13, Zenon DEF CheckFull
  <1>14. CASE EvictOther(t)
    BY <1>14, Zenon DEF EvictOther, EvictFrom, Delete, InShard
  <1>15. CASE SkipShard(t)
    BY <1>15, Zenon DEF SkipShard
  <1>16. CASE NothingToEvict(t)
    BY <1>16, Zenon DEF NothingToEvict
  <1>17. CASE Relock(t)
    BY <1>17 DEF Relock
  <1>18. CASE Recheck(t)
    BY <1>18, Zenon DEF Recheck, Found, Touch, Owns, Self
  <1>19. CASE RunFn(t)
    BY <1>19, Zenon DEF RunFn
  <1>20. CASE Drain(t)
    BY <1>20 DEF Drain, Taken
  <1>21. CASE FireEvict(t)
    BY <1>21, Zenon DEF FireEvict
  <1>22. CASE Return(t)
    BY <1>22, Zenon DEF Return
  <1> QED
    BY <1>1, <1>2, <1>3, <1>4, <1>5, <1>6, <1>7, <1>8, <1>9, <1>10, <1>11,
       <1>12, <1>13, <1>14, <1>15, <1>16, <1>17, <1>18, <1>19, <1>20, <1>21,
       <1>22, ZenonT(60)
       DEF Step

\* Another goroutine's step cannot disturb what u relies on in its shard.
LEMMA OthersEntries ==
  ASSUME TypeInv, LockDiscipline, EntryInv, NEW t \in Threads, Step(t),
         NEW u \in Threads \ {t}
  PROVE  ExpiredInv(u)' /\ HitInv(u)'
  <1>1. Frame(t) /\ EntryEffect(t)
    BY StepFrame, StepEntryEffect
  <1>2. ASSUME NEW k \in items, Owns(u, shardFor(k))
        PROVE  k \in items' /\ lastSeen'[k] = lastSeen[k]
    <2>1. k \in Keys /\ shardFor(k) \in Shards
      BY ShardForType DEF TypeInv, TypeOK
    <2>2. lock[shardFor(k)] = u
      BY <1>2, <2>1, LockDisciplineIs, SMTT(60)
    <2>3. ~Owns(t, shardFor(k)) /\ lock[shardFor(k)] # NoOne
      BY <2>1, <2>2, LockDisciplineIs, NoOneAssumption, SMTT(60)
    <2> QED
      BY <1>1, <2>3, Zenon DEF EntryEffect
  <1>3. ExpiredInv(u) /\ HitInv(u)
    BY DEF EntryInv
  <1>4. ExpiredInv(u)'
    <2>1. expired'[u] # {} => pc'[u] = "delete"
      BY <1>1, <1>3, Zenon DEF Frame, ExpiredInv
    <2>2. ASSUME NEW k \in expired[u]
          PROVE  /\ k \in items' /\ lastSeen'[k] = lastSeen[k]
                 /\ shardFor(k) = CleaningShard(u)'
      <3>1. Owns(u, shardFor(k))
        BY <1>3, Zenon DEF ExpiredInv, Owns
      <3> QED
        BY <1>1, <1>2, <1>3, <3>1, Zenon
           DEF ExpiredInv, Frame, CleaningShard, Self
    <2> QED
      BY <1>1, <1>3, <2>1, <2>2, Zenon DEF ExpiredInv, Frame
  <1>5. HitInv(u)'
    <2>1. key[u] \in items /\ Owns(u, shardFor(key[u])) =>
            key[u] \in items' /\ lastSeen'[key[u]] = lastSeen[key[u]]
      BY <1>2, Zenon
    <2> QED
      BY <1>1, <1>3, <2>1, Zenon DEF HitInv, Frame, Owns, CleaningShard, Self
  <1> QED
    BY <1>4, <1>5

\* A goroutine's own step keeps what it relies on.
LEMMA OwnEntries ==
  ASSUME TypeInv, EntryInv, NEW t \in Threads, Step(t)
  PROVE  ExpiredInv(t)' /\ HitInv(t)'
  <1> USE DEF EntryInv, ExpiredInv, HitInv, TypeInv, TypeOK, Goto, Self,
              CleaningShard, shardVars, localVars
  <1>1. CASE Lookup(t)
    BY <1>1, Zenon DEF Lookup, Touch
  <1>2. CASE Scan(t)
    <2>1. expired[t] = {}
      BY <1>2, Zenon DEF Scan
    <2>2. \A k \in expired'[t] :
            /\ k \in items /\ shardFor(k) = CleaningShard(t)
            /\ KeyTTL > 0 /\ now[t] - lastSeen[k] >= KeyTTL
      <3>1. CASE CleanupDue(t, CleaningShard(t))
        <4>1. PICK scanned \in ScannedSets(CleaningShard(t)) :
                expired'[t] = {k \in scanned : IsExpired(k, now[t])}
          BY <1>2, <3>1, Zenon DEF Scan
        <4>2. scanned \subseteq InShard(CleaningShard(t))
          BY ScannedInShard, Zenon
        <4>3. KeyTTL > 0
          <5>1. KeyTTL # 0 /\ KeyTTL \in Nat
            BY <3>1, OptionsAssumption, ZenonT(60)
               DEF CleanupDue, CleanupDisabled, ValidOptions
          <5> QED
            BY <5>1
        <4> QED
          BY <4>1, <4>2, <4>3, Zenon DEF IsExpired, InShard
      <3>2. CASE ~CleanupDue(t, CleaningShard(t))
        BY <1>2, <2>1, <3>2, Zenon DEF Scan
      <3> QED
        BY <3>1, <3>2, Zenon
    <2> QED
      BY <1>2, <2>2, Zenon DEF Scan
  <1>3. CASE DeleteExpired(t)
    <2>1. PICK k \in expired[t] :
            /\ expired' = [expired EXCEPT ![t] = @ \ {k}]
            /\ items' = items \ {k}
            /\ lastSeen' = [lastSeen EXCEPT ![k] = 0]
      BY <1>3, Zenon DEF DeleteExpired, Delete
    <2>2. site[t] = "hit" => key[t] # k
      <3>1. now[t] - lastSeen[k] >= KeyTTL /\ KeyTTL > 0 /\ KeyTTL \in Nat
        BY OptionsAssumption DEF ValidOptions
      <3>2. site[t] = "hit" => lastSeen[key[t]] = now[t]
        BY <1>3, Zenon DEF DeleteExpired
      <3> QED
        BY <3>1, <3>2
    <2> QED
      BY <1>3, <2>1, <2>2 DEF DeleteExpired
  <1>4. CASE CleanupDone(t)
    BY <1>4, Zenon DEF CleanupDone
  <1>5. CASE Load(t)
    BY <1>5, Zenon DEF Load
  <1>6. CASE CompareAndSwap(t)
    BY <1>6, ZenonT(60) DEF CompareAndSwap, Swaps
  <1>7. CASE EvictLocal(t)
    BY <1>7, ZenonT(60) DEF EvictLocal, EvictFrom, Delete, InShard
  <1>8. CASE LeaveShard(t)
    BY <1>8, Zenon DEF LeaveShard
  <1>9. CASE Reject(t)
    BY <1>9, Zenon DEF Reject
  <1>10. CASE Sweep(t)
    BY <1>10, ZenonT(60) DEF Sweep, AfterSweep
  <1>11. CASE SweepShard(t)
    BY <1>11, Zenon DEF SweepShard
  <1>12. CASE SweepDone(t)
    BY <1>12, Zenon DEF SweepDone, AfterSweep
  <1>13. CASE CheckFull(t)
    BY <1>13, Zenon DEF CheckFull
  <1>14. CASE EvictOther(t)
    <2>1. /\ pc[t] = "evictNext" /\ pc'[t] = "relock"
          /\ expired' = expired
      BY <1>14, Zenon DEF EvictOther
    <2>2. expired[t] = {}
      BY <2>1, Zenon
    <2> QED
      BY <2>1, <2>2, Zenon
  <1>15. CASE SkipShard(t)
    BY <1>15, Zenon DEF SkipShard
  <1>16. CASE NothingToEvict(t)
    BY <1>16, Zenon DEF NothingToEvict
  <1>17. CASE Relock(t)
    BY <1>17, Zenon DEF Relock
  <1>18. CASE Recheck(t)
    BY <1>18, Zenon DEF Recheck, Found, Touch
  <1>19. CASE RunFn(t)
    BY <1>19, Zenon DEF RunFn
  <1>20. CASE Drain(t)
    BY <1>20, Zenon DEF Drain, Taken
  <1>21. CASE FireEvict(t)
    BY <1>21, Zenon DEF FireEvict
  <1>22. CASE Return(t)
    BY <1>22, Zenon DEF Return
  <1> QED
    BY <1>1, <1>2, <1>3, <1>4, <1>5, <1>6, <1>7, <1>8, <1>9, <1>10, <1>11,
       <1>12, <1>13, <1>14, <1>15, <1>16, <1>17, <1>18, <1>19, <1>20, <1>21,
       <1>22, ZenonT(60)
       DEF Step

\* No request carries a time the clock has not reached.
LEMMA StepClock ==
  ASSUME TypeInv, EntryInv, [Next]_vars
  PROVE  \A t \in Threads : now'[t] <= clock'
  <1> USE DEF EntryInv, TypeInv, TypeOK
  <1>1. CASE Tick
    BY <1>1, SMTT(60) DEF Tick, localVars
  <1>2. ASSUME NEW t \in Threads, NEW k \in Keys, Call(t, k)
        PROVE  \A u \in Threads : now'[u] <= clock'
    BY <1>2 DEF Call
  <1>3. ASSUME NEW t \in Threads, Step(t)
        PROVE  \A u \in Threads : now'[u] <= clock'
    <2>1. clock' = clock /\ (now'[t] = now[t] \/ now'[t] = 0)
      BY <1>3, ZenonT(60)
         DEF Step, Lookup, Scan, DeleteExpired, CleanupDone, Load,
             CompareAndSwap, Swaps, EvictLocal, LeaveShard, Reject, Sweep,
             SweepShard, SweepDone, CheckFull, EvictOther, SkipShard,
             NothingToEvict, Relock, Recheck, Found, RunFn, Drain, Taken,
             FireEvict, Return, localVars
    <2>2. Frame(t)
      BY <1>3, StepFrame, Zenon
    <2>3. \A u \in Threads \ {t} : now'[u] = now[u]
      BY <2>2, Zenon DEF Frame
    <2>4. ASSUME NEW u \in Threads PROVE now'[u] <= clock'
      <3>1. now[u] <= clock /\ 0 <= clock
        OBVIOUS
      <3>2. now'[u] = now[u] \/ now'[u] = 0
        BY <2>1, <2>3, Zenon
      <3> QED
        BY <2>1, <3>1, <3>2, Zenon
    <2> QED
      BY <2>4, Zenon
  <1>4. CASE UNCHANGED vars
    BY <1>4, Zenon DEF vars
  <1> QED
    BY <1>1, <1>2, <1>3, <1>4, ZenonT(60) DEF Next

\* Every step keeps EntryInv.
LEMMA StepEntry ==
  TypeInv /\ LockDiscipline /\ EntryInv /\ [Next]_vars => EntryInv'
  <1> SUFFICES ASSUME TypeInv, LockDiscipline, EntryInv, [Next]_vars
               PROVE  EntryInv'
    OBVIOUS
  <1>1. ASSUME NEW t \in Threads, Step(t)
        PROVE  \A u \in Threads : ExpiredInv(u)' /\ HitInv(u)'
    BY <1>1, OthersEntries, OwnEntries
  <1>2. ASSUME NEW t \in Threads, NEW k \in Keys, Call(t, k)
        PROVE  \A u \in Threads : ExpiredInv(u)' /\ HitInv(u)'
    BY <1>2, ZenonT(60)
       DEF Call, Goto, EntryInv, ExpiredInv, HitInv, TypeInv, TypeOK,
           CleaningShard, Self, shardVars
  <1>3. CASE Tick \/ UNCHANGED vars
    <2>1. \A u \in Threads : ExpiredInv(u)' /\ HitInv(u)'
      BY <1>3, ZenonT(60)
         DEF Tick, vars, shardVars, localVars, EntryInv, ExpiredInv, HitInv,
             CleaningShard, Self
    <2> QED
      BY <2>1, StepClock, Zenon DEF EntryInv
  <1> QED
    BY <1>1, <1>2, <1>3, StepClock, Zenon DEF Next, EntryInv

-----------------------------------------------------------------------------
\* reserveSlot compares and swaps only a count below the cap, a result is set
\* exactly while the call reports it, and live never passes the cap.
SlotInv ==
  /\ \A t \in Threads : pc[t] = "cas" => MaxKeys > 0 /\ n[t] < MaxKeys
  /\ MaxKeys > 0 => live <= MaxKeys

ResultInv ==
  \A t \in Threads : res[t] = "none" <=> pc[t] \notin {"ret", "fire"}

\* What a step of t does to the keys, the reservations and live.
CountEffect(t) ==
  \/ items' = items /\ Reserving' = Reserving /\ live' = live
  \/ /\ \E k \in items : items' = items \ {k}
     /\ Reserving' = Reserving /\ live' = live - 1
  \/ /\ items' = items /\ live' = live + 1
     /\ t \notin Reserving /\ Reserving' = Reserving \cup {t}
     /\ MaxKeys > 0 => live < MaxKeys
  \/ /\ items' = items /\ live' = live - 1
     /\ t \in Reserving /\ Reserving' = Reserving \ {t}
  \/ /\ key[t] \notin items /\ items' = items \cup {key[t]} /\ live' = live
     /\ t \in Reserving /\ Reserving' = Reserving \ {t}

\* Every step of a goroutine changes live by as much as it changes the number
\* of stored keys and of reserved slots.
LEMMA StepCountEffect ==
  ASSUME TypeInv, EntryInv, SlotInv, NEW t \in Threads, Step(t)
  PROVE  CountEffect(t)
  <1> USE OptionsAssumption
      DEF CountEffect, Reserving, SlotInv, TypeInv, TypeOK, Goto, shardVars,
          localVars
  <1>1. CASE Lookup(t)
    BY <1>1, Zenon DEF Lookup, Touch
  <1>2. CASE Scan(t)
    BY <1>2, Zenon DEF Scan
  <1>3. CASE DeleteExpired(t)
    BY <1>3, Zenon DEF DeleteExpired, Delete
  <1>4. CASE CleanupDone(t)
    BY <1>4, Zenon DEF CleanupDone
  <1>5. CASE Load(t)
    <2>1. items' = items /\ pc[t] = "load" /\ t \notin Reserving
      BY <1>5, Zenon DEF Load
    <2>2. CASE MaxKeys = 0
      <3>1. live' = live + 1 /\ pc' = [pc EXCEPT ![t] = "recheck"]
        BY <1>5, <2>2, ZenonT(60) DEF Load
      <3>2. Reserving' = Reserving \cup {t}
        BY <3>1, SMTT(60)
      <3>3. ~(MaxKeys > 0)
        BY <2>2
      <3> QED
        BY <2>1, <3>1, <3>2, <3>3, Zenon
    <2>3. CASE MaxKeys # 0
      <3>1. /\ live' = live
            /\ \/ pc' = [pc EXCEPT ![t] = "cas"]
               \/ pc' = [pc EXCEPT ![t] = "full"]
        BY <1>5, <2>3, Zenon DEF Load
      <3>2. Reserving' = Reserving
        BY <2>1, <3>1, Zenon
      <3> QED
        BY <2>1, <3>1, <3>2, Zenon
    <2> QED
      BY <2>2, <2>3, Zenon
  <1>6. CASE CompareAndSwap(t)
    <2>1. items' = items /\ pc[t] = "cas" /\ t \notin Reserving
      BY <1>6, Zenon DEF CompareAndSwap, Swaps
    <2>2. CASE live = n[t]
      <3>1. /\ live' = live + 1 /\ pc' = [pc EXCEPT ![t] = "recheck"]
            /\ live < MaxKeys
        BY <1>6, <2>1, <2>2, ZenonT(60) DEF CompareAndSwap, Swaps
      <3>2. Reserving' = Reserving \cup {t}
        BY <3>1
      <3> QED
        BY <2>1, <3>1, <3>2, Zenon
    <2>3. CASE live # n[t]
      <3>1. live' = live /\ pc' = [pc EXCEPT ![t] = "load"]
        BY <1>6, <2>3, Zenon DEF CompareAndSwap, Swaps
      <3>2. Reserving' = Reserving
        BY <2>1, <3>1, Zenon
      <3> QED
        BY <2>1, <3>1, <3>2, Zenon
    <2> QED
      BY <2>2, <2>3, Zenon
  <1>7. CASE EvictLocal(t)
    BY <1>7, Zenon DEF EvictLocal, EvictFrom, Delete, InShard
  <1>8. CASE LeaveShard(t)
    BY <1>8, Zenon DEF LeaveShard
  <1>9. CASE Reject(t)
    BY <1>9, Zenon DEF Reject
  <1>10. CASE Sweep(t)
    BY <1>10, Zenon DEF Sweep, AfterSweep
  <1>11. CASE SweepShard(t)
    BY <1>11, Zenon DEF SweepShard
  <1>12. CASE SweepDone(t)
    BY <1>12, Zenon DEF SweepDone, AfterSweep
  <1>13. CASE CheckFull(t)
    BY <1>13, Zenon DEF CheckFull
  <1>14. CASE EvictOther(t)
    BY <1>14, Zenon DEF EvictOther, EvictFrom, Delete, InShard
  <1>15. CASE SkipShard(t)
    BY <1>15, Zenon DEF SkipShard
  <1>16. CASE NothingToEvict(t)
    BY <1>16, Zenon DEF NothingToEvict
  <1>17. CASE Relock(t)
    BY <1>17, Zenon DEF Relock
  <1>18. CASE Recheck(t)
    BY <1>18, Zenon DEF Recheck, Found
  <1>19. CASE RunFn(t)
    BY <1>19, Zenon DEF RunFn
  <1>20. CASE Drain(t)
    BY <1>20, Zenon DEF Drain, Taken
  <1>21. CASE FireEvict(t)
    BY <1>21, Zenon DEF FireEvict
  <1>22. CASE Return(t)
    BY <1>22, Zenon DEF Return
  <1> QED
    BY <1>1, <1>2, <1>3, <1>4, <1>5, <1>6, <1>7, <1>8, <1>9, <1>10, <1>11,
       <1>12, <1>13, <1>14, <1>15, <1>16, <1>17, <1>18, <1>19, <1>20, <1>21,
       <1>22, ZenonT(60)
       DEF Step

\* Adding or removing one element changes a finite set's size by one.
LEMMA CountChange ==
  ASSUME NEW S, IsFiniteSet(S), NEW x
  PROVE  /\ Cardinality(S) \in Nat
         /\ x \in S => /\ IsFiniteSet(S \ {x})
                       /\ Cardinality(S \ {x}) = Cardinality(S) - 1
         /\ x \notin S => Cardinality(S \cup {x}) = Cardinality(S) + 1
  BY FS_CardinalityType, FS_AddElement, FS_RemoveElement, Zenon

\* The stored keys and the reserving goroutines are finitely many.
LEMMA CountsFinite ==
  ASSUME TypeInv PROVE IsFiniteSet(items) /\ IsFiniteSet(Reserving)
  <1>1. items \subseteq Keys /\ Reserving \subseteq Threads
    BY Zenon DEF TypeInv, TypeOK, Reserving
  <1> QED
    BY <1>1, FiniteAssumption, FS_Subset, SMTT(60)

\* A step of a goroutine keeps live exact and within the cap.
LEMMA StepCount ==
  ASSUME TypeInv, EntryInv, SlotInv, LiveExact, NEW t \in Threads, Step(t)
  PROVE  LiveExact' /\ (MaxKeys > 0 => live' <= MaxKeys)
  <1> DEFINE I == Cardinality(items)
             R == Cardinality(Reserving)
  <1>1. I \in Nat /\ R \in Nat /\ live = I + R /\ MaxKeys \in Nat
    BY CountsFinite, FS_CardinalityType, OptionsAssumption
       DEF LiveExact, ValidOptions
  <1>2. MaxKeys > 0 => live <= MaxKeys
    BY Zenon DEF SlotInv
  <1>3. CASE items' = items /\ Reserving' = Reserving /\ live' = live
    BY <1>2, <1>3, SMTT(60) DEF LiveExact
  <1>4. ASSUME NEW k \in items, items' = items \ {k},
               Reserving' = Reserving, live' = live - 1
        PROVE  LiveExact' /\ (MaxKeys > 0 => live' <= MaxKeys)
    <2>1. Cardinality(items') = I - 1
      BY <1>4, CountsFinite, CountChange, Zenon
    <2> QED
      BY <1>1, <1>2, <1>4, <2>1, SMTT(60) DEF LiveExact
  <1>5. CASE /\ items' = items /\ live' = live + 1
             /\ t \notin Reserving /\ Reserving' = Reserving \cup {t}
             /\ MaxKeys > 0 => live < MaxKeys
    <2>1. Cardinality(Reserving') = R + 1
      BY <1>5, CountsFinite, CountChange, Zenon
    <2> QED
      BY <1>1, <1>2, <1>5, <2>1, SMTT(60) DEF LiveExact
  <1>6. CASE /\ items' = items /\ live' = live - 1
             /\ t \in Reserving /\ Reserving' = Reserving \ {t}
    <2>1. Cardinality(Reserving') = R - 1
      BY <1>6, CountsFinite, CountChange, ZenonT(60)
    <2> QED
      BY <1>1, <1>2, <1>6, <2>1, SMTT(60) DEF LiveExact
  <1>7. CASE /\ key[t] \notin items /\ items' = items \cup {key[t]}
             /\ live' = live
             /\ t \in Reserving /\ Reserving' = Reserving \ {t}
    <2>1. Cardinality(Reserving') = R - 1
      BY <1>7, CountsFinite, CountChange, Zenon
    <2>2. Cardinality(items') = I + 1
      BY <1>7, CountsFinite, CountChange, Zenon
    <2> QED
      BY <1>1, <1>2, <1>7, <2>1, <2>2, SMTT(60) DEF LiveExact
  <1> QED
    BY <1>3, <1>4, <1>5, <1>6, <1>7, StepCountEffect, ZenonT(60)
       DEF CountEffect

\* Every step keeps the slot accounting.
LEMMA StepSlots ==
  TypeInv /\ EntryInv /\ SlotInv /\ LiveExact /\ [Next]_vars
    => SlotInv' /\ LiveExact'
  <1> SUFFICES ASSUME TypeInv, EntryInv, SlotInv, LiveExact, [Next]_vars
               PROVE  SlotInv' /\ LiveExact'
    OBVIOUS
  <1>1. ASSUME NEW t \in Threads, Step(t) PROVE SlotInv' /\ LiveExact'
    <2>1. pc'[t] = "cas" => MaxKeys > 0 /\ n'[t] < MaxKeys
      <3>1. CASE Load(t)
        <4>1. pc'[t] = "cas" => n'[t] = live /\ live < MaxKeys /\ MaxKeys # 0
          BY <3>1, Zenon DEF Load, Goto, TypeInv, TypeOK
        <4>2. MaxKeys \in Nat
          BY OptionsAssumption DEF ValidOptions
        <4> QED
          BY <4>1, <4>2
      <3>2. CASE ~Load(t)
        <4>1. pc'[t] # "cas"
          BY <1>1, <3>2, ZenonT(60)
             DEF Step, Lookup, Scan, DeleteExpired, CleanupDone,
                 CompareAndSwap, Swaps, EvictLocal, LeaveShard, Reject, Sweep,
                 SweepShard, SweepDone, CheckFull, EvictOther, SkipShard,
                 NothingToEvict, Relock, Recheck, Found, RunFn, Drain, Taken,
                 FireEvict, Return, AfterSweep, Goto, TypeInv, TypeOK
        <4> QED
          BY <4>1, ZenonT(60)
      <3> QED
        BY <3>1, <3>2, Zenon
    <2>2. \A u \in Threads : pc'[u] = "cas" => MaxKeys > 0 /\ n'[u] < MaxKeys
      <3>1. Frame(t)
        BY <1>1, StepFrame
      <3>2. \A u \in Threads \ {t} : pc'[u] = pc[u] /\ n'[u] = n[u]
        BY <3>1, Zenon DEF Frame
      <3> QED
        BY <2>1, <3>2, Zenon DEF SlotInv
    <2> QED
      BY <1>1, <2>2, StepCount, Zenon DEF SlotInv
  <1>2. ASSUME NEW t \in Threads, NEW k \in Keys, Call(t, k)
        PROVE  SlotInv' /\ LiveExact'
    <2>1. /\ items' = items /\ live' = live /\ n' = n
          /\ pc' = [pc EXCEPT ![t] = "lock"] /\ pc[t] = "idle"
      BY <1>2, Zenon DEF Call, Goto, shardVars
    <2>2. Reserving' = Reserving
      BY <2>1, Zenon DEF Reserving, TypeInv, TypeOK
    <2> QED
      BY <2>1, <2>2, Zenon DEF SlotInv, LiveExact, TypeInv, TypeOK
  <1>3. CASE Tick \/ UNCHANGED vars
    <2>1. items' = items /\ live' = live /\ n' = n /\ pc' = pc
      BY <1>3, Zenon DEF Tick, vars, shardVars, localVars
    <2> QED
      BY <2>1, Zenon DEF SlotInv, LiveExact, Reserving
  <1> QED
    BY <1>1, <1>2, <1>3, SMTT(60) DEF Next

\* Every step keeps ResultInv.
LEMMA StepResult == TypeInv /\ ResultInv /\ [Next]_vars => ResultInv'
  <1> SUFFICES ASSUME TypeInv, ResultInv, [Next]_vars PROVE ResultInv'
    OBVIOUS
  <1>1. ASSUME NEW t \in Threads, Step(t) PROVE ResultInv'
    <2>1. res'[t] = "none" <=> pc'[t] \notin {"ret", "fire"}
      <3> USE DEF Goto, TypeInv, TypeOK, ResultInv, localVars
      <3>1. CASE \/ Lookup(t) \/ Scan(t) \/ DeleteExpired(t) \/ CleanupDone(t)
        BY <3>1, Zenon DEF Lookup, Scan, DeleteExpired, CleanupDone
      <3>2. CASE \/ Load(t) \/ CompareAndSwap(t) \/ EvictLocal(t)
                 \/ LeaveShard(t)
        BY <3>2, Zenon DEF Load, CompareAndSwap, Swaps, EvictLocal, LeaveShard
      <3>3. CASE Sweep(t) \/ SweepShard(t) \/ SweepDone(t)
        BY <3>3, Zenon DEF Sweep, SweepShard, SweepDone, AfterSweep
      <3>4. CASE \/ CheckFull(t) \/ EvictOther(t) \/ SkipShard(t)
                 \/ NothingToEvict(t) \/ Relock(t) \/ Recheck(t)
        BY <3>4, Zenon
           DEF CheckFull, EvictOther, SkipShard, NothingToEvict, Relock, Recheck, Found
      <3>5. CASE Reject(t) \/ RunFn(t)
        BY <3>5, Zenon DEF Reject, RunFn
      <3>6. CASE Drain(t) \/ FireEvict(t) \/ Return(t)
        BY <3>6, ZenonT(60) DEF Drain, Taken, FireEvict, Return
      <3> QED
        BY <1>1, <3>1, <3>2, <3>3, <3>4, <3>5, <3>6, ZenonT(60) DEF Step
    <2>2. Frame(t)
      BY <1>1, StepFrame
    <2>3. \A u \in Threads \ {t} : pc'[u] = pc[u] /\ res'[u] = res[u]
      BY <2>2, Zenon DEF Frame
    <2> QED
      BY <2>1, <2>3, Zenon DEF ResultInv
  <1>2. ASSUME NEW t \in Threads, NEW k \in Keys, Call(t, k)
        PROVE  ResultInv'
    BY <1>2, Zenon DEF Call, Goto, ResultInv, TypeInv, TypeOK
  <1>3. CASE Tick \/ UNCHANGED vars
    BY <1>3, Zenon DEF Tick, vars, localVars, ResultInv
  <1> QED
    BY <1>1, <1>2, <1>3, SMTT(60) DEF Next

-----------------------------------------------------------------------------
\* The inductive invariant of the store.
StoreInv ==
  /\ TypeInv /\ LockDiscipline /\ EntryInv
  /\ SlotInv /\ LiveExact /\ ResultInv

\* The store's invariant holds initially ...
LEMMA InitStore == Init => StoreInv
  <1> SUFFICES ASSUME Init PROVE StoreInv
    OBVIOUS
  <1>1. Reserving = {} /\ items = {} /\ live = 0
    BY Zenon DEF Init, Reserving
  <1>2. LiveExact
    BY <1>1, FS_EmptySet, SMTT(60) DEF LiveExact
  <1>3. SlotInv /\ ResultInv /\ EntryInv
    BY OptionsAssumption
       DEF Init, SlotInv, ResultInv, EntryInv, ExpiredInv, HitInv, ValidOptions
  <1> QED
    BY <1>2, <1>3, InitType, InitLock, SMTT(60) DEF StoreInv

\* ... and every step keeps it.
LEMMA StepStore == StoreInv /\ [Next]_vars => StoreInv'
  BY StepType, StepLock, StepEntry, StepSlots, StepResult, SMTT(60)
     DEF StoreInv

\* StoreInv holds of every behaviour of the store.
THEOREM StoreInvariant == Spec => []StoreInv
  BY InitStore, StepStore, PTL DEF Spec

\* Every shard mutex, and sweepMu, is held by exactly the goroutine whose
\* position is inside its critical section.
THEOREM LocksDisciplined == Spec => []LockDiscipline
  <1>1. StoreInv => LockDiscipline
    BY SMTT(60) DEF StoreInv
  <1> QED
    BY <1>1, StoreInvariant, PTL

\* Goroutines that sweep, evict elsewhere or take their shard again never wait
\* for one another in a circle ("no nesting, no deadlock",
\* sharded_store.go:204): a chain of waiting ends, after two mutexes at most,
\* at a goroutine that can go on.
THEOREM NoCircularWait == Spec => []WaitsEnd
  <1>1. StoreInv => WaitsEnd
    <2> SUFFICES ASSUME StoreInv PROVE WaitsEnd
      OBVIOUS
    <2>1. /\ lock \in [Shards -> Threads \cup {NoOne}]
          /\ sweepMu \in Threads \cup {NoOne}
          /\ \A s \in Shards, t \in Threads : lock[s] = t <=> Owns(t, s)
          /\ \A t \in Threads : sweepMu = t =>
               pc[t] = "sweepNext" \/ pc[t] \in {"scan", "delete"}
      BY Zenon DEF StoreInv, TypeInv, TypeOK, LockDiscipline
    <2>2. ASSUME NEW u \in Threads, NEW s \in Shards, Owns(u, s)
          PROVE  Running(u)
      BY <2>2, SMTT(60) DEF Owns, Running, WaitsFor
    <2>3. ASSUME NEW u \in Threads, sweepMu = u
          PROVE  Running(u) \/ \E s \in Shards : WaitsFor(u, s)
      BY <2>1, <2>3 DEF Running, WaitsFor
    <2>4. ASSUME NEW s \in Shards, lock[s] # NoOne
          PROVE  \E u \in Threads : lock[s] = u /\ Running(u)
      BY <2>1, <2>2, <2>4, SMTT(60)
    <2> QED
      BY <2>1, <2>3, <2>4, Zenon DEF WaitsEnd
  <1> QED
    BY <1>1, StoreInvariant, PTL

\* live always equals the stored keys plus the slots being filled.
THEOREM CounterExact == Spec => []LiveExact
  <1>1. StoreInv => LiveExact
    BY SMTT(60) DEF StoreInv
  <1> QED
    BY <1>1, StoreInvariant, PTL

\* maxKeys is never exceeded, for any number of goroutines, keys and shards.
THEOREM CapHolds == Spec => []CapExact
  <1>1. StoreInv => CapExact
    <2> SUFFICES ASSUME StoreInv PROVE CapExact
      OBVIOUS
    <2>1. Cardinality(items) \in Nat /\ Cardinality(Reserving) \in Nat
      BY CountsFinite, FS_CardinalityType, SMTT(60) DEF StoreInv
    <2> QED
      BY <2>1, OptionsAssumption
         DEF StoreInv, SlotInv, LiveExact, CapExact, ValidOptions
  <1> QED
    BY <1>1, StoreInvariant, PTL

\* fn always runs on an entry that is in the store.
THEOREM FnSeesStoredKey == Spec => []FnOnStoredKey
  <1>1. StoreInv => FnOnStoredKey
    BY Zenon DEF StoreInv, EntryInv, HitInv, FnOnStoredKey
  <1> QED
    BY <1>1, StoreInvariant, PTL

-----------------------------------------------------------------------------
(* The order lists, and the evictions to report.                            *)

\* list.Remove keeps the order of the others.
LEMMA OrderWithout ==
  ASSUME TypeOK, OrderIsTotal, NEW k \in Keys,
         items' = items \ {k}, ahead' = Without(k)
  PROVE  OrderIsTotal'
  <1>1. \A a, b : <<a, b>> \in ahead' <=> <<a, b>> \in ahead /\ a # k /\ b # k
    BY DEF Without
  <1>2. ahead' \subseteq ahead
    BY SMTT(60) DEF Without
  <1>3. \A p \in ahead' : p = <<p[1], p[2]>>
    BY <1>2, SMTT(60) DEF TypeOK
  <1> QED
    BY <1>1, <1>2, <1>3, SMTT(60) DEF OrderIsTotal, shardFor

\* PushFront and MoveToFront put the key before all others of its shard and
\* keep their order.
LEMMA OrderToFront ==
  ASSUME TypeOK, OrderIsTotal, NEW k \in Keys,
         items' = items \cup {k}, ahead' = ToFront(k)
  PROVE  OrderIsTotal'
  <1> SUFFICES ASSUME Eviction = "lru" PROVE OrderIsTotal'
    BY DEF OrderIsTotal
  <1>1. \A a, b : <<a, b>> \in ahead' <=>
          \/ <<a, b>> \in ahead /\ a # k /\ b # k
          \/ a = k /\ b \in items /\ b # k /\ shardFor(b) = shardFor(k)
    BY SMTT(60) DEF ToFront, Without, InShard
  <1>2. \A p \in ahead' : p = <<p[1], p[2]>>
    BY SMTT(60) DEF ToFront, Without, InShard, TypeOK
  <1>3. \A p \in ahead' : /\ p[1] \in items' /\ p[2] \in items'
                          /\ shardFor(p[1]) = shardFor(p[2]) /\ p[1] # p[2]
    BY <1>1, <1>2, SMTT(60) DEF OrderIsTotal
  <1>4. \A a, b \in items' : a # b /\ shardFor(a) = shardFor(b) =>
          (<<a, b>> \in ahead' <=> <<b, a>> \notin ahead')
    BY <1>1, SMTT(60) DEF OrderIsTotal
  <1>5. \A a, b, c \in items' :
          <<a, b>> \in ahead' /\ <<b, c>> \in ahead' => <<a, c>> \in ahead'
    <2>1. \A a, b \in items : <<a, b>> \in ahead => shardFor(a) = shardFor(b)
      BY SMTT(60) DEF OrderIsTotal
    <2>2. \A a, b : <<a, b>> \in ahead => a \in items /\ b \in items
      BY DEF OrderIsTotal
    <2> QED
      BY <1>1, <2>1, <2>2, SMTT(60) DEF OrderIsTotal
  <1> QED
    BY <1>3, <1>4, <1>5, SMTT(60) DEF OrderIsTotal, shardFor

\* A step leaves the lists alone, takes a key out or puts one in front.
OrderEffect ==
  \/ items' = items /\ ahead' = ahead
  \/ \E k \in Keys : items' = items \ {k} /\ ahead' = Without(k)
  \/ \E k \in Keys : items' = items \cup {k} /\ ahead' = ToFront(k)

LEMMA StepOrderEffect ==
  ASSUME TypeOK, NEW t \in Threads, Step(t)
  PROVE  OrderEffect
  <1> USE DEF shardVars, localVars
  <1>0. items \subseteq Keys /\ key[t] \in Keys /\ expired[t] \subseteq Keys
    BY DEF TypeOK
  <1>1. CASE Lookup(t)
    <2>1. CASE key[t] \in items
      <3>1. items' = items \cup {key[t]} /\ ahead' = ToFront(key[t])
        BY <1>1, <2>1, SMTT(60) DEF Lookup, Touch
      <3> QED
        BY <1>0, <3>1, SMTT(60) DEF OrderEffect
    <2>2. CASE key[t] \notin items
      BY <1>1, <2>2 DEF Lookup, OrderEffect
    <2> QED
      BY <2>1, <2>2, SMTT(60)
  <1>2. CASE DeleteExpired(t)
    BY <1>0, <1>2, Zenon DEF DeleteExpired, Delete, OrderEffect
  <1>3. CASE EvictLocal(t) \/ EvictOther(t)
    BY <1>0, <1>3, ZenonT(60)
       DEF EvictLocal, EvictOther, EvictFrom, Delete, InShard, OrderEffect
  <1>4. CASE Recheck(t)
    <2>1. items' = items \cup {key[t]} /\ ahead' = ToFront(key[t])
      BY <1>4 DEF Recheck, Found, Touch
    <2> QED
      BY <1>0, <2>1 DEF OrderEffect
  <1>5. CASE \/ Scan(t) \/ CleanupDone(t) \/ Load(t) \/ CompareAndSwap(t)
             \/ LeaveShard(t) \/ Reject(t) \/ Sweep(t)
    BY <1>5, Zenon DEF Scan, CleanupDone, Load, CompareAndSwap, LeaveShard,
       Reject, Sweep, OrderEffect
  <1>6. CASE \/ SweepShard(t) \/ SweepDone(t) \/ CheckFull(t) \/ SkipShard(t)
             \/ NothingToEvict(t) \/ Relock(t) \/ RunFn(t) \/ Drain(t)
             \/ FireEvict(t) \/ Return(t)
    BY <1>6, Zenon DEF SweepShard, SweepDone, CheckFull, SkipShard,
       NothingToEvict, Relock, RunFn, Drain, FireEvict, Return, OrderEffect
  <1> QED
    BY <1>1, <1>2, <1>3, <1>4, <1>5, <1>6, ZenonT(60) DEF Step

LEMMA StepOrder == TypeOK /\ OrderIsTotal /\ [Next]_vars => OrderIsTotal'
  <1> SUFFICES ASSUME TypeOK, OrderIsTotal, [Next]_vars PROVE OrderIsTotal'
    OBVIOUS
  <1>1. OrderEffect
    <2>1. CASE Tick \/ UNCHANGED vars
      BY <2>1, SMTT(60) DEF Tick, vars, shardVars, OrderEffect
    <2>2. ASSUME NEW t \in Threads, NEW k \in Keys, Call(t, k)
          PROVE  OrderEffect
      BY <2>2, SMTT(60) DEF Call, shardVars, OrderEffect
    <2> QED
      BY <2>1, <2>2, StepOrderEffect, SMTT(60) DEF Next
  <1>2. CASE items' = items /\ ahead' = ahead
    BY <1>2 DEF OrderIsTotal, shardFor
  <1> QED
    BY <1>1, <1>2, OrderWithout, OrderToFront, SMTT(60) DEF OrderEffect

\* The order list of every shard lists its keys, each once, through hits,
\* evictions and cleanups by any goroutine (getOrCreateLRU, evictFrom).
THEOREM OrderKept == Spec => []OrderIsTotal
  <1>1. Init => OrderIsTotal
    BY DEF Init, OrderIsTotal
  <1> QED
    BY <1>1, StepOrder, TypeCorrect, PTL DEF Spec

\* What a step does to the evictions still to report.
DrainEffect(t) ==
  \/ pc'[t] \notin {"idle", "fire"}
  \/ evicts' = 0
  \/ pc[t] = "fire" /\ evicts' = evicts

LEMMA StepDrainEffect ==
  ASSUME TypeOK, NEW t \in Threads, Step(t)
  PROVE  DrainEffect(t)
  <1> USE DEF Goto, localVars, DrainEffect
  <1>0. pc \in [Threads -> PCs] /\ evicts \in Nat
    BY DEF TypeOK
  <1>1. CASE \/ Lookup(t) \/ Scan(t) \/ DeleteExpired(t) \/ CleanupDone(t)
             \/ Load(t) \/ CompareAndSwap(t) \/ EvictLocal(t)
    BY <1>0, <1>1, Zenon DEF Lookup, Scan, DeleteExpired, CleanupDone, Load,
       CompareAndSwap, EvictLocal
  <1>2. CASE \/ LeaveShard(t) \/ Reject(t) \/ Sweep(t) \/ SweepShard(t)
             \/ SweepDone(t)
    BY <1>0, <1>2, Zenon DEF LeaveShard, Reject, Sweep, SweepShard, SweepDone,
       AfterSweep
  <1>3. CASE \/ CheckFull(t) \/ EvictOther(t) \/ SkipShard(t)
             \/ NothingToEvict(t) \/ Relock(t) \/ Recheck(t) \/ RunFn(t)
    BY <1>0, <1>3, ZenonT(60)
       DEF CheckFull, EvictOther, SkipShard, NothingToEvict, Relock, Recheck,
           RunFn
  <1>4. CASE Drain(t)
    BY <1>0, <1>4 DEF Drain, Taken
  <1>5. CASE FireEvict(t) \/ Return(t)
    BY <1>5, Zenon DEF FireEvict, Return
  <1> QED
    BY <1>1, <1>2, <1>3, <1>4, <1>5, ZenonT(60) DEF Step

LEMMA StepDrain ==
  TypeInv /\ EvictionsWillDrain /\ [Next]_vars => EvictionsWillDrain'
  <1> SUFFICES ASSUME TypeInv, EvictionsWillDrain, [Next]_vars, evicts' > 0
               PROVE  \E u \in Threads : pc'[u] \notin {"idle", "fire"}
    BY DEF EvictionsWillDrain
  <1>0. TypeOK
    BY SMTT(60) DEF TypeInv
  <1>1. ASSUME NEW t \in Threads, Step(t)
        PROVE  \E u \in Threads : pc'[u] \notin {"idle", "fire"}
    <2>1. CASE pc'[t] \notin {"idle", "fire"}
      BY <2>1, SMTT(60)
    <2>2. CASE pc[t] = "fire" /\ evicts' = evicts
      <3>1. PICK u \in Threads : pc[u] \notin {"idle", "fire"}
        BY <2>2, SMTT(60) DEF EvictionsWillDrain
      <3>2. pc'[u] = pc[u]
        BY <1>1, <2>2, <3>1, StepFrame, SMTT(60) DEF Frame
      <3> QED
        BY <3>1, <3>2, SMTT(60)
    <2> QED
      BY <1>0, <1>1, <2>1, <2>2, StepDrainEffect, SMTT(60) DEF DrainEffect
  <1>2. ASSUME NEW t \in Threads, NEW k \in Keys, Call(t, k)
        PROVE  \E u \in Threads : pc'[u] \notin {"idle", "fire"}
    BY <1>0, <1>2, SMTT(60) DEF Call, Goto, TypeOK
  <1>3. CASE Tick \/ UNCHANGED vars
    BY <1>3 DEF Tick, vars, EvictionsWillDrain
  <1> QED
    BY <1>1, <1>2, <1>3, SMTT(60) DEF Next

\* An eviction still to be reported always has a call that will drain it.
THEOREM EvictionsDrained == Spec => []EvictionsWillDrain
  <1>1. Init => EvictionsWillDrain
    BY DEF Init, EvictionsWillDrain
  <1> QED
    BY <1>1, InitType, StepType, StepDrain, PTL DEF Spec
=============================================================================
