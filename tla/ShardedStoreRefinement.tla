----------------------- MODULE ShardedStoreRefinement -----------------------
(***************************************************************************)
(* The sharded store implements KeyStore, and loses keys only to expiry or *)
(* to eviction: what its callers may rely on, for every configuration.     *)
(***************************************************************************)
EXTENDS ShardedStoreProofs

\* A goroutine inside a call stays inside it with no result.
Busy(t) == pc[t] # "idle" /\ pc'[t] # "idle" /\ res'[t] = res[t]

\* A step of t that neither starts, ends nor answers its call does not show in
\* the callers' view.
LEMMA StatusFrame ==
  ASSUME NEW t \in Threads, Frame(t), Busy(t)
  PROVE  callStatus' = callStatus
  BY DEF Frame, Busy, callStatus

\* A step that answers t's call, or ends it, changes t's status only.
LEMMA StatusChange ==
  ASSUME NEW t \in Threads, Frame(t), NEW v,
         v = IF pc'[t] = "idle" THEN "idle"
             ELSE IF res'[t] = "none" THEN "busy" ELSE res'[t]
  PROVE  callStatus' = [callStatus EXCEPT ![t] = v]
  <1>1. \A u \in Threads \ {t} : pc'[u] = pc[u] /\ res'[u] = res[u]
    BY DEF Frame
  <1>2. \A u \in Threads \ {t} : callStatus'[u] = callStatus[u]
    BY <1>1 DEF callStatus
  <1>3. callStatus'[t] = v
    BY DEF callStatus
  <1>4. /\ DOMAIN callStatus = Threads /\ DOMAIN callStatus' = Threads
        /\ callStatus' = [u \in Threads |-> callStatus'[u]]
    BY DEF callStatus
  <1>5. callStatus = [u \in Threads |-> callStatus[u]]
    BY DEF callStatus
  <1> QED
    BY <1>2, <1>3, <1>4, <1>5

\* A new store is an empty bounded key set.
LEMMA InitRefines == Init => Promise!StoreInit
  BY AnyKeyType DEF Init, Promise!StoreInit, callStatus

\* Deleting a stored key, by expiry or eviction, is a Forget.
LEMMA DeleteRefines ==
  ASSUME TypeInv, NEW k \in items, items' = items \ {k}, key' = key,
         callStatus' = callStatus,
         KeyTTL > 0 \/ (Eviction = "lru" /\ MaxKeys > 0)
  PROVE  Promise!StoreNext
  <1>1. Promise!Forget(k)
    BY DEF Promise!Forget
  <1> QED
    BY <1>1 DEF Promise!StoreNext, TypeInv, TypeOK

\* A goroutine handles a full store only when there is a cap, and looks for
\* a victim in other shards only under EvictLRU.
Capped(t) ==
  \/ pc[t] \in {"full", "sweep", "sweepNext", "check", "evictNext"}
  \/ pc[t] \in {"scan", "delete"} /\ site[t] = "sweep"

CappedInv ==
  \A t \in Threads :
    /\ Capped(t) => MaxKeys > 0
    /\ pc[t] \in {"check", "evictNext"} => Eviction = "lru"

\* reserveSlot reaches the full path only past its maxKeys <= 0 return.
LEMMA StepCapped == TypeInv /\ CappedInv /\ [Next]_vars => CappedInv'
  <1> SUFFICES ASSUME TypeInv, CappedInv, [Next]_vars PROVE CappedInv'
    OBVIOUS
  <1>1. ASSUME NEW t \in Threads, Step(t) PROVE CappedInv'
    <2>1. /\ Capped(t)' => MaxKeys > 0
          /\ pc'[t] \in {"check", "evictNext"} => Eviction = "lru"
      <3>1. CASE Load(t)
        BY <3>1, OptionsAssumption, SMTT(60)
           DEF Load, Goto, TypeInv, TypeOK, Capped, CappedInv, ValidOptions
      <3>2. CASE LeaveShard(t)
        BY <3>2, SMTT(60)
           DEF LeaveShard, Goto, TypeInv, TypeOK, Capped, CappedInv
      <3>3. CASE \/ Sweep(t) \/ SweepShard(t) \/ SweepDone(t) \/ CheckFull(t)
                 \/ SkipShard(t)
        BY <3>3, SMTT(60)
           DEF Sweep, SweepShard, SweepDone, CheckFull, SkipShard, AfterSweep,
               Goto, TypeInv, TypeOK, Capped, CappedInv, localVars
      <3>4. CASE \/ Scan(t) \/ DeleteExpired(t) \/ CleanupDone(t)
        BY <3>4, SMTT(60)
           DEF Scan, DeleteExpired, CleanupDone, Goto, TypeInv, TypeOK,
               Capped, CappedInv
      <3>5. CASE \/ Lookup(t) \/ CompareAndSwap(t) \/ EvictLocal(t) \/ Reject(t)
        BY <3>5, SMTT(60)
           DEF Lookup, CompareAndSwap, Swaps, EvictLocal, Reject, Goto,
               TypeInv, TypeOK, Capped, localVars
      <3>6. CASE \/ EvictOther(t) \/ NothingToEvict(t) \/ Relock(t)
                 \/ Recheck(t) \/ RunFn(t)
        BY <3>6, SMTT(60)
           DEF EvictOther, NothingToEvict, Relock, Recheck, Found, RunFn,
               Goto, TypeInv, TypeOK, Capped, localVars
      <3>7. CASE Drain(t) \/ FireEvict(t) \/ Return(t)
        BY <3>7, SMTT(60)
           DEF Drain, Taken, FireEvict, Return, Goto, TypeInv, TypeOK, Capped
      <3> QED
        BY <1>1, <3>1, <3>2, <3>3, <3>4, <3>5, <3>6, <3>7, SMTT(60) DEF Step
    <2> QED
      BY <1>1, <2>1, StepFrame, SMTT(60) DEF Frame, Capped, CappedInv
  <1>2. ASSUME NEW t \in Threads, NEW k \in Keys, Call(t, k)
        PROVE  CappedInv'
    BY <1>2, SMTT(60) DEF Call, Goto, Capped, CappedInv, TypeInv, TypeOK
  <1>3. CASE Tick \/ UNCHANGED vars
    BY <1>3 DEF Tick, vars, localVars, Capped, CappedInv
  <1> QED
    BY <1>1, <1>2, <1>3, SMTT(60) DEF Next

\* StoreInv and CappedInv hold of every behaviour.
LEMMA StoreCapped == Spec => [](StoreInv /\ CappedInv)
  <1>1. Init => CappedInv
    BY DEF Init, Capped, CappedInv
  <1>2. StoreInv /\ CappedInv /\ [Next]_vars => CappedInv'
    BY StepCapped, SMTT(60) DEF StoreInv
  <1> QED
    BY <1>1, <1>2, InitStore, StepStore, PTL DEF Spec

\* Each step of a goroutine is one step of KeyStore, or none.
LEMMA StepRefines ==
  ASSUME StoreInv, CappedInv, NEW t \in Threads, Step(t)
  PROVE  Promise!StoreNext \/ UNCHANGED <<items, callStatus, key>>
  <1> USE DEF StoreInv, TypeInv, TypeOK
  <1>1. Frame(t)
    BY StepFrame
  <1>2. CASE \/ Lookup(t) \/ Scan(t) \/ CleanupDone(t)
             \/ Load(t) \/ CompareAndSwap(t)
    <2>1. Busy(t) /\ items' = items /\ key' = key
      BY <1>2, SMTT(60)
         DEF Lookup, Scan, CleanupDone, Load, CompareAndSwap, Swaps, Goto,
             Busy, shardVars, localVars
    <2> QED
      BY <1>1, <2>1, StatusFrame, SMTT(60)
  <1>3. CASE \/ LeaveShard(t) \/ Sweep(t) \/ SweepShard(t)
             \/ SweepDone(t) \/ CheckFull(t)
    <2>1. Busy(t) /\ items' = items /\ key' = key
      BY <1>3, SMTT(60)
         DEF LeaveShard, Sweep, SweepShard, SweepDone, CheckFull, AfterSweep,
             Goto, Busy, shardVars, localVars
    <2> QED
      BY <1>1, <2>1, StatusFrame
  <1>4. CASE SkipShard(t) \/ NothingToEvict(t) \/ Relock(t) \/ Drain(t) \/ FireEvict(t)
    <2>1. Busy(t) /\ items' = items /\ key' = key
      BY <1>4, SMTT(60)
         DEF SkipShard, NothingToEvict, Relock, Drain, Taken, FireEvict, Goto,
             Busy, shardVars, localVars
    <2> QED
      BY <1>1, <2>1, StatusFrame
  <1>5. CASE DeleteExpired(t)
    <2>1. Busy(t) /\ key' = key
      BY <1>5, SMTT(60) DEF DeleteExpired, Busy
    <2>2. PICK k \in items : items' = items \ {k} /\ KeyTTL > 0
      BY <1>5, SMTT(60) DEF DeleteExpired, Delete, EntryInv, ExpiredInv
    <2> QED
      BY <1>1, <2>1, <2>2, StatusFrame, DeleteRefines, SMTT(60)
  <1>6. CASE EvictLocal(t)
    <2>1. Busy(t) /\ key' = key /\ Eviction = "lru" /\ MaxKeys > 0
      BY <1>6, SMTT(60)
         DEF EvictLocal, Busy, Goto, localVars, CappedInv, Capped
    <2>2. PICK k \in items : items' = items \ {k}
      BY <1>6, SMTT(60) DEF EvictLocal, EvictFrom, Delete, InShard
    <2> QED
      BY <1>1, <2>1, <2>2, StatusFrame, DeleteRefines, SMTT(60)
  <1>7. CASE EvictOther(t)
    <2>1. Busy(t) /\ key' = key /\ Eviction = "lru" /\ MaxKeys > 0
      BY <1>7, SMTT(60)
         DEF EvictOther, Busy, Goto, localVars, CappedInv, Capped
    <2>2. PICK k \in items : items' = items \ {k}
      BY <1>7, SMTT(60) DEF EvictOther, EvictFrom, Delete, InShard
    <2> QED
      BY <1>1, <2>1, <2>2, StatusFrame, DeleteRefines
  <1>8. CASE Recheck(t)
    <2>1. Busy(t) /\ key' = key
      BY <1>8, SMTT(60) DEF Recheck, Found, Busy, Goto, localVars
    <2>2. callStatus' = callStatus
      BY <1>1, <2>1, StatusFrame, SMTT(60)
    <2>3. CASE key[t] \in items
      BY <1>8, <2>1, <2>2, <2>3, SMTT(60) DEF Recheck, Found
    <2>4. CASE key[t] \notin items
      <3>1. callStatus[t] = "busy"
        BY <1>8, SMTT(60) DEF Recheck, Found, ResultInv, callStatus
      <3>2. Promise!HasRoom
        <4>1. t \in Reserving
          BY <1>8, SMTT(60) DEF Recheck, Found, Reserving
        <4>2. Cardinality(Reserving) \in Nat /\ Cardinality(Reserving) # 0
          BY <4>1, CountsFinite, FS_CardinalityType, FS_EmptySet, SMTT(60)
        <4>3. Cardinality(items) \in Nat
          BY CountsFinite, FS_CardinalityType, SMTT(60)
        <4>4. MaxKeys \in Nat /\ (MaxKeys > 0 => live <= MaxKeys)
          BY OptionsAssumption, SMTT(60) DEF SlotInv, ValidOptions
        <4>5. live = Cardinality(items) + Cardinality(Reserving)
          BY SMTT(60) DEF LiveExact
        <4>6. MaxKeys = 0 \/ Cardinality(items) < MaxKeys
          BY <4>2, <4>3, <4>4, <4>5, SMTT(60)
        <4> QED
          BY <4>6, SMTT(60)
             DEF Promise!HasRoom, Promise!Cardinality, Cardinality
      <3>3. Promise!Create(t)
        BY <1>8, <2>1, <2>2, <2>4, <3>1, <3>2, SMTT(60)
           DEF Recheck, Found, Promise!Create
      <3> QED
        BY <3>3, SMTT(60) DEF Promise!StoreNext
    <2> QED
      BY <2>3, <2>4, SMTT(60)
  <1>9. CASE RunFn(t)
    <2>1. callStatus[t] = "busy" /\ key[t] \in items
      BY <1>9, SMTT(60) DEF RunFn, ResultInv, EntryInv, HitInv, callStatus
    <2>2. callStatus' = [callStatus EXCEPT ![t] = "ok"]
      BY <1>1, <1>9, StatusChange, SMTT(60) DEF RunFn, Goto
    <2>3. Promise!Serve(t)
      BY <1>9, <2>1, <2>2, SMTT(60) DEF RunFn, Promise!Serve, shardVars
    <2> QED
      BY <2>3, SMTT(60) DEF Promise!StoreNext
  <1>10. CASE Reject(t)
    <2>1. callStatus[t] = "busy" /\ Eviction = "reject" /\ MaxKeys > 0
      BY <1>10, SMTT(60) DEF Reject, ResultInv, CappedInv, Capped, callStatus
    <2>2. callStatus' = [callStatus EXCEPT ![t] = "err"]
      BY <1>1, <1>10, StatusChange, SMTT(60) DEF Reject, Goto
    <2>3. Promise!Refuse(t)
      BY <1>10, <2>1, <2>2, SMTT(60) DEF Reject, Promise!Refuse, shardVars
    <2> QED
      BY <2>3, SMTT(60) DEF Promise!StoreNext
  <1>11. CASE Return(t)
    <2>1. callStatus[t] \in {"ok", "err"}
      BY <1>11, SMTT(60) DEF Return, ResultInv, callStatus
    <2>2. callStatus' = [callStatus EXCEPT ![t] = "idle"]
      BY <1>1, <1>11, StatusChange, SMTT(60) DEF Return, Goto
    <2>3. Promise!End(t)
      BY <1>11, <2>1, <2>2, AnyKeyType, Zenon
         DEF Return, Promise!End, shardVars
    <2> QED
      BY <2>3, SMTT(60) DEF Promise!StoreNext
  <1> QED
    BY <1>2, <1>3, <1>4, <1>5, <1>6, <1>7, <1>8, <1>9, <1>10, <1>11, SMTT(60)
       DEF Step

\* withState, for all its sharding, sweeping and lock juggling, implements the
\* atomic bounded key set its callers see.
THEOREM Refinement == Spec => ImplementsKeyStore
  <1>1. StoreInv /\ CappedInv /\ [Next]_vars
          => [Promise!StoreNext]_<<items, callStatus, key>>
    <2> SUFFICES ASSUME StoreInv, CappedInv, [Next]_vars
                 PROVE  Promise!StoreNext \/ UNCHANGED <<items, callStatus, key>>
      OBVIOUS
    <2>1. ASSUME NEW t \in Threads, NEW k \in Keys, Call(t, k)
          PROVE  Promise!StoreNext
      <3>1. pc[t] = "idle" /\ pc' = [pc EXCEPT ![t] = "lock"] /\ res' = res
            /\ items' = items /\ key' = [key EXCEPT ![t] = k]
        BY <2>1 DEF Call, Goto, shardVars
      <3>2. callStatus' = [callStatus EXCEPT ![t] = "busy"]
        BY <3>1, ZenonT(60)
           DEF callStatus, StoreInv, TypeInv, TypeOK, ResultInv
      <3>3. Promise!Begin(t, k)
        BY <3>1, <3>2 DEF Promise!Begin, callStatus
      <3> QED
        BY <3>3 DEF Promise!StoreNext
    <2>2. CASE Tick \/ UNCHANGED vars
      BY <2>2 DEF Tick, vars, shardVars, localVars, callStatus
    <2> QED
      BY <2>1, <2>2, StepRefines DEF Next
  <1> QED
    BY <1>1, InitRefines, StoreCapped, PTL
       DEF Spec, ImplementsKeyStore, Promise!StoreSpec, Promise!storeVars

-----------------------------------------------------------------------------
\* A key leaves the store only after keyTTL without a request, or by LRU
\* eviction under a cap, whatever the interleaving.
THEOREM KeysLeaveOnlyExpired == Spec => LeavesOnlyExpired
  <1> DEFINE Leaves == \A k \in items \ items' :
               \/ KeyTTL > 0 /\ clock - lastSeen[k] >= KeyTTL
               \/ Eviction = "lru" /\ MaxKeys > 0 /\ evicts' = evicts + 1
  <1>1. ASSUME StoreInv, CappedInv, [Next]_vars PROVE [Leaves]_vars
    <2> USE DEF StoreInv, TypeInv, TypeOK
    <2>1. ASSUME NEW t \in Threads, Step(t) PROVE Leaves
      <3>1. CASE DeleteExpired(t)
        <4>1. PICK k \in expired[t] : items' = items \ {k}
          BY <1>1, <3>1, SMTT(60)
             DEF DeleteExpired, Delete, EntryInv, ExpiredInv
        <4>2. KeyTTL > 0 /\ now[t] - lastSeen[k] >= KeyTTL /\ now[t] <= clock
          BY <1>1, SMTT(60) DEF EntryInv, ExpiredInv
        <4>3. /\ lastSeen[k] \in Int /\ now[t] \in Int
              /\ clock \in Int /\ KeyTTL \in Int
          BY <1>1, TimeAssumption, OptionsAssumption, SMTT(60)
             DEF ValidOptions
        <4>4. clock - lastSeen[k] >= KeyTTL
          BY <4>2, <4>3, SMTT(60)
        <4> QED
          BY <4>1, <4>2, <4>4, SMTT(60)
      <3>2. CASE EvictLocal(t) \/ EvictOther(t)
        BY <1>1, <3>2, SMTT(60)
           DEF EvictLocal, EvictOther, EvictFrom, CappedInv, Capped
      <3>3. CASE ~DeleteExpired(t) /\ ~EvictLocal(t) /\ ~EvictOther(t)
        <4>1. items \subseteq items'
          BY <2>1, <3>3, ZenonT(60)
             DEF Step, Lookup, Scan, CleanupDone, Load, CompareAndSwap, Swaps,
                 LeaveShard, Reject, Sweep, SweepShard, SweepDone, CheckFull,
                 SkipShard, NothingToEvict, Relock, Recheck, Found, RunFn,
                 Drain, Taken, FireEvict, Return, shardVars
        <4> QED
          BY <4>1, SMTT(60)
      <3> QED
        BY <3>1, <3>2, <3>3, SMTT(60)
    <2>2. ASSUME NEW t \in Threads, NEW k \in Keys, Call(t, k) PROVE Leaves
      BY <2>2 DEF Call, shardVars
    <2>3. CASE Tick
      BY <2>3 DEF Tick, shardVars
    <2> QED
      BY <1>1, <2>1, <2>2, <2>3 DEF Next
  <1> QED
    BY <1>1, StoreCapped, PTL DEF Spec, LeavesOnlyExpired
=============================================================================
