-------------------------- MODULE MemoryAllowProofs -------------------------
(***************************************************************************)
(* Allow of the in-memory limiters, for any number of goroutines, keys and *)
(* calls and every configuration of the store: what it reports, and how    *)
(* long it keeps a key.                                                    *)
(***************************************************************************)
EXTENDS MemoryAllow, ShardedStoreRefinement, WellFoundedInduction

\* Every step of Allow is a step of the store or leaves it alone.
LEMMA AllowStep == [AllowNext]_allVars => [Next]_vars
  <1> SUFFICES ASSUME [AllowNext]_allVars PROVE [Next]_vars
    OBVIOUS
  <1>1. ASSUME NEW t \in Threads, Proceed(t) PROVE [Next]_vars
    <2>1. Step(t) \/ UNCHANGED vars
      BY <1>1, Zenon DEF Proceed, WithState, Tell, SetKeys, DrainEvictions, Step
    <2> QED
      BY <2>1, Zenon DEF Next
  <1>2. ASSUME NEW t \in Threads, NEW k \in Keys, AllowKey(t, k)
        PROVE  [Next]_vars
    BY <1>2, Zenon DEF AllowKey, Next
  <1>3. ASSUME NEW t \in Threads, AllowBlank(t) PROVE [Next]_vars
    BY <1>3, Zenon DEF AllowBlank
  <1>4. CASE Tick \/ UNCHANGED allVars
    BY <1>4, Zenon DEF allVars, Next
  <1> QED
    BY <1>1, <1>2, <1>3, <1>4, Zenon DEF AllowNext

\* The store under Allow is the store of ShardedStore: what is proved of it
\* holds of the limiters too.
THEOREM AllowUsesStore == AllowSpec => Spec
  <1>1. AllowInit => Init
    BY DEF AllowInit
  <1> QED
    BY <1>1, AllowStep, PTL DEF AllowSpec, Spec

-----------------------------------------------------------------------------
(* Reports.                                                                 *)

\* Calls that have told the sink nothing yet.
Untold == {t \in Threads : pc[t] # "idle" /\ phase[t] = "none"}

ReportTypes ==
  /\ phase \in [Threads -> {"none", "told", "set"}]
  /\ count \in [Threads -> Int]

\* A call reports only after withState has returned.
PhaseInv == \A t \in Threads : phase[t] # "none" => pc[t] \in {"ret", "fire"}

\* When no call is about to report, the latest count is that of the keys.
GaugeInv ==
  \/ Untold # {}
  \/ /\ settled => gauge = live
     /\ latest \in Threads /\ phase[latest] = "told" => count[latest] = live

ReportInv == ReportTypes /\ PhaseInv /\ GaugeInv

LEMMA InitReport == AllowInit => ReportInv
  <1> SUFFICES ASSUME AllowInit PROVE ReportInv
    BY SMTT(60)
  <1>1. ReportTypes /\ PhaseInv
    BY DEF AllowInit, Init, ReportTypes, PhaseInv
  <1>2. GaugeInv
    BY DEF AllowInit, Init, GaugeInv
  <1> QED
    BY <1>1, <1>2, SMTT(60) DEF ReportInv

\* A step of withState by a call that has told nothing.
LEMMA WithStateReports ==
  ASSUME TypeInv, ReportInv, NEW t \in Threads, WithState(t)
  PROVE  ReportInv'
  <1>1. /\ UNCHANGED <<phase, count, latest, gauge, settled>>
        /\ Step(t) /\ pc[t] \notin {"ret", "fire"}
    BY DEF WithState, sinkVars
  <1>2. pc[t] # "idle" /\ pc'[t] # "idle"
    <2> USE DEF Goto, TypeInv, TypeOK
    <2>1. CASE \/ Lookup(t) \/ Scan(t) \/ DeleteExpired(t) \/ CleanupDone(t)
               \/ Load(t) \/ CompareAndSwap(t) \/ EvictLocal(t)
      BY <2>1, Zenon DEF Lookup, Scan, DeleteExpired, CleanupDone, Load,
         CompareAndSwap, EvictLocal
    <2>2. CASE \/ LeaveShard(t) \/ Reject(t) \/ Sweep(t) \/ SweepShard(t)
               \/ SweepDone(t)
      BY <2>2, ZenonT(60)
         DEF LeaveShard, Reject, Sweep, SweepShard, SweepDone, AfterSweep
    <2>3. CASE \/ CheckFull(t) \/ EvictOther(t) \/ SkipShard(t)
               \/ NothingToEvict(t) \/ Relock(t) \/ Recheck(t) \/ RunFn(t)
      BY <2>3, Zenon DEF CheckFull, EvictOther, SkipShard, NothingToEvict,
         Relock, Recheck, RunFn
    <2>4. CASE Drain(t) \/ FireEvict(t) \/ Return(t)
      BY <1>1, <2>4, ZenonT(60) DEF Drain, FireEvict, Return
    <2> QED
      BY <1>1, <2>1, <2>2, <2>3, <2>4, ZenonT(60) DEF Step
  <1>3. \A u \in Threads \ {t} : pc'[u] = pc[u]
    BY <1>1, StepFrame, SMTT(60) DEF Frame
  <1>4. phase[t] = "none"
    BY <1>1 DEF ReportInv, PhaseInv
  <1>5. Untold' = Untold /\ t \in Untold
    BY <1>1, <1>2, <1>3, <1>4, ZenonT(60) DEF Untold
  <1>6. PhaseInv' /\ ReportTypes'
    BY <1>1, <1>3, <1>4, Zenon DEF ReportInv, PhaseInv, ReportTypes
  <1> QED
    BY <1>5, <1>6, ZenonT(60) DEF ReportInv, GaugeInv

LEMMA TellReports ==
  ASSUME TypeInv, ReportInv, NEW t \in Threads, Tell(t)
  PROVE  ReportInv'
  <1>1. /\ pc[t] = "ret" /\ phase[t] = "none"
        /\ count' = [count EXCEPT ![t] = live] /\ latest' = t
        /\ settled' = FALSE /\ phase' = [phase EXCEPT ![t] = "told"]
        /\ pc' = pc /\ live' = live
    BY SMTT(60) DEF Tell, len, vars
  <1>2. ReportTypes /\ PhaseInv /\ live \in Int
    BY SMTT(60) DEF ReportInv, TypeInv, TypeOK
  <1>3. ReportTypes' /\ PhaseInv'
    BY <1>1, <1>2, SMTT(60) DEF ReportTypes, PhaseInv
  <1>4. GaugeInv'
    BY <1>1, <1>2, SMTT(60) DEF GaugeInv, ReportTypes
  <1> QED
    BY <1>3, <1>4, SMTT(60) DEF ReportInv

\* A step of a call that has told the sink its decision.
LEMMA ToldReports ==
  ASSUME TypeInv, ReportInv, NEW t \in Threads, SetKeys(t) \/ DrainEvictions(t)
  PROVE  ReportInv'
  <1>1. ReportTypes /\ PhaseInv /\ phase[t] \in {"told", "set"}
    BY SMTT(60) DEF ReportInv, SetKeys, DrainEvictions
  <1>2. /\ live' = live /\ latest' = latest
        /\ \A u \in Threads \ {t} :
             pc'[u] = pc[u] /\ phase'[u] = phase[u] /\ count'[u] = count[u]
        /\ ReportTypes' /\ PhaseInv'
        /\ phase'[t] = "none" => pc'[t] = "idle"
        /\ phase'[t] # "told"
    <2>1. /\ live' = live /\ latest' = latest
          /\ \/ /\ pc' = pc /\ count' = count
                /\ phase' = [phase EXCEPT ![t] = "set"]
             \/ /\ phase[t] = "set" /\ phase' = phase /\ count' = count
                /\ pc' = pc \/ pc' = [pc EXCEPT ![t] = "fire"]
             \/ /\ pc' = [pc EXCEPT ![t] = "idle"]
                /\ phase' = [phase EXCEPT ![t] = "none"]
                /\ count' = [count EXCEPT ![t] = 0]
      <3>1. CASE SetKeys(t)
        BY <3>1, Zenon DEF SetKeys, vars
      <3>2. CASE DrainEvictions(t)
        BY <3>2, Zenon DEF DrainEvictions, Drain, FireEvict, Return, Goto
      <3> QED
        BY <3>1, <3>2, Zenon
    <2>2. pc \in [Threads -> PCs]
      BY Zenon DEF TypeInv, TypeOK
    <2>3. /\ \A u \in Threads \ {t} :
               pc'[u] = pc[u] /\ phase'[u] = phase[u] /\ count'[u] = count[u]
          /\ phase'[t] = "none" => pc'[t] = "idle"
          /\ phase'[t] # "none" => pc'[t] \in {"ret", "fire"}
          /\ phase'[t] # "told"
      BY <1>1, <2>1, <2>2, SMTT(60) DEF ReportTypes, PhaseInv
    <2>4. ReportTypes'
      BY <1>1, <2>1, SMTT(60) DEF ReportTypes
    <2>5. PhaseInv'
      BY <1>1, <2>3, ZenonT(60) DEF PhaseInv
    <2> QED
      BY <2>1, <2>3, <2>4, <2>5, ZenonT(60)
  <1>3. Untold' = Untold
    BY <1>1, <1>2, SMTT(60) DEF Untold
  <1>4. GaugeInv'
    <2>1. CASE Untold # {}
      BY <1>3, <2>1, SMTT(60) DEF GaugeInv
    <2>2. CASE Untold = {} /\ SetKeys(t)
      BY <1>1, <1>2, <2>2, ZenonT(60) DEF SetKeys, ReportInv, GaugeInv
    <2>3. CASE Untold = {} /\ DrainEvictions(t)
      <3>1. settled' = settled /\ gauge' = gauge
        BY <2>3, SMTT(60) DEF DrainEvictions
      <3> QED
        BY <1>2, <2>3, <3>1, SMTT(60) DEF ReportInv, GaugeInv
    <2> QED
      BY <2>1, <2>2, <2>3, SMTT(60)
  <1> QED
    BY <1>2, <1>4, SMTT(60) DEF ReportInv

LEMMA StepReport ==
  TypeInv /\ ReportInv /\ [AllowNext]_allVars => ReportInv'
  <1> SUFFICES ASSUME TypeInv, ReportInv, [AllowNext]_allVars PROVE ReportInv'
    OBVIOUS
  <1>1. ReportTypes /\ PhaseInv
    BY SMTT(60) DEF ReportInv
  <1>2. ASSUME NEW t \in Threads, AllowBlank(t) PROVE ReportInv'
    BY <1>2, ZenonT(60)
       DEF AllowBlank, vars, sinkVars, ReportInv, ReportTypes, PhaseInv,
           GaugeInv, Untold
  <1>3. ASSUME NEW t \in Threads, NEW k \in Keys, AllowKey(t, k)
        PROVE  ReportInv'
    <2>1. /\ pc[t] = "idle" /\ pc' = [pc EXCEPT ![t] = "lock"]
          /\ UNCHANGED <<phase, count, latest, gauge, settled>>
      BY <1>3, SMTT(60) DEF AllowKey, Call, Goto, sinkVars
    <2>2. pc \in [Threads -> PCs] /\ phase[t] = "none"
      BY <1>1, <2>1, SMTT(60) DEF TypeInv, TypeOK, PhaseInv
    <2>3. t \in Untold'
      BY <2>1, <2>2, SMTT(60) DEF Untold
    <2>4. ReportTypes' /\ PhaseInv'
      BY <1>1, <2>1, <2>2, SMTT(60) DEF ReportTypes, PhaseInv
    <2> QED
      BY <2>3, <2>4, SMTT(60) DEF ReportInv, GaugeInv
  <1>4. CASE Tick /\ UNCHANGED <<calls, sinkVars, historyVars>>
    BY <1>4, Zenon DEF Tick, sinkVars, ReportInv, ReportTypes, PhaseInv,
       GaugeInv, Untold
  <1>5. CASE UNCHANGED allVars
    BY <1>5, ZenonT(60)
       DEF allVars, vars, sinkVars, ReportInv, ReportTypes, PhaseInv,
           GaugeInv, Untold
  <1> QED
    BY <1>2, <1>3, <1>4, <1>5, WithStateReports, TellReports, ToldReports,
       SMTT(60)
       DEF AllowNext, Proceed

\* The reports' invariant holds.
LEMMA ReportInvariant == AllowSpec => []ReportInv
  <1>1. Spec => []TypeInv
    BY InitType, StepType, PTL DEF Spec
  <1> QED
    BY <1>1, AllowUsesStore, InitReport, StepReport, PTL DEF AllowSpec

\* When no call is under way and the count read last came last, the sink has
\* the number of stored keys.
THEOREM GaugeRight == AllowSpec => []GaugeSettles
  <1>1. ASSUME StoreInv, ReportInv, Quiet, settled
        PROVE  gauge = Cardinality(items)
    <2>1. Untold = {} /\ Reserving = {}
      BY <1>1, SMTT(60) DEF Quiet, Untold, Reserving
    <2>2. gauge = live
      BY <1>1, <2>1, SMTT(60) DEF ReportInv, GaugeInv
    <2>3. live = Cardinality(items) + 0
      BY <1>1, <2>1, FS_EmptySet, SMTT(60) DEF StoreInv, LiveExact
    <2>4. Cardinality(items) \in Nat
      BY <1>1, FiniteAssumption, FS_Subset, FS_CardinalityType, SMTT(60)
         DEF StoreInv, TypeInv, TypeOK
    <2> QED
      BY <2>2, <2>3, <2>4, SMTT(60)
  <1>2. StoreInv /\ ReportInv => GaugeSettles
    BY <1>1, SMTT(60) DEF GaugeSettles
  <1> QED
    BY <1>2, AllowUsesStore, StoreInvariant, ReportInvariant, PTL

-----------------------------------------------------------------------------
(* How long a key is kept.                                                  *)

\* lastSeen is the time of the latest request, but for keys touched out of
\* clock order.
SeenInv ==
  /\ seen \in [Keys -> Nat]
  /\ \A k \in Keys \ items : seen[k] = 0
  /\ \A k \in items \ late : lastSeen[k] = seen[k]

\* What a step of withState does to the stored keys and their times.
SeenEffect(t) ==
  \/ /\ Touches(t)
     /\ items' = items \cup {key[t]}
     /\ lastSeen' = [lastSeen EXCEPT ![key[t]] = now[t]]
  \/ /\ ~Touches(t)
     /\ items' \subseteq items
     /\ \A k \in items' : lastSeen'[k] = lastSeen[k]

LEMMA StepSeenEffect ==
  ASSUME TypeInv, NEW t \in Threads, Step(t)
  PROVE  SeenEffect(t)
  <1> USE DEF SeenEffect, Touches, TypeInv, TypeOK, shardVars
  <1>1. CASE Lookup(t)
    <2>1. CASE key[t] \in items
      BY <1>1, <2>1, SMTT(60) DEF Lookup, Touch
    <2>2. CASE key[t] \notin items
      BY <1>1, <2>2, SMTT(60) DEF Lookup
    <2> QED
      BY <2>1, <2>2, SMTT(60)
  <1>2. CASE Recheck(t)
    BY <1>2, SMTT(60) DEF Recheck, Found, Touch
  <1>3. CASE DeleteExpired(t) \/ EvictLocal(t) \/ EvictOther(t)
    <2>1. /\ pc[t] \notin {"lock", "recheck"}
          /\ \/ items' = items /\ lastSeen' = lastSeen
             \/ \E k \in Keys : /\ items' = items \ {k}
                                /\ lastSeen' = [lastSeen EXCEPT ![k] = 0]
      <3>1. CASE DeleteExpired(t)
        BY <3>1, SMTT(60) DEF DeleteExpired, Delete
      <3>2. CASE EvictLocal(t)
        BY <3>2, Zenon DEF EvictLocal, EvictFrom, Delete, InShard
      <3>3. CASE EvictOther(t)
        BY <3>3, Zenon DEF EvictOther, EvictFrom, Delete, InShard
      <3> QED
        BY <1>3, <3>1, <3>2, <3>3, SMTT(60)
    <2> QED
      BY <2>1, SMTT(60)
  <1>4. CASE \/ Scan(t) \/ CleanupDone(t) \/ Load(t) \/ CompareAndSwap(t)
             \/ LeaveShard(t) \/ Reject(t) \/ Sweep(t) \/ SweepShard(t)
    BY <1>4, ZenonT(60)
       DEF Scan, CleanupDone, Load, CompareAndSwap, LeaveShard, Reject, Sweep,
           SweepShard
  <1>5. CASE \/ SweepDone(t) \/ CheckFull(t) \/ SkipShard(t)
             \/ NothingToEvict(t) \/ Relock(t) \/ RunFn(t) \/ Drain(t)
             \/ FireEvict(t) \/ Return(t)
    BY <1>5, ZenonT(60)
       DEF SweepDone, CheckFull, SkipShard, NothingToEvict, Relock, RunFn,
           Drain, FireEvict, Return
  <1> QED
    BY <1>1, <1>2, <1>3, <1>4, <1>5, ZenonT(60) DEF Step

LEMMA StepSeen == TypeInv /\ SeenInv /\ [AllowNext]_allVars => SeenInv'
  <1> SUFFICES ASSUME TypeInv, SeenInv, [AllowNext]_allVars PROVE SeenInv'
    OBVIOUS
  <1>1. ASSUME NEW t \in Threads, WithState(t) PROVE SeenInv'
    <2>1. SeenEffect(t) /\ Remember(t)
      BY <1>1, StepSeenEffect, SMTT(60) DEF WithState
    <2>2. /\ key[t] \in Keys /\ now[t] \in Nat /\ items \subseteq Keys
          /\ lastSeen \in [Keys -> 0 .. MaxTime]
      BY TimeAssumption, SMTT(60) DEF TypeInv, TypeOK
    <2>3. seen' \in [Keys -> Nat] /\ \A k \in Keys \ items' : seen'[k] = 0
      BY <2>1, <2>2, SMTT(60) DEF Remember, SeenInv
    <2>4. ASSUME NEW k \in items', k \notin late' PROVE lastSeen'[k] = seen'[k]
      <3>1. CASE Touches(t) /\ k = key[t]
        <4>1. lastSeen'[k] = now[t]
          BY <2>1, <2>2, <3>1, SMTT(60) DEF SeenEffect
        <4>2. /\ ~(now[t] < seen[k])
              /\ seen'[k] = IF now[t] > seen[k] THEN now[t] ELSE seen[k]
          BY <2>1, <2>2, <2>4, <3>1, SMTT(60) DEF Remember
        <4> QED
          BY <2>2, <3>1, <4>1, <4>2, SMTT(60) DEF SeenInv
      <3>2. CASE ~(Touches(t) /\ k = key[t])
        <4>1. k \in items /\ lastSeen'[k] = lastSeen[k]
          BY <2>1, <2>2, <2>4, <3>2, SMTT(60) DEF SeenEffect
        <4>2. seen'[k] = seen[k] /\ k \notin late
          BY <2>1, <2>2, <2>4, <3>2, <4>1, SMTT(60) DEF Remember
        <4> QED
          BY <4>1, <4>2, SMTT(60) DEF SeenInv
      <3> QED
        BY <3>1, <3>2, SMTT(60)
    <2> QED
      BY <2>3, <2>4, SMTT(60) DEF SeenInv
  <1>2. CASE UNCHANGED <<items, lastSeen, seen, late>>
    BY <1>2, SMTT(60) DEF SeenInv
  <1>3. ASSUME NEW t \in Threads, DrainEvictions(t)
        PROVE  UNCHANGED <<items, lastSeen, seen, late>>
    BY <1>3, Zenon DEF DrainEvictions, Drain, FireEvict, Return, shardVars,
       historyVars
  <1>4. ASSUME NEW t \in Threads,
               \/ Tell(t) \/ SetKeys(t) \/ AllowBlank(t)
               \/ \E k \in Keys : AllowKey(t, k)
        PROVE  UNCHANGED <<items, lastSeen, seen, late>>
    BY <1>4, Zenon DEF Tell, SetKeys, AllowBlank, AllowKey, Call, vars,
       shardVars, historyVars
  <1>5. CASE (Tick /\ UNCHANGED <<calls, sinkVars, historyVars>>)
             \/ UNCHANGED allVars
    BY <1>2, <1>5, Zenon DEF Tick, allVars, vars, shardVars, historyVars
  <1> QED
    BY <1>1, <1>2, <1>3, <1>4, <1>5, ZenonT(60) DEF AllowNext, Proceed

\* A key that is not evicted outlives its latest request by keyTTL, unless its
\* requests overtook each other.
THEOREM FreshStays == AllowSpec => FreshKept
  <1> DEFINE Leaves == \A k \in items \ items' :
               \/ KeyTTL > 0 /\ clock - lastSeen[k] >= KeyTTL
               \/ Eviction = "lru" /\ MaxKeys > 0 /\ evicts' = evicts + 1
             Fresh == \A k \in items \ items' :
               evicts' = evicts /\ k \notin late => clock - seen[k] >= KeyTTL
  <1>1. AllowInit => SeenInv
    BY SMTT(60) DEF AllowInit, Init, SeenInv
  <1>2. Spec => []TypeInv
    BY InitType, StepType, PTL DEF Spec
  <1>3. ASSUME TypeInv, SeenInv, [Leaves]_vars PROVE [Fresh]_allVars
    <2>1. CASE Leaves
      <3> SUFFICES ASSUME NEW k \in items \ items', evicts' = evicts,
                          k \notin late
                   PROVE  clock - seen[k] >= KeyTTL
        BY SMTT(60)
      <3>1. evicts' # evicts + 1
        BY <1>3, SMTT(60) DEF TypeInv, TypeOK
      <3> QED
        BY <1>3, <2>1, <3>1, SMTT(60) DEF SeenInv
    <2>2. CASE UNCHANGED vars
      BY <2>2 DEF vars, shardVars
    <2> QED
      BY <1>3, <2>1, <2>2, SMTT(60)
  <1>4. AllowSpec => [][Leaves]_vars
    BY AllowUsesStore, KeysLeaveOnlyExpired, PTL DEF LeavesOnlyExpired
  <1>5. AllowSpec => [](TypeInv /\ SeenInv)
    BY <1>1, <1>2, AllowUsesStore, StepSeen, PTL DEF AllowSpec
  <1> QED
    BY <1>3, <1>4, <1>5, PTL DEF FreshKept

-----------------------------------------------------------------------------
(* Sums over a finite set.                                                  *)

Less == {ss \in Nat \X Nat : ss[1] < ss[2]}

\* A set of numbers has a least one: inductions below look at the least
\* counterexample.
LEMMA HasLeast ==
  ASSUME NEW T \in SUBSET Nat, T # {}
  PROVE  \E x \in T : \A y \in T : x <= y
  <1>1. IsWellFoundedOn(Less, Nat)
    BY NatLessThanWellFounded, Zenon DEF OpToRel, Less
  <1>2. PICK x \in T : \A y \in T : ~(<<y, x>> \in Less)
    BY <1>1, WFMin, Zenon
  <1>3. \A y \in T : ~(y < x)
    BY <1>2, Zenon DEF Less
  <1> QED
    BY <1>3

\* A property of subsets that fails, fails of a smallest one.
LEMMA SmallestSubset ==
  ASSUME NEW S, IsFiniteSet(S), NEW Bad \in SUBSET SUBSET S, Bad # {}
  PROVE  \E s \in Bad : \A r \in SUBSET S :
           Cardinality(r) < Cardinality(s) => r \notin Bad
  <1> DEFINE Sizes == {Cardinality(s) : s \in Bad}
  <1>1. \A s \in SUBSET S : Cardinality(s) \in Nat
    BY FS_Subset, FS_CardinalityType, Zenon
  <1>2. Sizes \in SUBSET Nat /\ Sizes # {}
    BY <1>1, Zenon
  <1>3. PICK m \in Sizes : \A y \in Sizes : m <= y
    BY <1>2, HasLeast, Zenon
  <1>4. PICK s \in Bad : Cardinality(s) = m
    BY <1>3, Zenon
  <1>5. ASSUME NEW r \in SUBSET S, Cardinality(r) < Cardinality(s), r \in Bad
        PROVE  FALSE
    <2>1. m <= Cardinality(r) /\ m \in Nat /\ Cardinality(r) \in Nat
      BY <1>1, <1>2, <1>3, <1>5, ZenonT(60)
    <2> QED
      BY <1>4, <1>5, <2>1, SMTT(60)
  <1> QED
    BY <1>4, <1>5, Zenon

OneOf(s) == CHOOSE x \in s : TRUE

Rest(s) == s \ {OneOf(s)}

LEMMA RestSmaller ==
  ASSUME NEW S, IsFiniteSet(S), NEW s \in SUBSET S, s # {}
  PROVE  /\ OneOf(s) \in s /\ Rest(s) \in SUBSET S
         /\ Cardinality(s) \in Nat /\ Cardinality(Rest(s)) \in Nat
         /\ Cardinality(Rest(s)) = Cardinality(s) - 1
  <1>1. OneOf(s) \in s
    BY Zenon DEF OneOf
  <1>2. IsFiniteSet(s) /\ Cardinality(s) \in Nat
    BY FS_Subset, FS_CardinalityType, Zenon
  <1>3. /\ IsFiniteSet(Rest(s))
        /\ Cardinality(Rest(s)) = Cardinality(s) - 1
    BY <1>1, <1>2, FS_RemoveElement, Zenon DEF Rest
  <1>4. Cardinality(Rest(s)) \in Nat
    BY <1>3, FS_CardinalityType, Zenon
  <1>5. Rest(s) \in SUBSET S
    BY Zenon DEF Rest
  <1> QED
    BY <1>1, <1>2, <1>3, <1>4, <1>5, ZenonT(60)

\* g gives the sum of f over each set of the family D.
Sums(D, f, g) ==
  g = [s \in D |-> IF s = {} THEN 0 ELSE f[OneOf(s)] + g[Rest(s)]]

LEMMA SumsExist ==
  ASSUME NEW S, IsFiniteSet(S), NEW f
  PROVE  \E g : Sums(SUBSET S, f, g)
  <1> DEFINE D(m) == {s \in SUBSET S : Cardinality(s) <= m}
             Bad == {m \in Nat : ~ \E g : Sums(D(m), f, g)}
  <1>1. \A s \in SUBSET S : /\ Cardinality(s) \in Nat
                            /\ Cardinality(s) <= Cardinality(S)
                            /\ Cardinality(s) = 0 <=> s = {}
    BY FS_Subset, FS_CardinalityType, FS_EmptySet, Zenon
  <1>2. ASSUME NEW m \in Bad, \A y \in Bad : m <= y PROVE FALSE
    <2>1. CASE m = 0
      <3> DEFINE g == [s \in D(0) |-> 0]
      <3>1. \A s \in D(0) : s = {}
        BY <1>1, SMTT(60)
      <3> HIDE DEF D
      <3>2. g = [s \in D(0) |-> IF s = {} THEN 0 ELSE f[OneOf(s)] + g[Rest(s)]]
        BY <3>1, SMT
      <3> QED
        BY <1>2, <2>1, <3>2, Zenon DEF Sums
    <2>2. CASE m # 0
      <3>1. m - 1 \in Nat /\ m - 1 \notin Bad
        <4>1. m \in Nat
          BY Zenon
        <4>2. m - 1 \in Nat /\ ~(m <= m - 1)
          BY <2>2, <4>1, SMTT(60)
        <4> QED
          BY <1>2, <4>2, Zenon
      <3>2. PICK h : Sums(D(m - 1), f, h)
        BY <3>1, Zenon
      <3> DEFINE g == [s \in D(m) |-> IF s \in D(m - 1) THEN h[s]
                                      ELSE f[OneOf(s)] + h[Rest(s)]]
                 E == D(m - 1)
      <3>3. \A s \in E : h[s] = IF s = {} THEN 0 ELSE f[OneOf(s)] + h[Rest(s)]
        BY <3>2, Zenon DEF Sums
      <3>4. \A s \in D(m) : s # {} => Rest(s) \in E /\ Rest(s) \in D(m)
        <4> SUFFICES ASSUME NEW s \in D(m), s # {}
                     PROVE  Rest(s) \in E /\ Rest(s) \in D(m)
          BY Zenon
        <4>1. s \in SUBSET S /\ Cardinality(s) <= m
          BY Zenon
        <4>2. /\ Rest(s) \in SUBSET S
              /\ Cardinality(s) \in Nat /\ Cardinality(Rest(s)) \in Nat
              /\ Cardinality(Rest(s)) = Cardinality(s) - 1
          BY <4>1, RestSmaller, ZenonT(60)
        <4>3. Cardinality(Rest(s)) <= m - 1 /\ Cardinality(Rest(s)) <= m
          BY <3>1, <4>1, <4>2, SMTT(60)
        <4> QED
          BY <4>2, <4>3, Zenon
      <3>5. {} \in E
        <4>1. {} \in SUBSET S /\ Cardinality({}) <= m - 1
          BY <3>1, FS_EmptySet, SMTT(60)
        <4> QED
          BY <4>1, Zenon
      <3> HIDE DEF D, E
      <3>6. \A s \in D(m) : s # {} => g[Rest(s)] = h[Rest(s)]
        BY <3>4, Zenon DEF E
      <3>7. \A s \in D(m) :
              g[s] = IF s = {} THEN 0 ELSE f[OneOf(s)] + g[Rest(s)]
        <4> SUFFICES ASSUME NEW s \in D(m)
                     PROVE g[s] = IF s = {} THEN 0 ELSE f[OneOf(s)] + g[Rest(s)]
          BY Zenon
        <4>1. g[s] = IF s \in E THEN h[s] ELSE f[OneOf(s)] + h[Rest(s)]
          BY Zenon DEF E
        <4> HIDE DEF g
        <4> QED
          BY <3>3, <3>5, <3>6, <4>1, ZenonT(60)
      <3>8. g = [s \in D(m) |-> g[s]]
        BY Zenon
      <3> HIDE DEF g
      <3>9. Sums(D(m), f, g)
        BY <3>7, <3>8, Zenon DEF Sums
      <3> QED
        BY <1>2, <3>9, Zenon
    <2> QED
      BY <2>1, <2>2, Zenon
  <1>3. Bad = {}
    BY <1>2, HasLeast, Zenon
  <1>4. Cardinality(S) \in Nat /\ D(Cardinality(S)) = SUBSET S
    BY <1>1, FS_CardinalityType, Zenon
  <1> QED
    BY <1>3, <1>4, Zenon

\* g gives the sum of f over each subset of S.
GivesTotals(g, f, S) ==
  /\ Total(f, S) = g[S]
  /\ \A s \in SUBSET S :
       g[s] = IF s = {} THEN 0 ELSE f[OneOf(s)] + g[Rest(s)]

LEMMA TotalIs ==
  ASSUME NEW S, IsFiniteSet(S), NEW f
  PROVE  \E g : GivesTotals(g, f, S)
  <1> DEFINE g == CHOOSE h : Sums(SUBSET S, f, h)
  <1>1. Total(f, S) = g[S]
    BY Zenon DEF Total, MapThenSumSet, MapThenFoldSet, Sums, OneOf, Rest
  <1>2. Sums(SUBSET S, f, g)
    BY SumsExist, Zenon
  <1> HIDE DEF g
  <1>3. \A s \in SUBSET S :
          g[s] = IF s = {} THEN 0 ELSE f[OneOf(s)] + g[Rest(s)]
    BY <1>2, Zenon DEF Sums
  <1> QED
    BY <1>1, <1>3, Zenon DEF GivesTotals

\* A sum of zeros.
LEMMA TotalZero ==
  ASSUME NEW S, IsFiniteSet(S), NEW f, \A x \in S : f[x] = 0
  PROVE  Total(f, S) = 0
  <1>1. PICK g : GivesTotals(g, f, S)
    BY TotalIs, Zenon
  <1> DEFINE Bad == {s \in SUBSET S : g[s] # 0}
  <1>2. ASSUME NEW s \in Bad,
               \A r \in SUBSET S :
                 Cardinality(r) < Cardinality(s) => r \notin Bad
        PROVE  FALSE
    <2>1. s \in SUBSET S /\ s # {} /\ g[s] = f[OneOf(s)] + g[Rest(s)]
      BY <1>1, <1>2, ZenonT(60) DEF GivesTotals
    <2>2. /\ OneOf(s) \in s /\ Rest(s) \in SUBSET S
          /\ Cardinality(Rest(s)) < Cardinality(s)
      BY <2>1, RestSmaller, SMTT(60)
    <2>3. g[Rest(s)] = 0 /\ f[OneOf(s)] = 0
      BY <1>2, <2>1, <2>2, ZenonT(60)
    <2>4. g[s] = 0
      BY <2>1, <2>3, SMTT(60)
    <2> QED
      BY <1>2, <2>4, Zenon
  <1>3. Bad = {}
    <2>1. Bad \in SUBSET SUBSET S
      BY Zenon
    <2> HIDE DEF Bad
    <2> QED
      BY <1>2, <2>1, SmallestSubset, Zenon
  <1> QED
    BY <1>1, <1>3, Zenon DEF GivesTotals

\* A sum changes by what one of its terms changes.
LEMMA TotalChange ==
  ASSUME NEW S, IsFiniteSet(S), NEW f \in [S -> Int], NEW t \in S,
         NEW e \in [S -> Int], \A x \in S \ {t} : e[x] = f[x]
  PROVE  /\ Total(f, S) \in Int
         /\ Total(e, S) = Total(f, S) + (e[t] - f[t])
  <1>1. PICK g : GivesTotals(g, f, S)
    BY TotalIs, Zenon
  <1>2. PICK h : GivesTotals(h, e, S)
    BY TotalIs, Zenon
  <1> DEFINE Good(s) == /\ g[s] \in Int
                        /\ h[s] = g[s] + (IF t \in s THEN e[t] - f[t] ELSE 0)
             Bad == {s \in SUBSET S : ~ Good(s)}
  <1>3. ASSUME NEW s \in Bad,
               \A r \in SUBSET S :
                 Cardinality(r) < Cardinality(s) => r \notin Bad
        PROVE  FALSE
    <2>1. s \in SUBSET S /\ ~ Good(s)
      BY Zenon
    <2>2. CASE s = {}
      <3>1. g[s] = 0 /\ h[s] = 0
        BY <1>1, <1>2, <2>1, <2>2, ZenonT(60) DEF GivesTotals
      <3> QED
        BY <2>1, <2>2, <3>1, SMTT(60)
    <2>3. CASE s # {}
      <3> DEFINE x == OneOf(s)
                 r == Rest(s)
      <3>1. g[s] = f[x] + g[r] /\ h[s] = e[x] + h[r]
        BY <1>1, <1>2, <2>1, <2>3, ZenonT(60) DEF GivesTotals
      <3>2. /\ x \in s /\ r \in SUBSET S
            /\ Cardinality(r) < Cardinality(s)
        BY <2>1, <2>3, RestSmaller, SMTT(60)
      <3>3. Good(r)
        BY <1>3, <3>2, Zenon
      <3>4. t \in s <=> (t \in r \/ t = x)
        BY <3>2, Zenon DEF Rest
      <3>5. x \in S /\ x \notin r
        BY <2>1, <3>2, ZenonT(60) DEF Rest
      <3> HIDE DEF x, r
      <3>6. Good(s)
        <4>1. /\ f[x] \in Int /\ e[x] \in Int /\ f[t] \in Int /\ e[t] \in Int
              /\ x # t => e[x] = f[x]
          BY <3>5, SMTT(60)
        <4>2. CASE x = t
          BY <3>1, <3>3, <3>4, <3>5, <4>1, <4>2, SMTT(60)
        <4>3. CASE x # t
          BY <3>1, <3>3, <3>4, <4>1, <4>3, SMTT(60)
        <4> QED
          BY <4>2, <4>3, SMTT(60)
      <3> QED
        BY <2>1, <3>6, Zenon
    <2> QED
      BY <2>2, <2>3, SMTT(60)
  <1>4. Bad = {}
    <2>1. Bad \in SUBSET SUBSET S
      BY Zenon
    <2> HIDE DEF Bad
    <2> QED
      BY <1>3, <2>1, SmallestSubset, Zenon
  <1>5. Good(S)
    BY <1>4, Zenon
  <1> QED
    BY <1>1, <1>2, <1>5, Zenon DEF GivesTotals

-----------------------------------------------------------------------------
(* Evictions.                                                               *)

EvictInv ==
  /\ evicted \in Nat /\ onEvicts \in Nat
  /\ EvictionsReported

LEMMA FiringType ==
  ASSUME TypeInv
  PROVE  firing \in [Threads -> Int]
  BY DEF firing, TypeInv, TypeOK

\* A step of withState counts the keys it evicts, and reports none.
LEMMA WithStateEvicts ==
  ASSUME TypeInv, NEW t \in Threads, WithState(t), evicted \in Nat
  PROVE  /\ evicts' \in Nat /\ evicted' \in Nat
         /\ evicted' - evicted = evicts' - evicts
         /\ firing' = firing
  <1>1. /\ Step(t) /\ pc[t] \notin {"ret", "fire"}
        /\ evicted' = IF pc[t] \in {"full", "evictNext"}
                      THEN evicted + Cardinality(items \ items') ELSE evicted
    BY Zenon DEF WithState, Remember
  <1>2. evicts \in Nat /\ pc \in [Threads -> PCs] /\ items \subseteq Keys
    BY Zenon DEF TypeInv, TypeOK
  <1>3. /\ \/ evicts' = evicts /\ items' = items
           \/ evicts' = evicts /\ pc[t] \notin {"full", "evictNext"}
           \/ /\ evicts' = evicts + 1 /\ pc[t] \in {"full", "evictNext"}
              /\ \E k \in items : items' = items \ {k}
        /\ pc'[t] # "fire"
    <2> USE <1>2 DEF Goto, shardVars
    <2>1. CASE \/ Lookup(t) \/ Scan(t) \/ DeleteExpired(t) \/ CleanupDone(t)
               \/ Load(t) \/ CompareAndSwap(t) \/ Recheck(t) \/ RunFn(t)
      BY <2>1, ZenonT(60) DEF Lookup, Scan, DeleteExpired, CleanupDone, Load,
         CompareAndSwap, Recheck, RunFn
    <2>2. CASE EvictLocal(t)
      BY <2>2, ZenonT(60) DEF EvictLocal, EvictFrom, InShard, Delete
    <2>3. CASE EvictOther(t)
      BY <2>3, ZenonT(60) DEF EvictOther, EvictFrom, InShard, Delete
    <2>4. CASE \/ LeaveShard(t) \/ Reject(t) \/ Sweep(t) \/ SweepShard(t)
               \/ SweepDone(t)
      BY <2>4, ZenonT(60)
         DEF LeaveShard, Reject, Sweep, SweepShard, SweepDone, AfterSweep
    <2>5. CASE \/ CheckFull(t) \/ SkipShard(t) \/ NothingToEvict(t) \/ Relock(t)
      BY <2>5, ZenonT(60) DEF CheckFull, SkipShard, NothingToEvict, Relock
    <2>6. CASE Drain(t) \/ FireEvict(t) \/ Return(t)
      BY <1>1, <2>6, Zenon DEF Drain, FireEvict, Return
    <2> QED
      BY <1>1, <2>1, <2>2, <2>3, <2>4, <2>5, <2>6, ZenonT(60) DEF Step
  <1>4. \A u \in Threads \ {t} : pc'[u] = pc[u] /\ n'[u] = n[u]
    BY <1>1, StepFrame, ZenonT(60) DEF Frame
  <1>5. firing' = firing
    BY <1>1, <1>3, <1>4, SMTT(60) DEF firing
  <1>6. /\ evicted' - evicted = evicts' - evicts
        /\ evicts' \in Nat /\ evicted' \in Nat
    <2>1. CASE evicts' = evicts /\ items' = items
      <3>1. Cardinality(items \ items') = 0
        <4>1. items \ items' = {}
          BY <2>1, SMTT(60)
        <4> QED
          BY <4>1, FS_EmptySet, Zenon
      <3> QED
        BY <1>1, <1>2, <2>1, <3>1, SMTT(60)
    <2>2. CASE evicts' = evicts /\ pc[t] \notin {"full", "evictNext"}
      BY <1>1, <1>2, <2>2, SMTT(60)
    <2>3. CASE /\ evicts' = evicts + 1 /\ pc[t] \in {"full", "evictNext"}
               /\ \E k \in items : items' = items \ {k}
      <3>1. PICK k \in items : items' = items \ {k}
        BY <2>3, SMTT(60)
      <3>2. items \ items' = {k}
        BY <3>1
      <3>3. Cardinality(items \ items') = 1
        BY <3>2, FS_Singleton, Zenon
      <3> QED
        BY <1>1, <1>2, <2>3, <3>3, SMTT(60)
    <2> QED
      BY <1>3, <2>1, <2>2, <2>3, SMTT(60)
  <1> QED
    BY <1>5, <1>6, SMTT(60)

\* drainEvictions moves evictions from the counter to a goroutine, and from
\* there to the sink.
LEMMA DrainEvicts ==
  ASSUME TypeInv, NEW t \in Threads, DrainEvictions(t), onEvicts \in Nat
  PROVE  /\ evicts' \in Nat /\ onEvicts' \in Nat /\ evicted' = evicted
         /\ firing' \in [Threads -> Int]
         /\ \A u \in Threads \ {t} : firing'[u] = firing[u]
         /\ onEvicts' + evicts' + (firing'[t] - firing[t]) = onEvicts + evicts
  <1>1. evicts \in Nat /\ pc \in [Threads -> PCs] /\ n \in [Threads -> Int]
    BY Zenon DEF TypeInv, TypeOK
  <1>2. evicted' = evicted
    BY Zenon DEF DrainEvictions, historyVars
  <1>3. CASE Drain(t) /\ onEvicts' = onEvicts
    <2>1. /\ pc[t] = "ret" /\ n' = [n EXCEPT ![t] = evicts]
          /\ evicts' = evicts - evicts /\ pc' = [pc EXCEPT ![t] = "fire"]
      BY <1>3, ZenonT(60) DEF Drain, Taken, Goto
    <2>2. /\ evicts' = 0 /\ firing' \in [Threads -> Int]
          /\ \A u \in Threads \ {t} : firing'[u] = firing[u]
          /\ firing[t] = 0 /\ firing'[t] = evicts
      BY <1>1, <2>1, SMTT(60) DEF firing
    <2> QED
      BY <1>1, <1>2, <1>3, <2>2, SMTT(60)
  <1>4. CASE FireEvict(t) /\ onEvicts' = onEvicts + 1
    <2>1. /\ pc[t] = "fire" /\ n' = [n EXCEPT ![t] = n[t] - 1]
          /\ evicts' = evicts /\ pc' = pc
      BY <1>4, ZenonT(60) DEF FireEvict
    <2>2. /\ firing' \in [Threads -> Int]
          /\ \A u \in Threads \ {t} : firing'[u] = firing[u]
          /\ firing[t] = n[t] /\ firing'[t] = n[t] - 1 /\ n[t] \in Int
      BY <1>1, <2>1, SMTT(60) DEF firing
    <2>3. /\ onEvicts' + evicts' + ((n[t] - 1) - n[t]) = onEvicts + evicts
          /\ onEvicts' \in Nat
      BY <1>1, <1>4, <2>1, <2>2, SMTT(60)
    <2> QED
      BY <1>1, <1>2, <1>4, <2>1, <2>2, <2>3, ZenonT(60)
  <1>5. CASE Return(t) /\ onEvicts' = onEvicts
    <2>1. /\ pc[t] = "fire" /\ n[t] = 0 /\ n' = n
          /\ evicts' = evicts /\ pc' = [pc EXCEPT ![t] = "idle"]
      BY <1>5, Zenon DEF Return, Goto
    <2>2. /\ firing' \in [Threads -> Int]
          /\ \A u \in Threads \ {t} : firing'[u] = firing[u]
          /\ firing[t] = 0 /\ firing'[t] = 0
      BY <1>1, <2>1, SMTT(60) DEF firing
    <2>3. onEvicts' + evicts' + (0 - 0) = onEvicts + evicts
      BY <1>1, <1>5, <2>1, SMTT(60)
    <2> QED
      BY <1>1, <1>2, <1>5, <2>1, <2>2, <2>3, ZenonT(60)
  <1> QED
    BY <1>3, <1>4, <1>5, ZenonT(60) DEF DrainEvictions

LEMMA InitEvict == AllowInit => EvictInv
  <1> SUFFICES ASSUME AllowInit PROVE EvictInv
    OBVIOUS
  <1>1. evicted = 0 /\ onEvicts = 0 /\ evicts = 0
    BY Zenon DEF AllowInit, Init
  <1>2. \A t \in Threads : firing[t] = 0
    BY DEF AllowInit, Init, firing
  <1>3. Total(firing, Threads) = 0
    BY <1>2, FiniteAssumption, TotalZero, ZenonT(60)
  <1>4. EvictionsReported
    BY <1>1, <1>3, SMTT(60) DEF EvictionsReported
  <1> QED
    BY <1>1, <1>4, SMTT(60) DEF EvictInv

LEMMA StepEvict == TypeInv /\ EvictInv /\ [AllowNext]_allVars => EvictInv'
  <1> SUFFICES ASSUME TypeInv, EvictInv, [AllowNext]_allVars PROVE EvictInv'
    OBVIOUS
  <1>1. /\ evicted \in Nat /\ onEvicts \in Nat /\ evicts \in Nat
        /\ evicted = onEvicts + evicts + Total(firing, Threads)
    BY Zenon DEF EvictInv, EvictionsReported, TypeInv, TypeOK
  <1>2. ASSUME NEW t \in Threads PROVE Total(firing, Threads) \in Int
    BY FiringType, FiniteAssumption, TotalChange, Zenon
  <1>3. EvictionsReported' <=>
          evicted' = onEvicts' + evicts' + Total(firing', Threads)
    BY Zenon DEF EvictionsReported
  <1>4. ASSUME UNCHANGED <<evicted, onEvicts, evicts>>, firing' = firing
        PROVE  EvictInv'
    BY <1>1, <1>3, <1>4, Zenon DEF EvictInv
  <1>5. ASSUME NEW t \in Threads, WithState(t) PROVE EvictInv'
    <2>1. /\ evicts' \in Nat /\ evicted' \in Nat
          /\ evicted' - evicted = evicts' - evicts
          /\ firing' = firing
      BY <1>1, <1>5, WithStateEvicts, Zenon
    <2>2. onEvicts' = onEvicts
      BY <1>5, Zenon DEF WithState, sinkVars
    <2>3. evicted' = onEvicts' + evicts' + Total(firing, Threads)
      BY <1>1, <1>2, <2>1, <2>2, SMTT(60)
    <2> QED
      BY <1>1, <1>3, <2>1, <2>2, <2>3, ZenonT(60) DEF EvictInv
  <1>6. ASSUME NEW t \in Threads, DrainEvictions(t) PROVE EvictInv'
    <2>1. /\ evicts' \in Nat /\ onEvicts' \in Nat /\ evicted' = evicted
          /\ firing' \in [Threads -> Int]
          /\ \A u \in Threads \ {t} : firing'[u] = firing[u]
          /\ onEvicts' + evicts' + (firing'[t] - firing[t]) = onEvicts + evicts
      BY <1>1, <1>6, DrainEvicts, Zenon
    <2>2. firing \in [Threads -> Int] /\ IsFiniteSet(Threads)
      BY FiringType, FiniteAssumption, Zenon
    <2>3. Total(firing', Threads)
            = Total(firing, Threads) + (firing'[t] - firing[t])
      <3> DEFINE e == firing'
      <3> HIDE DEF e
      <3>1. e \in [Threads -> Int] /\ \A u \in Threads \ {t} : e[u] = firing[u]
        BY <2>1, Zenon DEF e
      <3>2. Total(e, Threads) = Total(firing, Threads) + (e[t] - firing[t])
        BY <2>2, <3>1, TotalChange, Zenon
      <3> QED
        BY <3>2, Zenon DEF e
    <2>4. firing[t] \in Int /\ firing'[t] \in Int
      BY <2>1, <2>2, SMTT(60)
    <2>5. evicted' = onEvicts' + evicts' + Total(firing', Threads)
      BY <1>1, <1>2, <2>1, <2>3, <2>4, SMTT(60)
    <2> QED
      BY <1>1, <1>3, <2>1, <2>5, Zenon DEF EvictInv
  <1>7. ASSUME NEW t \in Threads, Tell(t) \/ SetKeys(t) \/ AllowBlank(t)
        PROVE  UNCHANGED <<evicted, onEvicts, evicts>> /\ firing' = firing
    BY <1>7, Zenon
       DEF Tell, SetKeys, AllowBlank, vars, sinkVars, historyVars, firing
  <1>8. ASSUME NEW t \in Threads, NEW k \in Keys, AllowKey(t, k)
        PROVE  UNCHANGED <<evicted, onEvicts, evicts>> /\ firing' = firing
    <2>1. /\ pc[t] = "idle" /\ pc' = [pc EXCEPT ![t] = "lock"] /\ n' = n
          /\ UNCHANGED <<evicted, onEvicts, evicts>>
      BY <1>8, Zenon DEF AllowKey, Call, Goto, sinkVars, historyVars
    <2>2. pc \in [Threads -> PCs]
      BY Zenon DEF TypeInv, TypeOK
    <2>3. firing' = firing
      BY <2>1, <2>2, SMTT(60) DEF firing
    <2> QED
      BY <2>1, <2>3, Zenon
  <1>9. ASSUME \/ Tick /\ UNCHANGED <<calls, sinkVars, historyVars>>
               \/ UNCHANGED allVars
        PROVE  UNCHANGED <<evicted, onEvicts, evicts>> /\ firing' = firing
    BY <1>9, Zenon DEF Tick, allVars, vars, localVars, sinkVars, historyVars,
       firing
  <1> QED
    BY <1>4, <1>5, <1>6, <1>7, <1>8, <1>9, ZenonT(60) DEF AllowNext, Proceed

\* Every eviction is reported exactly once, by whichever call took it from the
\* counter (evictFrom, drainEvictions).
THEOREM EvictionsCounted == AllowSpec => []EvictionsReported
  <1>1. Spec => []TypeInv
    BY InitType, StepType, PTL DEF Spec
  <1>2. AllowSpec => []EvictInv
    BY <1>1, AllowUsesStore, InitEvict, StepEvict, PTL DEF AllowSpec
  <1> QED
    BY <1>2, PTL DEF EvictInv
=============================================================================
