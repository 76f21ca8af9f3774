-------------------------- MODULE LeakyBucketProofs -------------------------
(***************************************************************************)
(* The leaky bucket takes the token bucket's decisions, for every          *)
(* capacity, rate and number of goroutines.                                *)
(***************************************************************************)
EXTENDS LeakyBucket, TLAPS

\* Leaking leaves an integer amount that is not negative, and frees exactly
\* the space the token bucket refills.
LEMMA LeakIsRefill ==
  ASSUME NEW w \in Int, NEW last \in Int, NEW at \in Int
  PROVE  /\ Leaked(w, last, at) \in Nat
         /\ Dual!Refilled(Capacity - w, last, at)
              = Capacity - Leaked(w, last, at)
  <1>1. Rate \in Int /\ Capacity \in Int
    BY LeakyAssumption DEF ValidBucket
  <1>2. (at - last) * Rate \in Int
    BY <1>1
  <1> QED
    BY <1>1, <1>2 DEF Leaked, Dual!Refilled

\* The types hold of an unused key.
LEMMA InitLeaky == Init => TypeOK
  <1> SUFFICES ASSUME Init PROVE TypeOK
    OBVIOUS
  <1>1. RequestTypeOK
    BY RequestAssumption DEF Init, RequestInit, RequestTypeOK, Idle
  <1>2. stored \in BOOLEAN
    BY Zenon DEF Init
  <1>3. /\ water \in Nat /\ lastLeak \in 0 .. clock
        /\ mark \in 0 .. clock /\ granted \in Nat /\ upto \in 0 .. clock
    BY LeakyAssumption DEF Init, RequestInit, ValidBucket
  <1> QED
    BY <1>1, <1>2, <1>3, Zenon DEF TypeOK

\* A decision, written over the amount left after the leak.
LEMMA DecideLeaky ==
  ASSUME TypeOK, NEW t \in Threads, Decide(t)
  PROVE  TypeOK' /\ Dual!Decide(t)
  <1> DEFINE at == now[t]
             leaked == Leaked(Water, LastLeak(at), at)
             refilled == Dual!Refilled(Dual!Tokens, Dual!LastRefilled(at), at)
  <1>1. One \in Nat /\ Capacity \in Nat
    BY LeakyAssumption DEF ValidBucket
  <1>2. /\ at \in 0 .. clock /\ clock \in 0 .. MaxTime /\ MaxTime \in Nat
        /\ water \in Nat /\ lastLeak \in 0 .. clock /\ mark \in 0 .. clock
        /\ granted \in Nat /\ upto \in 0 .. clock
    BY RequestAssumption DEF TypeOK, RequestTypeOK, Decide, Deciding, Idle
  <1>3. Water \in Int /\ LastLeak(at) \in Int /\ at \in Int
    BY <1>2 DEF Water, LastLeak
  <1>4. Dual!Tokens = Capacity - Water /\ Dual!LastRefilled(at) = LastLeak(at)
    BY <1>1 DEF Dual!Tokens, Dual!LastRefilled, Water, LastLeak
  <1>5. leaked \in Nat /\ refilled = Capacity - leaked
    BY <1>3, <1>4, LeakIsRefill, ZenonT(60)
  <1>6. /\ Deciding(t) /\ stored' = TRUE /\ lastLeak' = at
        /\ mark' = IF stored THEN mark ELSE at
        /\ IF Fits(leaked)
           THEN water' = leaked + One /\ granted' = granted + 1 /\ upto' = at
           ELSE water' = leaked /\ UNCHANGED <<granted, upto>>
    BY Zenon DEF Decide
  <1> HIDE DEF leaked, refilled
  <1>7. Dual!Allows(refilled) <=> Fits(leaked)
    BY <1>1, <1>5 DEF Dual!Allows, Fits
  <1>8. TypeOK'
    <2>1. RequestTypeOK'
      BY <1>2, <1>6 DEF TypeOK, RequestTypeOK, Deciding, Idle
    <2>2. clock' = clock
      BY <1>6 DEF Deciding
    <2>3. /\ (water \in Nat)' /\ (granted \in Nat)'
          /\ (lastLeak \in 0 .. clock /\ mark \in 0 .. clock)'
          /\ (upto \in 0 .. clock)'
      BY <1>1, <1>2, <1>5, <1>6, <2>2
    <2> QED
      BY <1>6, <2>1, <2>3, Zenon DEF TypeOK
  <1>9. IF Dual!Allows(refilled)
        THEN /\ Capacity - water' = refilled - One
             /\ granted' = granted + 1 /\ upto' = at
        ELSE Capacity - water' = refilled /\ UNCHANGED <<granted, upto>>
    BY <1>1, <1>5, <1>6, <1>7
  <1>10. Dual!Deciding(t)
    BY <1>6 DEF Deciding, Dual!Deciding, Idle, Dual!Idle
  <1>11. Dual!Decide(t)
    BY <1>6, <1>9, <1>10, Zenon DEF refilled, Dual!Decide
  <1> QED
    BY <1>8, <1>11

\* Every step keeps the types and is a step of the token bucket.
LEMMA StepLeaky ==
  TypeOK /\ [Next]_vars => TypeOK' /\ [Dual!Next]_(Dual!vars)
  <1> SUFFICES ASSUME TypeOK, [Next]_vars
               PROVE  TypeOK' /\ [Dual!Next]_(Dual!vars)
    OBVIOUS
  <1> USE DEF requestVars, leakyVars, observerVars, Dual!requestVars,
              Dual!bucketVars, Dual!observerVars
  <1>1. CASE Tick /\ UNCHANGED <<leakyVars, observerVars>>
    <2>1. TypeOK'
      BY <1>1, RequestAssumption DEF TypeOK, RequestTypeOK, Tick, Idle
    <2>2. Dual!Next
      BY <1>1 DEF Tick, Dual!Tick, Dual!Next
    <2> QED
      BY <2>1, <2>2
  <1>2. ASSUME NEW t \in Threads, ReadClock(t),
               UNCHANGED <<leakyVars, observerVars>>
        PROVE  TypeOK' /\ [Dual!Next]_(Dual!vars)
    <2>1. TypeOK'
      BY <1>2, RequestAssumption DEF TypeOK, RequestTypeOK, ReadClock, Idle
    <2>2. Dual!Next
      BY <1>2, Zenon DEF ReadClock, Dual!ReadClock, Dual!Next, Idle, Dual!Idle
    <2> QED
      BY <2>1, <2>2
  <1>3. ASSUME NEW t \in Threads, Decide(t)
        PROVE  TypeOK' /\ [Dual!Next]_(Dual!vars)
    <2>1. TypeOK' /\ Dual!Decide(t)
      BY <1>3, DecideLeaky, Zenon
    <2> QED
      BY <2>1, Zenon DEF Dual!Next
  <1>4. CASE Forget
    <2>1. Capacity \in Nat /\ Capacity - Capacity = 0
      BY LeakyAssumption DEF ValidBucket
    <2>2. RequestTypeOK' /\ clock' \in Nat
      BY <1>4, RequestAssumption DEF Forget, TypeOK, RequestTypeOK
    <2>3. stored' \in BOOLEAN
      BY <1>4, Zenon DEF Forget
    <2>4. /\ (water \in Nat)' /\ (granted \in Nat)'
          /\ (lastLeak \in 0 .. clock /\ mark \in 0 .. clock)'
          /\ (upto \in 0 .. clock)'
      BY <1>4, <2>1, <2>2 DEF Forget
    <2>5. TypeOK'
      BY <2>2, <2>3, <2>4, Zenon DEF TypeOK
    <2>6. Dual!Forget
      BY <1>4, <2>1 DEF Forget, Dual!Forget
    <2> QED
      BY <2>5, <2>6 DEF Dual!Next
  <1>5. CASE Observe
    <2>1. TypeOK'
      BY <1>5 DEF Observe, TypeOK, RequestTypeOK
    <2>2. Dual!Observe
      BY <1>5 DEF Observe, Dual!Observe
    <2> QED
      BY <2>1, <2>2 DEF Dual!Next
  <1>6. CASE UNCHANGED vars
    BY <1>6 DEF vars, TypeOK, RequestTypeOK, Dual!vars
  <1> QED
    BY <1>1, <1>2, <1>3, <1>4, <1>5, <1>6 DEF Next

\* The leaky bucket's types hold, and its water is never negative.
THEOREM LeakyTyped == Spec => []TypeOK
  BY InitLeaky, StepLeaky, PTL DEF Spec

\* leakAndDecide implements refillAndDecide with tokens as the free space.
THEOREM LeakyIsTokenBucket == Spec => ActsAsTokenBucket
  <1>1. Init => Dual!Init
    BY LeakyAssumption
       DEF Init, RequestInit, Dual!Init, Dual!RequestInit, ValidBucket, Idle,
           Dual!Idle
  <1> QED
    BY <1>1, InitLeaky, StepLeaky, PTL DEF Spec, ActsAsTokenBucket, Dual!Spec

\* In every reachable state the two buckets report the same Remaining and
\* RetryAfter (leakAndDecide, refillAndDecide).
THEOREM LeakyReports == Spec => []SameReport
  <1>1. ASSUME TypeOK, NEW at \in 0 .. clock
        PROVE  LET w == Leaked(Water, LastLeak(at), at)
               IN  /\ Remaining(w) = Dual!Remaining(Capacity - w)
                   /\ RetryAfter(w) = Dual!RetryAfter(Capacity - w)
                   /\ ~Fits(w) => RetryAfter(w) > 0
    <2> DEFINE w == Leaked(Water, LastLeak(at), at)
    <2>1. /\ One \in Nat \ {0} /\ Capacity \in Nat /\ Rate \in Nat \ {0}
          /\ MaxDuration \in Nat \ {0}
      BY LeakyAssumption DEF ValidBucket
    <2>2. Water \in Int /\ LastLeak(at) \in Int /\ at \in Int
      BY <1>1 DEF TypeOK, RequestTypeOK, Water, LastLeak
    <2>3. w \in Nat
      BY <2>2, LeakIsRefill, Zenon
    <2> HIDE DEF w
    <2>4. w + One - Capacity = One - (Capacity - w) /\ w + One - Capacity \in Int
      BY <2>1, <2>3
    <2>5. Remaining(w) = Dual!Remaining(Capacity - w)
      BY DEF Remaining, Dual!Remaining, remainingFloor, Dual!remainingFloor
    <2>6. RetryAfter(w) = Dual!RetryAfter(Capacity - w)
      BY <2>4 DEF RetryAfter, Dual!RetryAfter, durationFromSecondsCeil,
         Dual!durationFromSecondsCeil
    <2>7. ASSUME ~Fits(w) PROVE RetryAfter(w) > 0
      <3> DEFINE over == w + One - Capacity
      <3>1. over \in Nat \ {0}
        BY <2>1, <2>3, <2>7 DEF Fits
      <3> HIDE DEF over
      <3>2. (over + Rate - 1) \div Rate > 0
        BY <2>1, <3>1
      <3>3. RetryAfter(w) = IF (over + Rate - 1) \div Rate >= MaxDuration
                            THEN MaxDuration ELSE (over + Rate - 1) \div Rate
        BY <3>1 DEF over, RetryAfter, durationFromSecondsCeil
      <3> QED
        BY <2>1, <3>2, <3>3
    <2> QED
      BY <2>5, <2>6, <2>7 DEF w
  <1>2. TypeOK => SameReport
    BY <1>1 DEF SameReport
  <1> QED
    BY <1>2, LeakyTyped, PTL
=============================================================================
