-------------------------- MODULE TokenBucketProofs -------------------------
(***************************************************************************)
(* The rate bound of the token bucket and the honesty of what it reports,  *)
(* for every capacity, rate, length of a second and number of goroutines.  *)
(***************************************************************************)
EXTENDS RetryHeader, TLAPS

\* What the bucket holds and what it granted since the mark come out of one
\* full bucket and the refill between the mark and the latest decision.
Conserved ==
  granted * One + tokens <= Capacity + Rate * (lastRefilled - mark)

BucketInv ==
  /\ TypeOK
  /\ stored => Conserved
  /\ ~stored => granted = 0
  /\ WithinRate

\* Time spent in two parts refills the sum of what each part refills.
LEMMA RefillAdds ==
  ASSUME NEW r \in Int, NEW a \in Int, NEW b \in Int, NEW c \in Int
  PROVE  /\ r * (b - a) + (c - b) * r = r * (c - a)
         /\ r * (a - a) = 0
         /\ (a - a) * r = 0
  BY SMT

\* A grant costs One more.
LEMMA GrantAdds ==
  ASSUME NEW g \in Int, NEW o \in Int
  PROVE  (g + 1) * o = g * o + o
  BY SMT

\* Refilling never adds more than the elapsed time is worth, and never
\* overfills.
LEMMA RefillBound ==
  ASSUME NEW tk \in Int, NEW last \in Int, NEW at \in Int
  PROVE  /\ Refilled(tk, last, at) \in Int
         /\ Refilled(tk, last, at) <= tk + (at - last) * Rate
         /\ Refilled(tk, last, at) <= Capacity
  <1>1. Rate \in Int /\ Capacity \in Int
    BY BucketAssumption DEF ValidBucket
  <1>2. (at - last) * Rate \in Int
    BY <1>1
  <1> QED
    BY <1>1, <1>2 DEF Refilled

\* It holds of an unused key.
LEMMA InitBucket == Init => BucketInv
  <1> SUFFICES ASSUME Init PROVE BucketInv
    OBVIOUS
  <1>1. RequestTypeOK
    BY RequestAssumption DEF Init, RequestInit, RequestTypeOK, Idle
  <1>2. stored \in BOOLEAN
    BY Zenon DEF Init
  <1>3. /\ tokens \in Int /\ tokens <= Capacity /\ lastRefilled \in 0 .. clock
        /\ mark \in 0 .. clock /\ granted \in Nat /\ upto \in 0 .. clock
    BY BucketAssumption DEF Init, RequestInit, ValidBucket
  <1>4. ~stored /\ granted = 0
    BY Zenon DEF Init
  <1>5. WithinRate
    BY <1>4 DEF WithinRate
  <1>6. TypeOK
    BY <1>1, <1>2, <1>3, Zenon DEF TypeOK
  <1> QED
    BY <1>4, <1>5, <1>6, Zenon DEF BucketInv

\* A decision keeps the types, conservation and the rate bound.
LEMMA DecideBucket ==
  ASSUME BucketInv, NEW t \in Threads, Decide(t)
  PROVE  BucketInv'
  <1> DEFINE at == now[t]
             refilled == Refilled(Tokens, LastRefilled(at), at)
  <1>1. /\ One \in Int /\ One > 0 /\ Capacity \in Int /\ Capacity >= One
        /\ Rate \in Int /\ Rate > 0
    BY BucketAssumption DEF ValidBucket
  <1>2. /\ at \in 0 .. clock /\ clock \in 0 .. MaxTime /\ MaxTime \in Nat
        /\ tokens \in Int /\ lastRefilled \in 0 .. clock /\ mark \in 0 .. clock
        /\ granted \in Nat /\ tokens <= Capacity /\ upto \in 0 .. clock
    BY RequestAssumption
       DEF BucketInv, TypeOK, RequestTypeOK, Decide, Deciding, Idle
  <1>3. /\ Tokens \in Int /\ Tokens <= Capacity
        /\ LastRefilled(at) \in 0 .. clock
    BY <1>1, <1>2 DEF Tokens, LastRefilled
  <1>4. refilled \in Int /\ refilled <= Capacity
        /\ refilled <= Tokens + (at - LastRefilled(at)) * Rate
    <2>1. at \in Int /\ LastRefilled(at) \in Int
      BY <1>2, <1>3
    <2> QED
      BY <1>3, <2>1, RefillBound, Zenon
  <1>5. /\ clock' = clock /\ now' = [now EXCEPT ![t] = Idle]
        /\ stored' = TRUE /\ lastRefilled' = at
        /\ mark' = IF stored THEN mark ELSE at
        /\ IF refilled >= One
           THEN tokens' = refilled - One /\ granted' = granted + 1 /\ upto' = at
           ELSE tokens' = refilled /\ granted' = granted /\ upto' = upto
    BY DEF Decide, Deciding, Allows
  <1>6. TypeOK'
    <2>1. RequestTypeOK'
      BY <1>2, <1>5 DEF BucketInv, TypeOK, RequestTypeOK, Idle
    <2> QED
      BY <1>1, <1>2, <1>4, <1>5, <2>1 DEF TypeOK
  <1> DEFINE spent == granted * One
             since == Rate * (at - mark')
  <1>7. spent \in Int /\ since \in Int /\ spent + refilled <= Capacity + since
    <2>1. spent \in Int /\ since \in Int
      BY <1>1, <1>2, <1>5
    <2>2. CASE stored
      <3>1. spent + tokens <= Capacity + Rate * (lastRefilled - mark)
        BY <2>2 DEF BucketInv, Conserved
      <3>2. Rate * (lastRefilled - mark) + (at - lastRefilled) * Rate = since
        BY <1>1, <1>2, <1>5, <2>2, RefillAdds
      <3>3. refilled <= tokens + (at - lastRefilled) * Rate
        BY <1>4, <2>2 DEF Tokens, LastRefilled
      <3>4. /\ Rate * (lastRefilled - mark) \in Int
            /\ (at - lastRefilled) * Rate \in Int
        BY <1>1, <1>2
      <3> HIDE DEF spent, since, refilled
      <3> QED
        BY <1>1, <1>2, <1>4, <2>1, <3>1, <3>2, <3>3, <3>4
    <2>3. CASE ~stored
      <3>1. granted = 0
        BY <2>3 DEF BucketInv
      <3>2. since = 0 /\ spent = 0
        BY <1>1, <1>2, <1>5, <2>3, <3>1, RefillAdds
      <3> HIDE DEF spent, since, refilled
      <3> QED
        BY <1>1, <1>4, <2>1, <3>2
    <2> QED
      BY <2>2, <2>3
  <1>8. (granted + 1) * One = spent + One
    BY <1>1, <1>2, GrantAdds
  <1>9. Conserved'
    <2> HIDE DEF since, refilled
    <2>1. Rate * (lastRefilled' - mark') = since
      BY <1>5 DEF since
    <2>2. granted' * One + tokens' = spent + refilled
      BY <1>1, <1>4, <1>5, <1>7, <1>8
    <2> QED
      BY <1>7, <2>1, <2>2 DEF Conserved
  <1>10. WithinRate'
    <2>1. CASE refilled >= One
      <3>1. Rate * (upto' - mark') = since /\ granted' * One = spent + One
        BY <1>5, <1>8, <2>1
      <3> HIDE DEF spent, since, refilled
      <3> QED
        BY <1>1, <1>4, <1>7, <2>1, <3>1 DEF WithinRate
    <2>2. CASE ~(refilled >= One)
      <3>1. stored
        <4>1. ~stored => refilled = Capacity
          <5>1. ~stored => refilled = IF Capacity + (at - at) * Rate > Capacity
                                      THEN Capacity
                                      ELSE Capacity + (at - at) * Rate
            BY DEF Refilled, Tokens, LastRefilled
          <5>2. (at - at) * Rate = 0
            BY <1>1, <1>2, RefillAdds
          <5> QED
            BY <1>1, <5>1, <5>2
        <4> QED
          BY <1>1, <2>2, <4>1
      <3> QED
        BY <1>5, <2>2, <3>1 DEF BucketInv, WithinRate
    <2> QED
      BY <2>1, <2>2
  <1> QED
    BY <1>5, <1>6, <1>9, <1>10 DEF BucketInv

\* Every step keeps the invariant.
LEMMA StepBucket == BucketInv /\ [Next]_vars => BucketInv'
  <1> SUFFICES ASSUME BucketInv, [Next]_vars PROVE BucketInv'
    OBVIOUS
  <1>1. CASE Tick /\ UNCHANGED <<bucketVars, observerVars>>
    BY <1>1, RequestAssumption
       DEF BucketInv, TypeOK, RequestTypeOK, WithinRate, Conserved, Tick,
           bucketVars, observerVars, Idle
  <1>2. ASSUME NEW t \in Threads, ReadClock(t),
               UNCHANGED <<bucketVars, observerVars>>
        PROVE  BucketInv'
    BY <1>2, RequestAssumption
       DEF BucketInv, TypeOK, RequestTypeOK, WithinRate, Conserved, ReadClock,
           bucketVars, observerVars, Idle
  <1>3. ASSUME NEW t \in Threads, Decide(t) PROVE BucketInv'
    BY <1>3, DecideBucket
  <1>4. CASE Forget
    <2>1. TypeOK'
      <3>1. RequestTypeOK'
        BY <1>4 DEF Forget, BucketInv, TypeOK, RequestTypeOK, requestVars
      <3>2. stored' \in BOOLEAN
        BY <1>4, Zenon DEF Forget
      <3>3. clock' \in Nat
        BY <3>1, RequestAssumption DEF RequestTypeOK
      <3>4. /\ (tokens \in Int /\ tokens <= Capacity)'
            /\ (lastRefilled \in 0 .. clock /\ mark \in 0 .. clock)'
            /\ (granted \in Nat /\ upto \in 0 .. clock)'
        BY <1>4, <3>3, BucketAssumption DEF Forget, ValidBucket
      <3> QED
        BY <3>1, <3>2, <3>4, Zenon DEF TypeOK
    <2> QED
      BY <1>4, <2>1 DEF Forget, BucketInv, WithinRate
  <1>5. CASE Observe
    <2>1. TypeOK'
      BY <1>5 DEF Observe, BucketInv, TypeOK, RequestTypeOK, requestVars,
                  bucketVars
    <2>2. Conserved'
      <3>1. /\ Rate * (lastRefilled' - mark') = 0 /\ granted' * One = 0
            /\ tokens' = tokens /\ tokens \in Int /\ tokens <= Capacity
            /\ Capacity \in Int
        BY <1>5, BucketAssumption, RefillAdds
           DEF Observe, bucketVars, ValidBucket, BucketInv, TypeOK
      <3> QED
        BY <3>1 DEF Conserved
    <2> QED
      BY <1>5, <2>1, <2>2 DEF Observe, BucketInv, WithinRate, bucketVars
  <1>6. CASE UNCHANGED vars
    BY <1>6 DEF vars, requestVars, bucketVars, observerVars, BucketInv, TypeOK,
                RequestTypeOK, WithinRate, Conserved
  <1> QED
    BY <1>1, <1>2, <1>3, <1>4, <1>5, <1>6 DEF Next

\* The token bucket's types hold, and it is never overfull.
THEOREM BucketTyped == Spec => []TypeOK
  <1>1. BucketInv => TypeOK
    BY DEF BucketInv
  <1> QED
    BY <1>1, InitBucket, StepBucket, PTL DEF Spec

\* No window of requests is granted more than a full bucket plus the refill,
\* whatever order the goroutines reach the lock in.
THEOREM RateBounded == Spec => []WithinRate
  <1>1. BucketInv => WithinRate
    BY DEF BucketInv
  <1> QED
    BY <1>1, InitBucket, StepBucket, PTL DEF Spec

-----------------------------------------------------------------------------
(* What a result reports.                                                   *)

\* Floor division.
LEMMA Floor ==
  ASSUME NEW a \in Nat, NEW m \in Nat \ {0}
  PROVE  /\ a \div m \in Nat
         /\ m * (a \div m) <= a
         /\ a < m * (a \div m) + m
  BY SMT

\* Rounding up a quotient gives the least multiple that is enough.
LEMMA Ceiling ==
  ASSUME NEW a \in Nat \ {0}, NEW m \in Nat \ {0}
  PROVE  LET q == (a + m - 1) \div m
         IN  q \in Nat \ {0} /\ q * m >= a /\ (q - 1) * m < a
  <1> DEFINE q == (a + m - 1) \div m
  <1>1. q \in Nat /\ m * q <= a + m - 1 /\ a + m - 1 < m * q + m
    BY Floor
  <1> HIDE DEF q
  <1>2. q * m = m * q /\ (q - 1) * m = m * q - m /\ m * q \in Int
    BY <1>1
  <1>3. q * m >= a /\ (q - 1) * m < a
    BY <1>1, <1>2
  <1>4. q # 0
    BY <1>3
  <1> QED
    BY <1>1, <1>3, <1>4 DEF q

\* Every decision is taken on an integer amount within the capacity.
LEMMA DecisionsTyped ==
  ASSUME TypeOK, NEW tk \in Decisions
  PROVE  tk \in Int /\ tk <= Capacity
  <1>1. PICK at \in 0 .. clock : tk = Refilled(Tokens, LastRefilled(at), at)
    BY DEF Decisions
  <1>2. Tokens \in Int /\ LastRefilled(at) \in Int /\ at \in Int
    BY BucketAssumption
       DEF TypeOK, Tokens, LastRefilled, ValidBucket, RequestTypeOK
  <1> QED
    BY <1>1, <1>2, RefillBound, SMTT(60)

\* A bucket refilled for d ticks has a token just when the refill covers what
\* it lacks.
LEMMA AllowsAfter ==
  ASSUME NEW tk \in Int, NEW d \in Int
  PROVE  Allows(Refilled(tk, 0, d)) <=> d * Rate >= One - tk
  <1>1. Rate \in Int /\ Capacity \in Int /\ One \in Int /\ Capacity >= One
    BY BucketAssumption DEF ValidBucket
  <1>2. d * Rate \in Int /\ d - 0 = d
    BY <1>1
  <1> QED
    BY <1>1, <1>2 DEF Allows, Refilled

\* The wait of a denied request that is not clamped.
LEMMA WaitIs ==
  ASSUME NEW tk \in Int, ~Allows(tk), RetryAfter(tk) < MaxDuration
  PROVE  /\ RetryAfter(tk) \in Nat \ {0}
         /\ RetryAfter(tk) * Rate >= One - tk
         /\ (RetryAfter(tk) - 1) * Rate < One - tk
  <1>1. /\ Rate \in Nat \ {0} /\ One \in Nat /\ MaxDuration \in Nat
        /\ One - tk \in Nat \ {0}
    BY BucketAssumption DEF ValidBucket, Allows
  <1>2. RetryAfter(tk) = (One - tk + Rate - 1) \div Rate
    BY <1>1 DEF RetryAfter, durationFromSecondsCeil
  <1> QED
    BY <1>1, <1>2, Ceiling

\* In every reachable state a denied caller that waits RetryAfter, and no
\* less, is granted (refillAndDecide, durationFromSecondsCeil).
THEOREM WaitSuffices == Spec => []RetryAfterExact
  <1>1. ASSUME TypeOK, NEW tk \in Decisions, ~Allows(tk),
               RetryAfter(tk) < MaxDuration
        PROVE  /\ Allows(Refilled(tk, 0, RetryAfter(tk)))
               /\ ~Allows(Refilled(tk, 0, RetryAfter(tk) - 1))
    <2> DEFINE d == RetryAfter(tk)
    <2>1. tk \in Int /\ One - tk \in Int /\ Rate \in Int
      BY <1>1, DecisionsTyped, BucketAssumption DEF ValidBucket
    <2>2. d \in Nat \ {0} /\ d * Rate >= One - tk /\ (d - 1) * Rate < One - tk
      BY <1>1, <2>1, WaitIs
    <2> HIDE DEF d
    <2>3. d \in Int /\ d - 1 \in Int /\ (d - 1) * Rate \in Int
      BY <2>1, <2>2
    <2>4. ~((d - 1) * Rate >= One - tk)
      BY <2>1, <2>2, <2>3
    <2>5. Allows(Refilled(tk, 0, d)) /\ ~Allows(Refilled(tk, 0, d - 1))
      BY <2>1, <2>2, <2>3, <2>4, AllowsAfter
    <2> QED
      BY <2>5 DEF d
  <1>2. TypeOK => RetryAfterExact
    BY <1>1 DEF RetryAfterExact
  <1> QED
    BY <1>2, BucketTyped, PTL

\* In every reachable state the seconds of the Retry-After header are enough,
\* and a second less is not (retryAfterSeconds).
THEOREM HeaderSuffices == Spec => []HeaderExact
  <1>1. ASSUME TypeOK, NEW tk \in Decisions, ~Allows(tk),
               RetryAfter(tk) < MaxDuration
        PROVE  LET s == retryAfterSeconds(RetryAfter(tk))
               IN  /\ Allows(Refilled(tk, 0, s * Second))
                   /\ ~Allows(Refilled(tk, 0, (s - 1) * Second))
    <2> DEFINE d == RetryAfter(tk)
               s == retryAfterSeconds(d)
    <2>1. /\ tk \in Int /\ One - tk \in Int
          /\ Rate \in Nat /\ Second \in Nat \ {0}
      BY <1>1, DecisionsTyped, BucketAssumption, SecondAssumption
         DEF ValidBucket
    <2>2. d \in Nat \ {0} /\ d * Rate >= One - tk /\ (d - 1) * Rate < One - tk
      BY <1>1, <2>1, WaitIs
    <2> HIDE DEF d
    <2>3. s \in Nat \ {0} /\ s * Second >= d /\ (s - 1) * Second < d
      BY <2>1, <2>2, Ceiling DEF retryAfterSeconds
    <2> HIDE DEF s
    <2>4. ASSUME NEW a \in Int, NEW b \in Int, a <= b
          PROVE  a * Rate <= b * Rate /\ a * Rate \in Int /\ b * Rate \in Int
      BY <2>1, <2>4
    <2>5. s * Second \in Int /\ (s - 1) * Second \in Int
      BY <2>1, <2>3
    <2>6. s * Second * Rate >= One - tk
      BY <2>1, <2>2, <2>3, <2>4, <2>5
    <2>7. (s - 1) * Second <= d - 1
      BY <2>2, <2>3, <2>5
    <2>8. (s - 1) * Second * Rate < One - tk
      BY <2>1, <2>2, <2>4, <2>5, <2>7
    <2>9. Allows(Refilled(tk, 0, s * Second))
      BY <2>1, <2>5, <2>6, AllowsAfter
    <2>10. ~Allows(Refilled(tk, 0, (s - 1) * Second))
      <3> DEFINE e == (s - 1) * Second
      <3>1. e \in Int /\ e * Rate < One - tk /\ e * Rate \in Int
        BY <2>4, <2>5, <2>8
      <3> HIDE DEF e
      <3>2. ~(e * Rate >= One - tk)
        BY <2>1, <3>1
      <3> QED
        BY <2>1, <3>1, <3>2, AllowsAfter DEF e
    <2> QED
      BY <2>9, <2>10 DEF s, d
  <1>2. TypeOK => HeaderExact
    BY <1>1 DEF HeaderExact
  <1> QED
    BY <1>2, BucketTyped, PTL

\* In every reachable state Remaining tells what the key can still spend at
\* once (remainingFloor).
THEOREM RemainingTrue == Spec => []RemainingHonest
  <1>1. ASSUME TypeOK, NEW tk \in Decisions, Allows(tk)
        PROVE  LET left == tk - One
               IN  /\ Allows(left) <=> Remaining(left) > 0
                   /\ Allows(left) => Remaining(left - One) = Remaining(left) - 1
    <2> DEFINE left == tk - One
               q == left \div One
    <2>1. left \in Nat /\ One \in Nat \ {0}
      BY <1>1, DecisionsTyped, BucketAssumption DEF ValidBucket, Allows
    <2> HIDE DEF left
    <2>2. q \in Nat /\ One * q <= left /\ left < One * q + One
      BY <2>1, Floor
    <2>3. Remaining(left) = q
      BY <2>1, <2>2 DEF Remaining, remainingFloor
    <2>4. Allows(left) <=> q > 0
      BY <2>1, <2>2 DEF Allows
    <2>5. ASSUME Allows(left) PROVE Remaining(left - One) = q - 1
      <3> DEFINE p == (left - One) \div One
      <3>1. left - One \in Nat
        BY <2>1, <2>5 DEF Allows
      <3>2. /\ p \in Nat /\ One * p <= left - One
            /\ left - One < One * p + One
        BY <2>1, <3>1, Floor
      <3>3. Remaining(left - One) = p
        BY <2>1, <3>1, <3>2 DEF Remaining, remainingFloor
      <3> HIDE DEF p, q
      <3>4. One * (p + 1) <= left /\ left < One * (p + 2)
        BY <2>1, <3>2
      <3>5. p + 1 = q
        BY <2>1, <2>2, <3>2, <3>4
      <3> QED
        BY <2>2, <3>2, <3>3, <3>5
    <2> QED
      BY <2>3, <2>4, <2>5 DEF left
  <1>2. TypeOK => RemainingHonest
    BY <1>1 DEF RemainingHonest
  <1> QED
    BY <1>2, BucketTyped, PTL
=============================================================================
