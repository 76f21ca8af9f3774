--------------------------- MODULE RedisKeyProofs ---------------------------
(***************************************************************************)
(* The limits the Redis scripts keep, for every capacity, rate, window and *)
(* TTL, whatever the server's clock does.                                  *)
(***************************************************************************)
EXTENDS RedisKey, FiniteSetTheorems, WellFoundedInduction, TLAPS

\* Floor division.
LEMMA Floor ==
  ASSUME NEW a \in Nat, NEW m \in Nat \ {0}
  PROVE  /\ a \div m \in Nat
         /\ m * (a \div m) <= a
         /\ a < m * (a \div m) + m
         /\ a \div m <= a
  <1>1. /\ a \div m \in Nat
        /\ m * (a \div m) <= a
        /\ a < m * (a \div m) + m
    BY SMT
  <1>2. ASSUME NEW x \in Nat PROVE m * x >= x
    BY SMT
  <1> QED
    BY <1>1, <1>2

\* Products of what is not negative.
LEMMA Product ==
  ASSUME NEW r \in Nat, NEW a \in Nat
  PROVE  r * a \in Nat /\ a * r \in Nat /\ r * a = a * r
  BY SMT

LEMMA Monotone ==
  ASSUME NEW r \in Nat, NEW a \in Int, NEW b \in Int, a <= b
  PROVE  r * a <= r * b /\ r * a \in Int /\ r * b \in Int
  BY SMT

LEMMA Distributes ==
  ASSUME NEW r \in Int, NEW a \in Int, NEW b \in Int
  PROVE  /\ r * (a + b) = r * a + r * b
         /\ r * (a - b) = r * a - r * b
         /\ r * a \in Int /\ r * b \in Int
  BY SMT

\* The constants, and what the limiters pass of them.
LEMMA Constants ==
  /\ One \in Nat /\ One > 0 /\ Capacity \in Nat /\ Capacity >= One
  /\ Rate \in Nat /\ Rate > 0 /\ Ms \in Nat /\ Ms > 0 /\ Ms \in Nat \ {0}
  /\ Limit \in Nat /\ Limit > 0
  /\ Window \in Nat /\ KeyTTL \in Nat
  /\ MaxTime \in Nat /\ MaxBacks \in Nat
  <1>1. Window \in Nat /\ KeyTTL \in Nat
    BY RedisAssumption, Floor DEF Window, KeyTTL, Milliseconds
  <1> QED
    BY RedisAssumption, <1>1

\* TIME is the server's clock cut down to milliseconds.
LEMMA NowCut ==
  ASSUME TypeOK
  PROVE  /\ Now \in Nat /\ Now <= real
         /\ Ms * Now \in Nat /\ Ms * Now <= wall /\ wall < Ms * Now + Ms
  <1>1. wall \in Nat /\ real \in Nat /\ wall <= real
    BY Constants DEF TypeOK
  <1> QED
    BY <1>1, Constants, Floor DEF Now

\* The elapsed time of a bucket is never negative, and a bucket is never less
\* than empty or more than full.
LEMMA BucketRange ==
  ASSUME TypeOK
  PROVE  /\ NowOrLast \in Nat /\ NowOrLast <= real
         /\ exists => NowOrLast >= last
         /\ exists => (NowOrLast - last) * Rate \in Nat
         /\ Tokens \in 0 .. Capacity /\ Water \in 0 .. Capacity
  <1>1. /\ Now \in Nat /\ Now <= real /\ real \in Nat /\ last \in 0 .. real
        /\ level \in 0 .. Capacity
    BY NowCut, Constants DEF TypeOK
  <1>2. /\ NowOrLast \in Nat /\ NowOrLast <= real
        /\ exists => NowOrLast >= last
    BY <1>1 DEF NowOrLast
  <1>3. exists => (NowOrLast - last) * Rate \in Nat
    BY <1>1, <1>2, Constants, Product
  <1>4. Tokens \in 0 .. Capacity /\ Water \in 0 .. Capacity
    BY <1>1, <1>3, Constants DEF Tokens, Water
  <1> QED
    BY <1>2, <1>3, <1>4

LEMMA InitTyped == Init => TypeOK
  <1> SUFFICES ASSUME Init PROVE TypeOK
    OBVIOUS
  <1>1. exists \in BOOLEAN
    BY Zenon DEF Init
  <1> QED
    BY <1>1, Constants DEF Init, TypeOK

\* A script keeps the types.
LEMMA EvalTyped ==
  ASSUME TypeOK, NEW q \in Requests, Eval(q)
  PROVE  TypeOK'
  <1>1. /\ UNCHANGED <<kind, wall, real, backs, mark>> /\ real \in Nat
    BY Constants DEF Eval, serverVars, TokenBucketScript, LeakyBucketScript,
       SlidingWindowScript, Count, Date, TypeOK
  <1>2. exists' \in BOOLEAN
    BY Zenon DEF Eval
  <1>3. expireAt' \in 0 .. (real + KeyTTL)
    BY Constants, NowCut, <1>1 DEF Eval, Expiry
  <1>4. CASE TokenBucketScript \/ LeakyBucketScript
    <2>1. level' \in 0 .. Capacity /\ last' \in 0 .. real
      BY <1>1, <1>4, BucketRange, Constants
         DEF TokenBucketScript, LeakyBucketScript
    <2>2. granted' \in Nat /\ UNCHANGED <<recent, grantedAt, zset, score>>
      BY <1>4 DEF TokenBucketScript, LeakyBucketScript, Count, TypeOK
    <2> QED
      BY <1>1, <1>2, <1>3, <2>1, <2>2 DEF TypeOK
  <1>5. CASE SlidingWindowScript(q)
    <2>1. UNCHANGED <<level, last, granted>>
      BY <1>5 DEF SlidingWindowScript, Date
    <2>2. zset' \in SUBSET Requests
      BY <1>5 DEF SlidingWindowScript, Live, Salt, TypeOK
    <2>3. score' \in [Requests -> 0 .. real]
      BY <1>1, <1>5, NowCut DEF SlidingWindowScript, TypeOK
    <2>4. recent' \in SUBSET Requests /\ grantedAt' \in [Requests -> 0 .. real]
      BY <1>1, <1>5 DEF SlidingWindowScript, Date, TypeOK
    <2> QED
      BY <1>1, <1>2, <1>3, <2>1, <2>2, <2>3, <2>4 DEF TypeOK
  <1> QED
    BY <1>4, <1>5 DEF Eval

\* Every step keeps the types.
LEMMA StepTyped == TypeOK /\ [Next]_vars => TypeOK'
  <1> SUFFICES ASSUME TypeOK, [Next]_vars PROVE TypeOK'
    OBVIOUS
  <1>1. ASSUME NEW q \in Requests, Eval(q) PROVE TypeOK'
    BY <1>1, EvalTyped
  <1>2. CASE Expire
    <2>1. exists' \in BOOLEAN
      BY <1>2, Zenon DEF Expire
    <2>2. real \in Nat
      BY Constants DEF TypeOK
    <2> QED
      BY <1>2, <2>1, <2>2, Constants
         DEF Expire, TypeOK, serverVars, observerVars
  <1>3. CASE Tick
    <2>1. /\ recent' \in SUBSET Requests
          /\ grantedAt' \in [Requests -> 0 .. real']
      BY <1>3, Constants DEF Tick, TypeOK
    <2>2. score' \in [Requests -> 0 .. real']
      BY <1>3, Constants DEF Tick, TypeOK, keyVars
    <2>3. exists' \in BOOLEAN /\ zset' \in SUBSET Requests /\ kind' \in Kinds
      BY <1>3, Zenon DEF Tick, TypeOK, keyVars
    <2> QED
      BY <1>3, <2>1, <2>2, <2>3, Constants DEF Tick, TypeOK, keyVars
  <1>4. CASE StepBack
    BY <1>4, Constants DEF StepBack, TypeOK, keyVars, observerVars
  <1>5. CASE Observe
    BY <1>5, Constants DEF Observe, TypeOK, keyVars, serverVars
  <1>6. CASE UNCHANGED vars
    BY <1>6 DEF vars, serverVars, keyVars, observerVars, TypeOK
  <1> QED
    BY <1>1, <1>2, <1>3, <1>4, <1>5, <1>6 DEF Next

\* Every variable keeps its type: in particular tokens and water stay between
\* empty and full and no elapsed time is negative, however the clock is set.
THEOREM KeyTyped == Spec => []TypeOK
  BY InitTyped, StepTyped, PTL DEF Spec
-----------------------------------------------------------------------------
(* The buckets.  All amounts are scaled by Ms, so that a tick earns Rate.   *)

IsBucket == kind \in {"token", "leaky"}

\* Units a bucket could still grant.
Free == IF kind = "token" THEN level ELSE Capacity - level

\* Those units when a script runs, and the time a script has yet to see.
Ready == IF kind = "token" THEN Tokens ELSE Capacity - Water
Unseen == IF wall > Ms * last THEN wall - Ms * last ELSE 0

\* Ticks to the expiry of the key.
ToExpiry == IF Ms * expireAt > wall THEN Ms * expireAt - wall ELSE 0

Spent == Ms * granted * One
Earned == Rate * (real - mark)
Slack == Ms * Capacity + Rate * (Ms - 1)

Ample == KeyTTL = 0 \/ (KeyTTL - 2) * Rate >= Capacity

\* A key that is not there, or is about to go, has earned what it spent, so
\* that the next one may start full; and one that has not yet earned it has
\* what it spent taken out of its bucket.
RateInv ==
  /\ ~exists => Spent <= Earned
  /\ exists => \/ Spent <= Earned
               \/ Spent + Ms * Free + Rate * Unseen <= Slack + Earned
  /\ exists /\ KeyTTL > 0 => Spent <= Earned + Rate * ToExpiry

\* The amounts are integers.
LEMMA Amounts ==
  ASSUME TypeOK
  PROVE  /\ Spent \in Nat /\ Earned \in Nat /\ Slack \in Nat
         /\ Free \in 0 .. Capacity /\ Ready \in 0 .. Capacity
         /\ Unseen \in Nat /\ ToExpiry \in Nat
         /\ Ms * Free \in Nat /\ Rate * Unseen \in Nat
         /\ Rate * ToExpiry \in Nat /\ Ms * Capacity \in Nat
         /\ Rate * (Ms - 1) \in Nat
  <1>1. /\ granted \in Nat /\ real \in Nat /\ mark \in 0 .. real /\ wall \in Nat
        /\ level \in 0 .. Capacity /\ last \in Nat /\ expireAt \in Nat
    BY Constants DEF TypeOK
  <1>2. Ms * granted \in Nat
    BY <1>1, Constants, Product
  <1>3. Spent \in Nat
    BY <1>2, Constants, Product DEF Spent
  <1>4. Earned \in Nat
    BY <1>1, Constants, Product DEF Earned
  <1>5. Ms * Capacity \in Nat /\ Rate * (Ms - 1) \in Nat /\ Slack \in Nat
    BY Constants, Product DEF Slack
  <1>6. Free \in 0 .. Capacity /\ Ready \in 0 .. Capacity
    BY <1>1, Constants, BucketRange DEF Free, Ready
  <1>7. Ms * last \in Nat /\ Ms * expireAt \in Nat
    BY <1>1, Constants, Product
  <1>8. Unseen \in Nat /\ ToExpiry \in Nat
    BY <1>1, <1>7 DEF Unseen, ToExpiry
  <1>9. /\ Ms * Free \in Nat /\ Rate * Unseen \in Nat
        /\ Rate * ToExpiry \in Nat
    BY <1>6, <1>8, Constants, Product, SMTT(60)
  <1> QED
    BY <1>3, <1>4, <1>5, <1>6, <1>8, <1>9

\* A script moves a bucket the same way, whether it counts tokens or water.
LEMMA BucketStep ==
  ASSUME TypeOK, IsBucket, NEW q \in Requests, Eval(q)
  PROVE  /\ exists' /\ last' = NowOrLast /\ expireAt' = Expiry
         /\ UNCHANGED <<kind, wall, real, mark>>
         /\ IF Ready >= One
            THEN Free' = Ready - One /\ granted' = granted + 1
            ELSE Free' = Ready /\ granted' = granted
  <1>1. Tokens \in 0 .. Capacity /\ Water \in 0 .. Capacity
    BY BucketRange
  <1>2. ~SlidingWindowScript(q)
    BY DEF IsBucket, SlidingWindowScript
  <1>3. exists' /\ expireAt' = Expiry /\ UNCHANGED <<kind, wall, real>>
    BY Zenon DEF Eval, serverVars
  <1>4. CASE TokenBucketScript
    BY <1>1, <1>3, <1>4, Constants, SMTT(60)
       DEF TokenBucketScript, Count, Free, Ready
  <1>5. CASE LeakyBucketScript
    BY <1>1, <1>3, <1>5, Constants, SMTT(60)
       DEF LeakyBucketScript, Count, Free, Ready
  <1> QED
    BY <1>2, <1>4, <1>5, <1>3, SMTT(60) DEF Eval

\* What a script is ready to grant: no more than full, and no more than what
\* was free and the refill of the milliseconds it has seen pass.
LEMMA ReadyBound ==
  ASSUME TypeOK, IsBucket
  PROVE  exists => Ready <= Free + (NowOrLast - last) * Rate
  BY BucketRange, Constants DEF Ready, Free, Tokens, Water, TypeOK

\* The time a script has not seen when it is done is less than a millisecond;
\* the rest of what was unseen before is what it refilled for.
LEMMA SeenTime ==
  ASSUME TypeOK, last' = NowOrLast, wall' = wall
  PROVE  /\ Unseen' \in Nat /\ Unseen' <= Ms - 1
         /\ exists => Unseen = Ms * (NowOrLast - last) + Unseen'
  <1>1. /\ Now \in Nat /\ Ms * Now \in Nat
        /\ Ms * Now <= wall /\ wall < Ms * Now + Ms
        /\ wall \in Nat /\ last \in Nat
    BY NowCut, Constants DEF TypeOK
  <1>2. CASE exists /\ Now < last
    <2>1. NowOrLast = last
      BY <1>2 DEF NowOrLast
    <2>2. Ms * (Now + 1) <= Ms * last /\ Ms * (Now + 1) = Ms * Now + Ms * 1
          /\ Ms * last \in Int
      BY <1>1, <1>2, Constants, Monotone, Distributes, SMTT(60)
    <2>3. wall < Ms * last
      BY <1>1, <2>2, Constants
    <2>4. Ms * (last - last) = 0
      BY <1>1, Constants
    <2> QED
      BY <1>1, <2>1, <2>2, <2>3, <2>4, Constants DEF Unseen
  <1>3. CASE ~(exists /\ Now < last)
    <2>1. NowOrLast = Now
      BY <1>3 DEF NowOrLast
    <2>2. Unseen' = wall - Ms * Now
      BY <1>1, <2>1 DEF Unseen
    <2>3. ASSUME exists PROVE Unseen = Ms * (Now - last) + Unseen'
      <3>1. last <= Now
        BY <1>1, <1>3, <2>3
      <3>2. /\ Ms * last <= Ms * Now /\ Ms * last \in Int
            /\ Ms * (Now - last) = Ms * Now - Ms * last
        BY <1>1, <3>1, Constants, Monotone, Distributes, SMTT(60)
      <3> QED
        BY <1>1, <2>2, <3>2 DEF Unseen
    <2> QED
      BY <1>1, <2>1, <2>2, <2>3, Constants
  <1> QED
    BY <1>2, <1>3

\* A script spends no more than what is free or has been earned.
LEMMA EvalRate ==
  ASSUME TypeOK, TypeOK', IsBucket, Ample, RateInv, NEW q \in Requests, Eval(q)
  PROVE  RateInv'
  <1>1. /\ exists' /\ last' = NowOrLast /\ expireAt' = Expiry
        /\ UNCHANGED <<kind, wall, real, mark>>
        /\ IF Ready >= One
           THEN Free' = Ready - One /\ granted' = granted + 1
           ELSE Free' = Ready /\ granted' = granted
    BY BucketStep
  <1>2. Earned' = Earned /\ Slack' = Slack
    BY <1>1 DEF Earned, Slack
  <1>3. /\ Spent \in Nat /\ Earned \in Nat /\ Slack \in Nat
        /\ Ready \in 0 .. Capacity /\ Free \in 0 .. Capacity
        /\ Ms * Free \in Nat /\ Rate * Unseen \in Nat /\ Unseen \in Nat
        /\ Ms * Capacity \in Nat /\ Rate * (Ms - 1) \in Nat
    BY Amounts, SMTT(60)
  <1>4. Free' \in Nat /\ granted' \in Nat
    BY <1>1, <1>3, Constants DEF TypeOK
  <1>5. /\ Unseen' \in Nat /\ Unseen' <= Ms - 1
        /\ exists => Unseen = Ms * (NowOrLast - last) + Unseen'
    BY <1>1, SeenTime
  <1>6. Rate * Unseen' \in Nat /\ Rate * Unseen' <= Rate * (Ms - 1)
    <2>1. Rate \in Nat /\ Unseen' \in Nat /\ Unseen' \in Int /\ Ms - 1 \in Int
      BY <1>5, Constants
    <2> QED
      BY <1>5, <2>1, Monotone, Product, Zenon
  <1>7. Spent' + Ms * Free' = Spent + Ms * Ready
    <2>1. /\ Ms * (Ready - One) = Ms * Ready - Ms * One
          /\ Ms * Ready \in Int /\ Ms * One \in Int
      BY <1>3, Constants, Distributes
    <2>2. Ms * (granted + 1) * One = Ms * granted * One + Ms * One
      <3>1. granted \in Nat
        BY DEF TypeOK
      <3> QED
        BY <3>1, Constants
    <2> QED
      BY <1>1, <1>3, <2>1, <2>2 DEF Spent
  <1>8. Ms * Ready \in Nat /\ Ms * Ready <= Ms * Capacity
    BY <1>3, Constants, Monotone, Product
  <1>9. Spent' \in Nat /\ Ms * Free' \in Nat
    <2>1. Ms \in Nat /\ One \in Nat
      BY Constants
    <2>2. Ms * granted' \in Nat /\ Ms * Free' \in Nat
      BY <1>4, <2>1, Product, Zenon
    <2> QED
      BY <2>1, <2>2, Product, Zenon DEF Spent
  <1>10. Spent' + Ms * Free' + Rate * Unseen' <= Slack + Earned
    <2>1. CASE Spent <= Earned
      BY <1>3, <1>6, <1>7, <1>8, <1>9, <2>1, SMTT(60) DEF Slack
    <2>2. CASE exists /\ Spent + Ms * Free + Rate * Unseen <= Slack + Earned
      <3> DEFINE d == NowOrLast - last
      <3>1. d \in Nat /\ Ready <= Free + d * Rate /\ d * Rate \in Nat
        BY <2>2, BucketRange, ReadyBound, Constants, SMTT(60) DEF TypeOK
      <3> HIDE DEF d
      <3>2. /\ Ms * Ready <= Ms * (Free + d * Rate)
            /\ Ms * (Free + d * Rate) = Ms * Free + Ms * (d * Rate)
            /\ Ms * (d * Rate) \in Int
        BY <1>3, <3>1, Constants, Monotone, Distributes, SMTT(60)
      <3>3. Rate * Unseen = Rate * (Ms * d) + Rate * Unseen'
        BY <1>5, <2>2, <3>1, Constants, Distributes, Product, SMTT(60) DEF d
      <3>4. Rate * (Ms * d) = Ms * (d * Rate)
        BY <3>1, Constants
      <3> QED
        BY <1>3, <1>6, <1>7, <1>8, <1>9, <2>2, <3>2, <3>3, <3>4, SMTT(60)
    <2> QED
      BY <2>1, <2>2 DEF RateInv
  <1>11. ASSUME KeyTTL > 0 PROVE Spent' <= Earned + Rate * ToExpiry'
    <2>1. Spent' <= Ms * Capacity + Rate * (Ms - 1) + Earned
      BY <1>3, <1>6, <1>9, <1>10 DEF Slack
    <2>2. /\ Ms * Capacity <= Ms * ((KeyTTL - 2) * Rate)
          /\ Ms * ((KeyTTL - 2) * Rate) \in Int
      <3>1. (KeyTTL - 2) * Rate \in Int /\ Capacity <= (KeyTTL - 2) * Rate
        BY <1>11, Constants DEF Ample
      <3> QED
        BY <3>1, Constants, Monotone
    <2>3. Ms * ((KeyTTL - 2) * Rate) = Rate * (Ms * KeyTTL - 2 * Ms)
      BY Constants
    <2>4. /\ Rate * (Ms * KeyTTL - 2 * Ms) + Rate * (Ms - 1)
               = Rate * ((Ms * KeyTTL - 2 * Ms) + (Ms - 1))
          /\ Ms * KeyTTL \in Int
      BY Constants, Distributes, SMTT(60)
    <2>5. ToExpiry' \in Int /\ (Ms * KeyTTL - 2 * Ms) + (Ms - 1) <= ToExpiry'
      <3>1. expireAt' = Now + KeyTTL
        BY <1>1, <1>11, SMTT(60) DEF Expiry
      <3>2. /\ Now \in Nat /\ Ms * Now \in Nat /\ wall \in Nat
            /\ Ms * Now <= wall /\ wall < Ms * Now + Ms
        BY NowCut, Constants DEF TypeOK
      <3>3. Ms * expireAt' = Ms * Now + Ms * KeyTTL
        BY <3>1, <3>2, Constants, Distributes
      <3> QED
        BY <1>1, <2>4, <3>2, <3>3, Constants, SMTT(60) DEF ToExpiry
    <2>6. /\ Rate * ((Ms * KeyTTL - 2 * Ms) + (Ms - 1)) <= Rate * ToExpiry'
          /\ Rate * ToExpiry' \in Int
      <3>1. /\ Rate \in Nat /\ ToExpiry' \in Int
            /\ (Ms * KeyTTL - 2 * Ms) + (Ms - 1) \in Int
        BY <2>4, <2>5, Constants, SMTT(60)
      <3> QED
        BY <2>5, <3>1, Monotone, Zenon
    <2> QED
      BY <1>3, <1>9, <2>1, <2>2, <2>3, <2>4, <2>6, SMTT(60)
  <1> QED
    BY <1>1, <1>2, <1>10, <1>11 DEF RateInv

\* Time passing earns Rate, refills no more than that, and brings the expiry
\* no more than a tick nearer.
LEMMA TickRate ==
  ASSUME TypeOK, IsBucket, RateInv, Tick
  PROVE  RateInv'
  <1>1. /\ real' = real + 1 /\ wall' = wall + 1
        /\ UNCHANGED <<kind, exists, level, last, expireAt, mark, granted>>
    BY DEF Tick, keyVars
  <1>2. /\ Spent \in Nat /\ Earned \in Nat /\ Slack \in Nat
        /\ Ms * Free \in Nat /\ Rate * Unseen \in Nat /\ Unseen \in Nat
        /\ Rate * ToExpiry \in Nat /\ ToExpiry \in Nat
    BY Amounts
  <1>3. Spent' = Spent /\ Slack' = Slack /\ Free' = Free
    BY <1>1, SMTT(60) DEF Spent, Slack, Free
  <1>4. /\ real \in Int /\ mark \in Int /\ wall \in Int
        /\ Ms * last \in Int /\ Ms * expireAt \in Int
    BY Constants, Distributes DEF TypeOK
  <1>5. Earned' = Earned + Rate
    <2>1. Rate * ((real - mark) + 1) = Rate * (real - mark) + Rate * 1
      BY <1>4, Constants, Distributes
    <2> QED
      BY <1>1, <1>4, <2>1, Constants DEF Earned
  <1>6. Unseen' \in Nat /\ Unseen' <= Unseen + 1
    BY <1>1, <1>4 DEF Unseen
  <1>7. ToExpiry' \in Nat /\ ToExpiry <= ToExpiry' + 1
    BY <1>1, <1>4 DEF ToExpiry
  <1>8. Rate * Unseen' <= Rate * Unseen + Rate /\ Rate * Unseen' \in Int
    <2>1. Rate * (Unseen + 1) = Rate * Unseen + Rate * 1
      BY <1>2, Constants, Distributes
    <2>2. /\ Rate * Unseen' <= Rate * (Unseen + 1)
          /\ Rate * Unseen' \in Int
      <3>1. Rate \in Nat /\ Unseen' \in Int /\ Unseen + 1 \in Int
        BY <1>2, <1>6, Constants
      <3> QED
        BY <1>6, <3>1, Monotone, Zenon
    <2> QED
      BY <1>2, <2>1, <2>2, Constants
  <1>9. Rate * ToExpiry <= Rate * ToExpiry' + Rate /\ Rate * ToExpiry' \in Int
    <2>1. Rate * (ToExpiry' + 1) = Rate * ToExpiry' + Rate * 1
      BY <1>7, Constants, Distributes
    <2>2. /\ Rate * ToExpiry <= Rate * (ToExpiry' + 1)
          /\ Rate * ToExpiry' \in Int
      <3>1. Rate \in Nat /\ ToExpiry \in Int /\ ToExpiry' + 1 \in Int
        BY <1>2, <1>7, Constants
      <3>2. Rate \in Int /\ ToExpiry' \in Int
        BY <1>7, Constants
      <3> QED
        BY <1>7, <3>1, <3>2, Monotone, Distributes, Zenon
    <2> QED
      BY <1>2, <2>1, <2>2, Constants
  <1> QED
    BY <1>1, <1>2, <1>3, <1>5, <1>8, <1>9, Constants, SMTT(60) DEF RateInv

\* Setting the clock back refills nothing and puts the expiry off.
LEMMA StepBackRate ==
  ASSUME TypeOK, IsBucket, RateInv, StepBack
  PROVE  RateInv'
  <1>1. /\ wall' \in Int /\ wall' < wall
        /\ UNCHANGED <<kind, real, exists, level, last, expireAt, mark, granted>>
    <2>1. wall \in Nat
      BY Constants, SMTT(60) DEF TypeOK
    <2> QED
      BY <2>1 DEF StepBack, keyVars, observerVars
  <1>2. /\ Spent \in Nat /\ Earned \in Nat /\ Slack \in Nat
        /\ Ms * Free \in Nat /\ Rate * Unseen \in Nat /\ Unseen \in Nat
        /\ Rate * ToExpiry \in Nat /\ ToExpiry \in Nat
    BY Amounts
  <1>3. Spent' = Spent /\ Slack' = Slack /\ Free' = Free /\ Earned' = Earned
    BY <1>1 DEF Spent, Slack, Free, Earned
  <1>4. wall \in Int /\ Ms * last \in Int /\ Ms * expireAt \in Int
    BY Constants, Distributes DEF TypeOK
  <1>5. Unseen' \in Int /\ Unseen' <= Unseen
    BY <1>1, <1>4, SMTT(60) DEF Unseen
  <1>6. ToExpiry' \in Int /\ ToExpiry <= ToExpiry'
    BY <1>1, <1>4 DEF ToExpiry
  <1>7. /\ Rate * Unseen' <= Rate * Unseen /\ Rate * Unseen' \in Int
        /\ Rate * ToExpiry <= Rate * ToExpiry' /\ Rate * ToExpiry' \in Int
    <2>1. Rate \in Nat /\ Unseen \in Int /\ ToExpiry \in Int
      BY <1>2, Constants
    <2> QED
      BY <1>5, <1>6, <2>1, Monotone, Zenon
  <1> QED
    BY <1>1, <1>2, <1>3, <1>7 DEF RateInv

\* A key that expires has earned all it spent.
LEMMA ExpireRate ==
  ASSUME TypeOK, IsBucket, RateInv, Expire
  PROVE  RateInv'
  <1>1. ~exists' /\ UNCHANGED <<granted, real, mark>>
    BY Zenon DEF Expire, serverVars, observerVars
  <1>2. exists /\ KeyTTL > 0 /\ expireAt <= Now
    BY NowCut DEF Expire, TypeOK
  <1>3. ToExpiry = 0
    <2>1. /\ Ms * Now <= wall /\ Now \in Int /\ expireAt \in Int /\ wall \in Int
          /\ Ms * Now \in Int
      BY NowCut, Constants DEF TypeOK
    <2>2. Ms * expireAt <= Ms * Now /\ Ms * expireAt \in Int
      BY <1>2, <2>1, Constants, Monotone
    <2> QED
      BY <2>1, <2>2, SMTT(60) DEF ToExpiry
  <1>4. Spent <= Earned
    <2>1. Rate * 0 = 0
      BY Constants
    <2> QED
      BY <1>2, <1>3, <2>1, Amounts DEF RateInv
  <1> QED
    BY <1>1, <1>4 DEF RateInv, Spent, Earned

\* Nothing is spent when counting starts.
LEMMA ObserveRate ==
  ASSUME TypeOK, RateInv, Observe
  PROVE  RateInv'
  <1>1. /\ granted' = 0 /\ mark' = real' /\ real' \in Int
        /\ UNCHANGED <<exists, expireAt, wall>>
    BY Constants DEF Observe, serverVars, keyVars, TypeOK
  <1>2. Spent' = 0 /\ Earned' = 0
    <2>1. /\ Ms * 0 * One = 0
          /\ \A x \in Int : Rate * (x - x) = 0
      BY Constants
    <2> QED
      BY <1>1, <2>1 DEF Spent, Earned
  <1>3. ToExpiry' = ToExpiry /\ Rate * ToExpiry \in Nat
    BY <1>1, Amounts DEF ToExpiry
  <1> QED
    BY <1>2, <1>3 DEF RateInv

RateKept == IsBucket /\ Ample => RateInv

\* Every step keeps what was spent within what was earned.
LEMMA StepRate == TypeOK /\ RateKept /\ [Next]_vars => RateKept'
  <1> SUFFICES ASSUME TypeOK, RateKept, [Next]_vars, IsBucket', Ample
               PROVE  RateInv'
    BY DEF RateKept, Ample
  <1>1. TypeOK'
    BY StepTyped, SMTT(60)
  <1>2. kind' = kind
    BY DEF Next, Eval, Expire, Tick, StepBack, Observe, vars, serverVars
  <1>3. IsBucket /\ RateInv
    BY <1>2 DEF IsBucket, RateKept
  <1>4. ASSUME NEW q \in Requests, Eval(q) PROVE RateInv'
    BY <1>1, <1>3, <1>4, EvalRate, SMTT(60)
  <1>5. CASE UNCHANGED vars
    BY <1>3, <1>5 DEF vars, serverVars, keyVars, observerVars, RateInv, Spent,
       Earned, Slack, Free, Unseen, ToExpiry
  <1> QED
    BY <1>3, <1>4, <1>5, ExpireRate, TickRate, StepBackRate, ObserveRate,
       SMTT(60)
       DEF Next

\* With no TTL, or one in which a bucket fills with two milliseconds to spare,
\* the token and leaky bucket scripts grant at most a full bucket and the refill
\* of the time really passed, whatever the clock and the expiry do.
THEOREM RateBoundedOnServer == Spec => []WithinRate
  <1>1. Init => RateKept
    <2>1. Init => Spent = 0 /\ Earned = 0 /\ ~exists
      BY Constants DEF Init, Spent, Earned
    <2> QED
      BY <2>1 DEF RateKept, RateInv
  <1>2. TypeOK /\ RateKept => WithinRate
    <2> SUFFICES ASSUME TypeOK, RateKept, IsBucket, Ample
                 PROVE  Ms * granted * One
                          <= Ms * Capacity + Rate * (real - mark + Ms - 1)
      BY DEF WithinRate, IsBucket, Ample
    <2>1. Spent <= Slack + Earned
      BY Amounts DEF RateKept, RateInv
    <2>2. /\ real - mark \in Int /\ Ms - 1 \in Int
          /\ real - mark + Ms - 1 = (real - mark) + (Ms - 1)
      BY Constants DEF TypeOK
    <2>3. /\ Rate * ((real - mark) + (Ms - 1))
               = Rate * (real - mark) + Rate * (Ms - 1)
      BY <2>2, Constants, Distributes, SMTT(60)
    <2> QED
      BY <2>1, <2>2, <2>3, Amounts DEF Spent, Slack, Earned
  <1> QED
    BY <1>1, <1>2, KeyTyped, StepRate, PTL DEF Spec
-----------------------------------------------------------------------------
(* The window.                                                              *)

Covers == KeyTTL = 0 \/ KeyTTL >= Window

Age(q) == real - grantedAt[q]

\* A request still to be counted is in the sorted set: its score is not older
\* than its age, but for the millisecond lost to rounding, and the key has at
\* least its TTL to live, counted from the request.
Remembered(q) ==
  /\ exists /\ q \in zset
  /\ wall - Ms * score[q] <= Age(q) + Ms - 1
  /\ KeyTTL > 0 => Ms * KeyTTL - (Ms - 1) - Age(q) <= Ms * expireAt - wall

WindowInv ==
  /\ Cardinality(zset) <= Limit
  /\ \A q \in Shortened : Remembered(q)

WindowKept == kind = "window" /\ Covers => WindowInv

\* The values Remembered compares.
LEMMA Times ==
  ASSUME TypeOK, NEW q \in Requests
  PROVE  /\ wall \in Nat /\ real \in Nat /\ wall <= real
         /\ score[q] \in Nat /\ grantedAt[q] \in Nat /\ Age(q) \in Nat
         /\ expireAt \in Nat
         /\ Ms * score[q] \in Nat /\ Ms * expireAt \in Nat
         /\ Ms * KeyTTL \in Nat /\ Ms * Window \in Nat
         /\ (Window - 1) * Ms = Ms * Window - Ms
  <1>1. /\ wall \in Nat /\ real \in Nat /\ wall <= real
        /\ score[q] \in Nat /\ grantedAt[q] \in Nat /\ grantedAt[q] <= real
        /\ expireAt \in Nat
    BY Constants DEF TypeOK
  <1>2. /\ Ms * score[q] \in Nat /\ Ms * expireAt \in Nat
        /\ Ms * KeyTTL \in Nat /\ Ms * Window \in Nat
    BY <1>1, Constants, Product
  <1>3. (Window - 1) * Ms = Ms * Window - Ms
    BY Constants
  <1> QED
    BY <1>1, <1>2, <1>3, SMTT(60) DEF Age

\* ZREMRANGEBYSCORE leaves a request that is still to be counted.
LEMMA CountedLives ==
  ASSUME TypeOK, NEW q \in Shortened, Remembered(q)
  PROVE  q \in Live(Now)
  <1>1. q \in Requests /\ Age(q) <= (Window - 1) * Ms
    BY SMTT(60) DEF Shortened, TypeOK, Age
  <1>2. ASSUME score[q] <= Now - Window PROVE FALSE
    <2>1. /\ Now \in Nat /\ Ms * Now \in Nat /\ Ms * Now <= wall
          /\ score[q] \in Nat
      BY <1>1, NowCut, Times, SMTT(60)
    <2>2. /\ Ms * score[q] <= Ms * (Now - Window)
          /\ Ms * (Now - Window) = Ms * Now - Ms * Window
      BY <1>2, <2>1, Constants, Monotone, Distributes, SMTT(60)
    <2> QED
      BY <1>1, <2>1, <2>2, Times, Constants, SMTT(60) DEF Remembered
  <1>3. score[q] > Now - Window
    BY <1>1, <1>2, NowCut, Times, Constants, SMTT(60)
  <1> QED
    BY <1>3, SMTT(60) DEF Live, Remembered

\* Adding one to a set below the limit does not exceed it.
LEMMA LiveBound ==
  ASSUME TypeOK, Cardinality(zset) <= Limit, NEW q \in Requests
  PROVE  /\ IsFiniteSet(Live(Now))
         /\ Cardinality(Live(Now)) <= Limit
         /\ Cardinality(Live(Now)) < Limit
              => Cardinality(Live(Now) \cup {q}) <= Limit
  <1>1. zset \subseteq Requests /\ Live(Now) \subseteq zset
    BY DEF TypeOK, Live
  <1>2. IsFiniteSet(zset)
    BY <1>1, RedisAssumption, FS_Subset
  <1>3. /\ IsFiniteSet(Live(Now))
        /\ Cardinality(Live(Now)) <= Cardinality(zset)
    BY <1>1, <1>2, FS_Subset
  <1>4. /\ Cardinality(zset) \in Nat /\ Cardinality(Live(Now)) \in Nat
    BY <1>2, <1>3, FS_CardinalityType
  <1>5. \/ Cardinality(Live(Now) \cup {q}) = Cardinality(Live(Now))
        \/ Cardinality(Live(Now) \cup {q}) = Cardinality(Live(Now)) + 1
    BY <1>3, FS_AddElement
  <1> QED
    BY <1>3, <1>4, <1>5, Constants, SMTT(60)

\* The script keeps what is counted, dates what it adds, and renews the TTL.
LEMMA EvalWindow ==
  ASSUME TypeOK, kind = "window", Covers, WindowInv,
         NEW q \in Requests, Eval(q)
  PROVE  WindowInv'
  <1> DEFINE fits == Cardinality(Live(Now)) < Limit
             kept == IF fits THEN Live(Now) \cup {q} ELSE Live(Now)
  <1>1. SlidingWindowScript(q)
    BY SMTT(60) DEF Eval, TokenBucketScript, LeakyBucketScript
  <1>2. /\ zset' = kept
        /\ score' = [m \in Requests |->
                       IF m \notin kept THEN 0
                       ELSE IF fits /\ m = q THEN Now ELSE score[m]]
        /\ recent' = IF fits THEN recent \cup {q} ELSE recent
        /\ grantedAt' = IF fits THEN [grantedAt EXCEPT ![q] = real] ELSE grantedAt
    BY <1>1 DEF SlidingWindowScript, Date, Salt
  <1>3. exists' /\ expireAt' = Expiry /\ UNCHANGED <<wall, real>>
    BY Zenon DEF Eval, serverVars
  <1>4. Cardinality(zset') <= Limit
    BY <1>2, LiveBound DEF WindowInv
  <1>5. ASSUME NEW p \in Shortened' PROVE Remembered(p)'
    <2>1. p \in recent' /\ real - grantedAt'[p] <= (Window - 1) * Ms
      BY <1>3, <1>5, SMTT(60) DEF Shortened
    <2>2. p \in Requests
      BY <1>2, <2>1, SMTT(60) DEF TypeOK
    <2>3. KeyTTL > 0 => Ms * KeyTTL - (Ms - 1) <= Ms * expireAt' - wall
      <3>1. /\ Now \in Nat /\ Ms * Now \in Nat
            /\ wall < Ms * Now + Ms /\ wall \in Nat
        BY NowCut, Constants, SMTT(60) DEF TypeOK
      <3>2. Ms * (Now + KeyTTL) = Ms * Now + Ms * KeyTTL /\ Ms * KeyTTL \in Int
        BY <3>1, Constants, Distributes, SMTT(60)
      <3> QED
        BY <1>3, <3>1, <3>2, Constants, SMTT(60) DEF Expiry
    <2>4. CASE fits /\ p = q
      <3>1. p \in zset' /\ score'[p] = Now /\ grantedAt'[p] = real
        BY <1>2, <2>2, <2>4, SMTT(60) DEF TypeOK
      <3>2. Age(p)' = 0 /\ real \in Nat
        BY <1>3, <2>2, <3>1, Times, SMTT(60) DEF Age
      <3>3. wall - Ms * Now <= Ms - 1
        BY NowCut, Constants, SMTT(60) DEF TypeOK
      <3>4. Ms * KeyTTL \in Int /\ wall \in Int /\ Ms * Now \in Int
        BY <2>2, Times, NowCut, SMTT(60)
      <3> QED
        BY <1>3, <2>3, <3>1, <3>2, <3>3, <3>4, Constants, SMTT(60)
           DEF Remembered
    <2>5. CASE ~(fits /\ p = q)
      <3>1. p \in recent /\ grantedAt'[p] = grantedAt[p]
        BY <1>2, <2>1, <2>2, <2>5, SMTT(60) DEF TypeOK
      <3>2. p \in Shortened
        BY <2>1, <3>1 DEF Shortened
      <3>3. Remembered(p)
        BY <3>2 DEF WindowInv
      <3>4. p \in Live(Now)
        BY <3>2, <3>3, CountedLives, SMTT(60)
      <3>5. p \in zset' /\ score'[p] = score[p] /\ Age(p)' = Age(p)
        BY <1>2, <1>3, <2>2, <2>5, <3>1, <3>4, SMTT(60) DEF Age
      <3>6. Age(p) \in Nat /\ Ms * KeyTTL \in Int /\ wall \in Int
        BY <2>2, Times, SMTT(60)
      <3>7. Ms * expireAt' \in Int
        BY <1>3, NowCut, Constants, Product, SMTT(60) DEF Expiry
      <3> QED
        BY <1>3, <2>3, <3>3, <3>5, <3>6, <3>7, Constants, SMTT(60)
           DEF Remembered
    <2> QED
      BY <2>4, <2>5
  <1> QED
    BY <1>4, <1>5 DEF WindowInv

\* A key whose TTL covers the window goes after all it has to count.
LEMMA ExpireWindow ==
  ASSUME TypeOK, Covers, WindowInv, Expire
  PROVE  WindowInv'
  <1>1. Shortened = {}
    <2> SUFFICES ASSUME NEW q \in Shortened PROVE FALSE
      OBVIOUS
    <2>1. q \in Requests /\ Age(q) <= (Window - 1) * Ms /\ Remembered(q)
      BY SMTT(60) DEF Shortened, TypeOK, Age, WindowInv
    <2>2. KeyTTL > 0 /\ expireAt <= Now /\ KeyTTL >= Window
      BY Constants, NowCut, SMTT(60) DEF Expire, Covers, TypeOK
    <2>3. /\ Ms * expireAt <= Ms * Now /\ Ms * Window <= Ms * KeyTTL
      BY <2>2, Constants, NowCut, Monotone, SMTT(60) DEF TypeOK
    <2> QED
      BY <2>1, <2>2, <2>3, NowCut, Times, Constants DEF Remembered
  <1>2. Shortened' = Shortened /\ zset' = {}
    BY DEF Expire, Shortened, observerVars, serverVars
  <1> QED
    BY <1>1, <1>2, FS_EmptySet, Constants, SMTT(60) DEF WindowInv

\* Time passes the same on both clocks, and a clock set back makes nothing
\* older.
LEMMA ClockWindow ==
  ASSUME TypeOK, WindowInv, Tick \/ StepBack
  PROVE  WindowInv'
  <1>1. UNCHANGED <<exists, zset, score, expireAt>>
    BY SMTT(60) DEF Tick, StepBack, keyVars
  <1>2. wall' \in Int /\ wall' - real' <= wall - real /\ real' \in Int
    BY Constants, SMTT(60) DEF Tick, StepBack, TypeOK
  <1>3. ASSUME NEW q \in Shortened' PROVE Remembered(q)'
    <2>1. q \in recent' /\ real' - grantedAt'[q] <= (Window - 1) * Ms
      BY <1>3, SMTT(60) DEF Shortened
    <2>2. /\ q \in recent /\ q \in Requests /\ grantedAt'[q] = grantedAt[q]
          /\ real <= real'
      BY <2>1, Constants, SMTT(60) DEF Tick, StepBack, observerVars, TypeOK
    <2>3. Age(q)' = real' - grantedAt[q] /\ Age(q) = real - grantedAt[q]
      BY <2>2, SMTT(60) DEF Age
    <2>4. q \in Shortened
      BY <1>2, <2>1, <2>2, <2>3, Times, Constants, SMTT(60) DEF Shortened
    <2>5. Remembered(q)
      BY <2>4 DEF WindowInv
    <2> QED
      BY <1>1, <1>2, <2>2, <2>3, <2>5, Times, Constants, SMTT(60)
         DEF Remembered
  <1> QED
    BY <1>1, <1>3, SMTT(60) DEF WindowInv

LEMMA StepWindow == TypeOK /\ WindowKept /\ [Next]_vars => WindowKept'
  <1> SUFFICES ASSUME TypeOK, WindowKept, [Next]_vars, kind' = "window", Covers
               PROVE  WindowInv'
    BY SMTT(60) DEF WindowKept, Covers
  <1>1. kind' = kind
    BY DEF Next, Eval, Expire, Tick, StepBack, Observe, vars, serverVars
  <1>2. kind = "window" /\ WindowInv
    BY <1>1 DEF WindowKept
  <1>3. ASSUME NEW q \in Requests, Eval(q) PROVE WindowInv'
    BY <1>2, <1>3, EvalWindow, SMTT(60)
  <1>4. CASE Observe \/ UNCHANGED vars
    BY <1>2, <1>4, SMTT(60)
       DEF Observe, vars, serverVars, keyVars, observerVars, WindowInv,
           Shortened, Remembered, Age
  <1> QED
    BY <1>2, <1>3, <1>4, ExpireWindow, ClockWindow, SMTT(60) DEF Next

\* A sliding window whose TTL covers it grants at most limit requests in any
\* window a millisecond shorter than the one configured, whatever the clock does
\* and however often commands are sent again.
THEOREM WindowBoundedOnServer == Spec => []AtMostLimitKept
  <1>1. Init => WindowKept
    BY FS_EmptySet, Constants DEF Init, WindowKept, WindowInv, Shortened
  <1>2. TypeOK /\ WindowKept => AtMostLimitKept
    <2> SUFFICES ASSUME TypeOK, kind = "window", Covers, WindowInv
                 PROVE  Cardinality(Shortened) <= Limit
      BY SMTT(60) DEF AtMostLimitKept, WindowKept, Covers
    <2>1. Shortened \subseteq zset /\ zset \subseteq Requests
      BY DEF WindowInv, Remembered, TypeOK
    <2>2. IsFiniteSet(zset)
      BY <2>1, RedisAssumption, FS_Subset, SMTT(60)
    <2>3. /\ IsFiniteSet(Shortened)
          /\ Cardinality(Shortened) <= Cardinality(zset)
      BY <2>1, <2>2, FS_Subset
    <2>4. Cardinality(Shortened) \in Nat /\ Cardinality(zset) \in Nat
      BY <2>2, <2>3, FS_CardinalityType
    <2> QED
      BY <2>3, <2>4, Constants DEF WindowInv
  <1> QED
    BY <1>1, <1>2, KeyTyped, StepWindow, PTL DEF Spec
-----------------------------------------------------------------------------
(* What a denied caller is told.                                            *)

Less == {ss \in Nat \X Nat : ss[1] < ss[2]}

\* A set of numbers that is not empty has a least one.
LEMMA HasLeast ==
  ASSUME NEW T \in SUBSET Nat, T # {}
  PROVE  \E x \in T : \A y \in T : x <= y
  <1>1. IsWellFoundedOn(Less, Nat)
    BY NatLessThanWellFounded, Zenon DEF OpToRel, Less
  <1>2. PICK x \in T : \A y \in T : ~(<<y, x>> \in Less)
    BY <1>1, WFMin, Zenon
  <1>3. \A y \in T : ~(y < x)
    BY <1>2, Zenon DEF Less
  <1> QED
    BY <1>3

\* Rounding up a quotient gives the least number of steps that is enough.
LEMMA Ceiling ==
  ASSUME NEW a \in Nat \ {0}, NEW b \in Nat \ {0}
  PROVE  /\ CeilDiv(a, b) \in Nat
         /\ CeilDiv(a, b) * b >= a
         /\ (CeilDiv(a, b) - 1) * b < a
  <1> DEFINE w == CeilDiv(a, b)
  <1>1. a + b - 1 \in Nat
    OBVIOUS
  <1>2. w \in Nat /\ b * w <= a + b - 1 /\ a + b - 1 < b * w + b
    BY <1>1, Floor DEF CeilDiv
  <1> HIDE DEF w
  <1>3. w * b = b * w /\ (w - 1) * b = b * w - b /\ b * w \in Int
    BY <1>2
  <1>4. w * b >= a /\ (w - 1) * b < a
    BY <1>2, <1>3
  <1> QED
    BY <1>2, <1>4 DEF w

\* The sorted set never holds more than limit members, whatever the TTL.
LogBounded == kind = "window" => Cardinality(zset) <= Limit

LEMMA StepLog == TypeOK /\ LogBounded /\ [Next]_vars => LogBounded'
  <1> SUFFICES ASSUME TypeOK, LogBounded, [Next]_vars, kind' = "window"
               PROVE  Cardinality(zset') <= Limit
    BY SMTT(60) DEF LogBounded
  <1>1. kind' = kind
    BY DEF Next, Eval, Expire, Tick, StepBack, Observe, vars, serverVars
  <1>2. Cardinality(zset) <= Limit
    BY <1>1 DEF LogBounded
  <1>3. ASSUME NEW q \in Requests, Eval(q) PROVE Cardinality(zset') <= Limit
    <2>1. SlidingWindowScript(q)
      BY <1>1, <1>3, SMTT(60) DEF Eval, TokenBucketScript, LeakyBucketScript
    <2>2. zset' = IF Cardinality(Live(Now)) < Limit
                  THEN Live(Now) \cup {q} ELSE Live(Now)
      BY <2>1, SMTT(60) DEF SlidingWindowScript, Salt
    <2> QED
      BY <1>2, <2>2, LiveBound, SMTT(60)
  <1>4. CASE Expire
    BY <1>4, FS_EmptySet, Constants, SMTT(60) DEF Expire
  <1>5. CASE Tick \/ StepBack \/ Observe \/ UNCHANGED vars
    BY <1>2, <1>5, SMTT(60) DEF Tick, StepBack, Observe, vars, keyVars
  <1> QED
    BY <1>3, <1>4, <1>5, SMTT(60) DEF Next

\* The oldest entry leaves the window after retry_after_ms and not before.
LEMMA OldestLeaves ==
  ASSUME TypeOK, Cardinality(zset) <= Limit, Cardinality(Live(Now)) >= Limit
  PROVE  LET wait == WindowRetry(Live(Now))
         IN  /\ Cardinality(Live(Now + wait)) < Limit
             /\ Cardinality(Live(Now + wait - 1)) >= Limit
  <1> DEFINE live == Live(Now)
             scores == {score[m] : m \in live}
             s == RetryScore(live)
             wait == WindowRetry(live)
  <1>1. /\ live \subseteq zset /\ zset \subseteq Requests
        /\ \A m \in zset : score[m] \in Nat
        /\ Now \in Nat
    BY NowCut, SMTT(60) DEF TypeOK, Live
  <1>2. IsFiniteSet(zset)
    BY <1>1, RedisAssumption, FS_Subset, SMTT(60)
  <1>3. /\ IsFiniteSet(live) /\ Cardinality(live) \in Nat
        /\ Cardinality(zset) \in Nat
    BY <1>1, <1>2, FS_Subset, FS_CardinalityType, SMTT(60)
  <1>4. live # {}
    BY <1>3, FS_EmptySet, Constants
  <1>5. \E x \in scores : \A y \in scores : x <= y
    <2>1. scores \in SUBSET Nat /\ scores # {}
      BY <1>1, <1>4, SMTT(60)
    <2> HIDE DEF scores
    <2> QED
      BY <2>1, HasLeast, SMTT(60)
  <1>6. s \in scores /\ \A m \in live : s <= score[m]
    <2>1. \E x \in scores : \A m \in live : x <= score[m]
      BY <1>5, SMTT(60)
    <2> QED
      BY <2>1, SMTT(60) DEF RetryScore
  <1>7. PICK oldest \in live : score[oldest] = s
    BY <1>6, SMTT(60)
  <1>8. s \in Nat /\ wait = s + Window - Now /\ s > Now - Window
    BY <1>1, <1>7, SMTT(60) DEF WindowRetry, Live
  <1> HIDE DEF s, wait, live, scores
  <1>9. Live(Now + wait) \subseteq live \ {oldest}
    <2> SUFFICES ASSUME NEW m \in Live(Now + wait)
                 PROVE  m \in live /\ m # oldest
      BY SMTT(60)
    <2>1. m \in zset /\ score[m] > s /\ score[m] \in Nat
      BY <1>1, <1>8, Constants, SMTT(60) DEF Live
    <2>2. m # oldest
      BY <1>7, <1>8, <2>1, SMTT(60)
    <2>3. score[m] > Now - Window
      BY <1>1, <1>8, <2>1, Constants, SMTT(60)
    <2> QED
      BY <2>1, <2>2, <2>3, SMTT(60) DEF live, Live
  <1>10. Cardinality(Live(Now + wait)) < Limit
    <2>1. /\ IsFiniteSet(live \ {oldest})
          /\ Cardinality(live \ {oldest}) = Cardinality(live) - 1
      BY <1>3, <1>7, FS_RemoveElement, SMTT(60)
    <2>2. /\ IsFiniteSet(Live(Now + wait))
          /\ Cardinality(Live(Now + wait)) <= Cardinality(live \ {oldest})
      BY <1>9, <2>1, FS_Subset, SMTT(60)
    <2>3. Cardinality(live) <= Cardinality(zset)
      BY <1>1, <1>2, FS_Subset, SMTT(60)
    <2>4. Cardinality(Live(Now + wait)) \in Nat
      BY <2>2, FS_CardinalityType, SMTT(60)
    <2> QED
      BY <1>3, <2>1, <2>2, <2>3, <2>4, Constants, SMTT(60)
  <1>11. Cardinality(Live(Now + wait - 1)) >= Limit
    <2>1. live \subseteq Live(Now + wait - 1)
      <3> SUFFICES ASSUME NEW m \in live PROVE m \in Live(Now + wait - 1)
        BY SMTT(60)
      <3>1. m \in zset /\ score[m] \in Nat /\ s <= score[m]
        BY <1>1, <1>6, SMTT(60)
      <3>2. score[m] > (Now + wait - 1) - Window
        BY <1>1, <1>8, <3>1, Constants, SMTT(60)
      <3> QED
        BY <3>1, <3>2 DEF Live
    <2>2. Live(Now + wait - 1) \subseteq zset
      BY DEF Live
    <2>3. IsFiniteSet(Live(Now + wait - 1))
      BY <1>2, <2>2, FS_Subset, SMTT(60)
    <2>4. /\ Cardinality(live) <= Cardinality(Live(Now + wait - 1))
          /\ Cardinality(Live(Now + wait - 1)) \in Nat
      BY <2>1, <2>3, FS_Subset, FS_CardinalityType, SMTT(60)
    <2> QED
      BY <1>3, <2>4, Constants, SMTT(60) DEF live
  <1> QED
    BY <1>10, <1>11, SMTT(60) DEF live, wait

\* retry_after_ms is exact: a denied caller that waits it is granted, and not
\* a millisecond earlier, when nobody else asks meanwhile.
THEOREM RetryAfterOnServer == Spec => []RetryAfterExact
  <1>1. Init => LogBounded
    BY FS_EmptySet, Constants, SMTT(60) DEF Init, LogBounded
  <1>2. TypeOK /\ LogBounded => RetryAfterExact
    <2> SUFFICES ASSUME TypeOK, LogBounded PROVE RetryAfterExact
      OBVIOUS
    <2>1. ASSUME Tokens < One
          PROVE  LET wait == TokenRetry(Tokens)
                 IN  /\ Tokens + wait * Rate >= One
                     /\ Tokens + (wait - 1) * Rate < One
      <3>1. Tokens \in Nat /\ One - Tokens \in Nat \ {0}
        BY <2>1, BucketRange, Constants, SMTT(60)
      <3> DEFINE w == TokenRetry(Tokens)
      <3>2. w \in Nat /\ w * Rate >= One - Tokens /\ (w - 1) * Rate < One - Tokens
        BY <3>1, Constants, Ceiling, SMTT(60) DEF TokenRetry
      <3>3. w * Rate \in Int /\ (w - 1) * Rate \in Int
        BY <3>2, Constants, SMTT(60)
      <3> HIDE DEF w
      <3>4. Tokens + w * Rate >= One /\ Tokens + (w - 1) * Rate < One
        BY <3>1, <3>2, <3>3, Constants, SMTT(60)
      <3> QED
        BY <3>4 DEF w
    <2>2. ASSUME Water + One > Capacity
          PROVE  LET wait == LeakyRetry(Water)
                 IN  /\ Water - wait * Rate + One <= Capacity
                     /\ Water - (wait - 1) * Rate + One > Capacity
      <3> DEFINE over == Water + One - Capacity
                 w == LeakyRetry(Water)
      <3>1. Water \in Nat /\ over \in Nat \ {0}
        BY <2>2, BucketRange, Constants, SMTT(60)
      <3>2. w \in Nat /\ w * Rate >= over /\ (w - 1) * Rate < over
        BY <3>1, Constants, Ceiling, SMTT(60) DEF LeakyRetry
      <3>3. w * Rate \in Int /\ (w - 1) * Rate \in Int
        BY <3>2, Constants, SMTT(60)
      <3> HIDE DEF w
      <3>4. /\ Water - w * Rate + One <= Capacity
            /\ Water - (w - 1) * Rate + One > Capacity
        BY <3>1, <3>2, <3>3, Constants
      <3> QED
        BY <3>4 DEF w
    <2> QED
      BY <2>1, <2>2, OldestLeaves DEF RetryAfterExact, LogBounded
  <1> QED
    BY <1>1, <1>2, KeyTyped, StepLog, PTL DEF Spec
=============================================================================
