---------------------------- MODULE LeakyBucket -----------------------------
(***************************************************************************)
(* The in-memory leaky bucket on one key (src/memory/leaky_bucket.go), in  *)
(* units of 1/One drop, and its relation to the token bucket.              *)
(***************************************************************************)
EXTENDS Request, Numeric

CONSTANTS
  One,          \* units in one drop
  Capacity,     \* NewLeakyBucket's capacity, in units
  Rate,         \* NewLeakyBucket's rate, in units per tick
  MaxDuration   \* maxDuration, in ticks

\* NewLeakyBucket panics otherwise.
ValidBucket ==
  /\ One \in Nat \ {0}
  /\ Capacity \in Nat /\ Capacity >= One
  /\ Rate \in Nat \ {0}
  /\ MaxDuration \in Nat \ {0}

ASSUME LeakyAssumption == ValidBucket

VARIABLES
  stored,     \* the store has a leakyState for the key
  water,      \* leakyState.water
  lastLeak,   \* leakyState.lastLeak
  mark,       \* an observer counts grants from this request time on
  granted,    \* grants it has counted
  upto        \* request time of the latest of them

leakyVars == <<stored, water, lastLeak>>
observerVars == <<mark, granted, upto>>
vars == <<requestVars, leakyVars, observerVars>>

\* The state leakAndDecide works on: the stored one, or create(now).
Water == IF stored THEN water ELSE 0
LastLeak(at) == IF stored THEN lastLeak ELSE at

\* Fault: the water goes below zero.
LeakedUnclamped(w, last, at) == w - (at - last) * Rate

\* Water after the leak at time at.
Leaked(w, last, at) ==
  LET left == w - (at - last) * Rate
  IN  IF left < 0 THEN 0 ELSE left

\* Faults: a drop that overflows is let in; the wait forgets the new drop.
FitsPartly(w) == w < Capacity
RetryAfterFull(w) == durationFromSecondsCeil(w - Capacity, Rate, MaxDuration)

Fits(w) == w + One <= Capacity

Remaining(w) == remainingFloor(Capacity - w, One)
RetryAfter(w) == durationFromSecondsCeil(w + One - Capacity, Rate, MaxDuration)

\* Allow: the state is created if need be, leaked, and a drop fits or not.
Decide(t) ==
  LET leaked == Leaked(Water, LastLeak(now[t]), now[t])
  IN  /\ Deciding(t)
      /\ stored' = TRUE
      /\ lastLeak' = now[t]
      /\ IF Fits(leaked)
         THEN /\ water' = leaked + One
              /\ granted' = granted + 1
              /\ upto' = now[t]
         ELSE /\ water' = leaked
              /\ UNCHANGED <<granted, upto>>
      /\ mark' = IF stored THEN mark ELSE now[t]

\* The store expires or evicts the key; what was observed of it ends.
Forget ==
  /\ stored
  /\ stored' = FALSE
  /\ water' = Capacity /\ lastLeak' = 0
  /\ mark' = 0 /\ granted' = 0 /\ upto' = 0
  /\ UNCHANGED requestVars

\* The observer starts counting afresh at the latest request.
Observe ==
  /\ stored
  /\ mark' = lastLeak
  /\ granted' = 0
  /\ upto' = lastLeak
  /\ UNCHANGED <<requestVars, leakyVars>>

Init ==
  /\ RequestInit
  /\ stored = FALSE
  /\ water = Capacity /\ lastLeak = 0
  /\ mark = 0 /\ granted = 0 /\ upto = 0

Next ==
  \/ Tick /\ UNCHANGED <<leakyVars, observerVars>>
  \/ \E t \in Threads :
       \/ ReadClock(t) /\ UNCHANGED <<leakyVars, observerVars>>
       \/ Decide(t)
  \/ Forget
  \/ Observe

Spec == Init /\ [][Next]_vars
-----------------------------------------------------------------------------
\* Types; the water never goes below zero.
TypeOK ==
  /\ RequestTypeOK
  /\ stored \in BOOLEAN
  /\ water \in Nat
  /\ lastLeak \in 0 .. clock
  /\ mark \in 0 .. clock
  /\ granted \in Nat
  /\ upto \in 0 .. clock

\* The free space of the leaky bucket is the tokens of a token bucket.
Dual == INSTANCE TokenBucket WITH
  tokens <- Capacity - water, lastRefilled <- lastLeak

\* leakAndDecide takes exactly the decisions of refillAndDecide: the two
\* algorithms admit the same requests, and so obey the same rate bound.
ActsAsTokenBucket == Dual!Spec

\* Both buckets also report the same Remaining and RetryAfter.
SameReport ==
  \A at \in 0 .. clock :
    LET w == Leaked(Water, LastLeak(at), at)
    IN  /\ Remaining(w) = Dual!Remaining(Capacity - w)
        /\ RetryAfter(w) = Dual!RetryAfter(Capacity - w)
        /\ ~Fits(w) => RetryAfter(w) > 0
=============================================================================
