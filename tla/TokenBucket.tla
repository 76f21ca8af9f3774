---------------------------- MODULE TokenBucket -----------------------------
(***************************************************************************)
(* The in-memory token bucket on one key (src/memory/token_bucket.go).     *)
(* Amounts are integers, One units to a token, so that a tick may refill a *)
(* fraction of a token.                                                    *)
(***************************************************************************)
EXTENDS Request, Numeric

CONSTANTS
  One,          \* units in one token
  Capacity,     \* NewTokenBucket's capacity, in units
  Rate,         \* NewTokenBucket's rate, in units per tick
  MaxDuration   \* maxDuration, in ticks

\* NewTokenBucket panics otherwise.
ValidBucket ==
  /\ One \in Nat \ {0}
  /\ Capacity \in Nat /\ Capacity >= One
  /\ Rate \in Nat \ {0}
  /\ MaxDuration \in Nat \ {0}

ASSUME BucketAssumption == ValidBucket

VARIABLES
  stored,        \* the store has a bucket for the key
  tokens,        \* bucket.tokens
  lastRefilled,  \* bucket.lastRefilled
  mark,          \* an observer counts grants from this request time on
  granted,       \* grants it has counted
  upto           \* request time of the latest of them

bucketVars == <<stored, tokens, lastRefilled>>
observerVars == <<mark, granted, upto>>
vars == <<requestVars, bucketVars, observerVars>>

\* The bucket refillAndDecide works on: the stored one, or create(now).
Tokens == IF stored THEN tokens ELSE Capacity
LastRefilled(at) == IF stored THEN lastRefilled ELSE at

\* Faults: no cap; a negative elapsed time taken for zero.
RefilledUncapped(tk, last, at) == tk + (at - last) * Rate

RefilledForward(tk, last, at) ==
  LET sum == tk + (IF at > last THEN at - last ELSE 0) * Rate
  IN  IF sum > Capacity THEN Capacity ELSE sum

\* Tokens after the refill at time at; elapsed is negative when at is older
\* than the last refill.
Refilled(tk, last, at) ==
  LET sum == tk + (at - last) * Rate
  IN  IF sum > Capacity THEN Capacity ELSE sum

Allows(tk) == tk >= One

\* Faults: Remaining rounded up; RetryAfter rounded down.
RemainingCeil(tk) == remainingFloor(tk + One - 1, One)
RetryAfterFloor(tk) == (One - tk) \div Rate

\* Result.Remaining and Result.RetryAfter, from the tokens left.
Remaining(tk) == remainingFloor(tk, One)
RetryAfter(tk) == durationFromSecondsCeil(One - tk, Rate, MaxDuration)

\* Allow: the bucket is created if need be, refilled, and charged or not.
Decide(t) ==
  LET refilled == Refilled(Tokens, LastRefilled(now[t]), now[t])
  IN  /\ Deciding(t)
      /\ stored' = TRUE
      /\ lastRefilled' = now[t]
      /\ IF Allows(refilled)
         THEN /\ tokens' = refilled - One
              /\ granted' = granted + 1
              /\ upto' = now[t]
         ELSE /\ tokens' = refilled
              /\ UNCHANGED <<granted, upto>>
      /\ mark' = IF stored THEN mark ELSE now[t]

\* The store expires or evicts the key; what was observed of it ends.
Forget ==
  /\ stored
  /\ stored' = FALSE
  /\ tokens' = 0 /\ lastRefilled' = 0
  /\ mark' = 0 /\ granted' = 0 /\ upto' = 0
  /\ UNCHANGED requestVars

\* The observer starts counting afresh at the latest request.
Observe ==
  /\ stored
  /\ mark' = lastRefilled
  /\ granted' = 0
  /\ upto' = lastRefilled
  /\ UNCHANGED <<requestVars, bucketVars>>

Init ==
  /\ RequestInit
  /\ stored = FALSE
  /\ tokens = 0 /\ lastRefilled = 0
  /\ mark = 0 /\ granted = 0 /\ upto = 0

Next ==
  \/ Tick /\ UNCHANGED <<bucketVars, observerVars>>
  \/ \E t \in Threads :
       \/ ReadClock(t) /\ UNCHANGED <<bucketVars, observerVars>>
       \/ Decide(t)
  \/ Forget
  \/ Observe

Spec == Init /\ [][Next]_vars
-----------------------------------------------------------------------------
\* Types; the bucket is never fuller than its capacity.
TypeOK ==
  /\ RequestTypeOK
  /\ stored \in BOOLEAN
  /\ tokens \in Int /\ tokens <= Capacity
  /\ lastRefilled \in 0 .. clock
  /\ mark \in 0 .. clock
  /\ granted \in Nat
  /\ upto \in 0 .. clock

\* The promise of a token bucket: from any request on, at most a full bucket
\* plus what the rate refills in the time the requests span is granted, even
\* though goroutines decide in another order than they read the clock and
\* elapsed time can be negative.
WithinRate ==
  granted > 0 => granted * One <= Capacity + Rate * (upto - mark)

\* Reachable buckets, each with the times a request can carry.
Decisions ==
  {Refilled(Tokens, LastRefilled(at), at) : at \in 0 .. clock}

\* A denied caller that waits RetryAfter is granted, and one tick less is too
\* early, when nobody else asks meanwhile and the wait was not clamped.
RetryAfterExact ==
  \A tk \in Decisions :
    ~Allows(tk) /\ RetryAfter(tk) < MaxDuration =>
      /\ Allows(Refilled(tk, 0, RetryAfter(tk)))
      /\ ~Allows(Refilled(tk, 0, RetryAfter(tk) - 1))

\* Remaining is what the key can still spend at once: after a grant the next
\* request at the same instant is granted exactly when Remaining is not zero,
\* and then Remaining drops by one.
RemainingHonest ==
  \A tk \in Decisions :
    Allows(tk) =>
      LET left == tk - One
      IN  /\ Allows(left) <=> Remaining(left) > 0
          /\ Allows(left) => Remaining(left - One) = Remaining(left) - 1
=============================================================================
