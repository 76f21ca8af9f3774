------------------------------ MODULE RedisKey ------------------------------
(***************************************************************************)
(* One Redis key under one of the three Lua scripts (src/redis/scripts).   *)
(* Redis runs a script atomically.  TIME is cut down to milliseconds, and  *)
(* so are the durations the limiters pass; time itself goes in ticks, Ms   *)
(* of them to a millisecond.  The server's clock may step back, and        *)
(* PEXPIRE makes the server delete the key.  real is the time that has     *)
(* really passed; it is what the limits are stated in.                     *)
(***************************************************************************)
EXTENDS Integers, FiniteSets

CONSTANTS
  Kinds,           \* which of the scripts are considered
  One,             \* units in one token or drop
  Capacity,        \* ARGV capacity, in units
  Rate,            \* ARGV rate, in units per millisecond
  Limit,           \* ARGV limit
  WindowDuration,  \* NewSlidingWindow's window, in ticks
  TTLDuration,     \* WithKeyTTL, in ticks; 0 is no TTL
  Ms,              \* ticks in a millisecond
  Requests,        \* requests, told apart by the salt they carry
  MaxTime,         \* bound on the ticks that pass
  MaxBacks         \* bound on the number of clock steps back

ASSUME RedisAssumption ==
  /\ Kinds \subseteq {"token", "leaky", "window"}
  /\ One \in Nat \ {0} /\ Rate \in Nat \ {0} /\ Capacity \in Nat
  /\ Capacity >= One
  /\ Limit \in Nat \ {0} /\ WindowDuration \in Nat \ {0}
  /\ TTLDuration \in Nat /\ Ms \in Nat \ {0}
  /\ IsFiniteSet(Requests)
  /\ MaxTime \in Nat /\ MaxBacks \in Nat

VARIABLES
  kind,      \* the script that serves the key
  wall,      \* the server's clock
  real,      \* time passed
  backs,     \* clock steps back so far
  exists,    \* the key is in the database
  level,     \* hash field tokens or water
  last,      \* hash field last_refilled_ms or last_leak_ms
  zset,      \* members of the sorted set
  score,     \* their scores
  expireAt,  \* server time in ms at which the key expires, if there is a TTL
  mark,      \* an observer counts grants since this (real) time
  granted,   \* grants of the buckets it has counted
  recent,    \* requests the window granted in the last WindowDuration
  grantedAt  \* when they were granted, in real time

serverVars == <<kind, wall, real, backs>>
keyVars == <<exists, level, last, zset, score, expireAt>>
observerVars == <<mark, granted, recent, grantedAt>>
vars == <<serverVars, keyVars, observerVars>>

\* time.Duration.Milliseconds
Milliseconds(d) == d \div Ms

Window == Milliseconds(WindowDuration)
KeyTTL == Milliseconds(TTLDuration)

\* TIME, in whole milliseconds.
Now == wall \div Ms

\* Fault: no guard.
NowUnguarded == Now

\* max(now, last): the guard against a clock that stepped back.
NowOrLast == IF exists /\ Now < last THEN last ELSE Now

\* Fault: no cap.
TokensUncapped ==
  IF exists THEN level + (NowOrLast - last) * Rate ELSE Capacity

\* token_bucket.lua: tokens before the decision.
Tokens ==
  LET sum == level + (NowOrLast - last) * Rate
  IN  IF ~exists THEN Capacity ELSE IF sum > Capacity THEN Capacity ELSE sum

\* leaky_bucket.lua: water before the decision.
Water ==
  LET left == level - (NowOrLast - last) * Rate
  IN  IF ~exists THEN 0 ELSE IF left < 0 THEN 0 ELSE left

\* sliding_window_log.lua: what ZREMRANGEBYSCORE -inf window_start leaves.
Live(at) == {m \in zset : score[m] > at - Window}

CeilDiv(a, b) == (a + b - 1) \div b

\* Fault: the newest entry is waited for.
RetryScoreNewest(members) ==
  CHOOSE s \in {score[m] : m \in members} :
    \A m \in members : score[m] <= s

\* ZRANGE 0 0 WITHSCORES
RetryScore(members) ==
  CHOOSE s \in {score[m] : m \in members} :
    \A m \in members : s <= score[m]

\* retry_after_ms of a denial.
TokenRetry(tokens) == CeilDiv(One - tokens, Rate)
LeakyRetry(water) == CeilDiv(water + One - Capacity, Rate)
WindowRetry(members) == RetryScore(members) + Window - Now

\* PEXPIRE, when there is a TTL.
Expiry == IF KeyTTL > 0 THEN Now + KeyTTL ELSE 0

Fresh(q, at) == at - grantedAt[q] < WindowDuration

\* The observer counts what the buckets grant, and dates what the window does.
Count(yes) ==
  /\ granted' = IF yes THEN granted + 1 ELSE granted
  /\ UNCHANGED <<mark, recent, grantedAt>>

Date(q, yes) ==
  /\ recent' = IF yes THEN recent \cup {q} ELSE recent
  /\ grantedAt' = IF yes THEN [grantedAt EXCEPT ![q] = real] ELSE grantedAt
  /\ UNCHANGED <<mark, granted>>

TokenBucketScript ==
  /\ kind = "token"
  /\ level' = IF Tokens >= One THEN Tokens - One ELSE Tokens
  /\ last' = NowOrLast
  /\ Count(Tokens >= One)
  /\ UNCHANGED <<zset, score>>

LeakyBucketScript ==
  /\ kind = "leaky"
  /\ level' = IF Water + One <= Capacity THEN Water + One ELSE Water
  /\ last' = NowOrLast
  /\ Count(Water + One <= Capacity)
  /\ UNCHANGED <<zset, score>>

\* Fault: every request has the same salt.
SaltOfAll(q) == CHOOSE m \in Requests : TRUE

\* ARGV member: random for each request, and the same when it is sent again.
Salt(q) == q

\* ZADD of a member that is there only moves its score.
SlidingWindowScript(q) ==
  LET live == Live(Now)
      fits == Cardinality(live) < Limit
      kept == IF fits THEN live \cup {Salt(q)} ELSE live
  IN  /\ kind = "window"
      /\ zset' = kept
      /\ score' = [m \in Requests |->
                     IF m \notin kept THEN 0
                     ELSE IF fits /\ m = Salt(q) THEN Now ELSE score[m]]
      /\ Date(q, fits)
      /\ UNCHANGED <<level, last>>

\* A script runs, for a new request or for one whose command is sent again, on
\* a key that is there, or is not, but is never overdue.
Eval(q) ==
  /\ exists /\ KeyTTL > 0 => Now <= expireAt
  /\ TokenBucketScript \/ LeakyBucketScript \/ SlidingWindowScript(q)
  /\ exists' = TRUE
  /\ expireAt' = Expiry
  /\ UNCHANGED serverVars

\* The server deletes an expired key; servers differ in whether a key is gone
\* in the millisecond it expires or in the next, and either may happen here.
Expire ==
  /\ exists /\ KeyTTL > 0
  /\ Now >= expireAt
  /\ exists' = FALSE /\ level' = 0 /\ last' = 0 /\ zset' = {}
  /\ score' = [m \in Requests |-> 0]
  /\ expireAt' = 0
  /\ UNCHANGED <<serverVars, observerVars>>

\* Time passes; the observer forgets grants older than the window.
Tick ==
  /\ real < MaxTime
  /\ real' = real + 1 /\ wall' = wall + 1
  /\ recent' = {q \in recent : Fresh(q, real + 1)}
  /\ grantedAt' = [q \in Requests |-> IF q \in recent' THEN grantedAt[q] ELSE 0]
  /\ UNCHANGED <<kind, backs, keyVars, mark, granted>>

\* The server's clock is set back.
StepBack ==
  /\ backs < MaxBacks
  /\ \E to \in 0 .. (wall - 1) : wall' = to
  /\ backs' = backs + 1
  /\ UNCHANGED <<kind, real, keyVars, observerVars>>

\* The observer starts counting afresh.
Observe ==
  /\ mark' = real /\ granted' = 0
  /\ UNCHANGED <<serverVars, keyVars, recent, grantedAt>>

Init ==
  /\ kind \in Kinds
  /\ wall = 0 /\ real = 0 /\ backs = 0
  /\ exists = FALSE /\ level = 0 /\ last = 0 /\ zset = {}
  /\ score = [m \in Requests |-> 0]
  /\ expireAt = 0
  /\ mark = 0 /\ granted = 0
  /\ recent = {} /\ grantedAt = [q \in Requests |-> 0]

Next ==
  \/ \E q \in Requests : Eval(q)
  \/ Expire \/ Tick \/ StepBack \/ Observe

Spec == Init /\ [][Next]_vars
-----------------------------------------------------------------------------
\* Types; tokens and water stay between empty and full (the scripts, unlike
\* the in-memory limiters, never let a negative elapsed time through).
TypeOK ==
  /\ kind \in Kinds
  /\ real \in 0 .. MaxTime /\ wall \in 0 .. real /\ backs \in 0 .. MaxBacks
  /\ exists \in BOOLEAN
  /\ level \in 0 .. Capacity
  /\ last \in 0 .. real
  /\ zset \in SUBSET Requests
  /\ score \in [Requests -> 0 .. real]
  /\ expireAt \in 0 .. (real + KeyTTL)
  /\ mark \in 0 .. real /\ granted \in Nat
  /\ recent \in SUBSET Requests
  /\ grantedAt \in [Requests -> 0 .. real]

\* With no TTL, or one in which a bucket fills with two milliseconds to spare,
\* neither a clock that steps back nor the expiry of the key lets more through
\* than a full bucket plus the refill of the time that has really passed,
\* rounded up by less than a millisecond for the rounding of TIME.
WithinRate ==
  /\ kind \in {"token", "leaky"}
  /\ KeyTTL = 0 \/ (KeyTTL - 2) * Rate >= Capacity
  => Ms * granted * One <= Ms * Capacity + Rate * (real - mark + Ms - 1)

\* "at most limit requests per window" (redis/sliding_window_log.go:21), in
\* real time, whatever the clock and the expiry of the key do.
AtMostLimit ==
  kind = "window" => Cardinality(recent) <= Limit

\* Requests granted in a window a millisecond shorter than the one passed.
Shortened == {q \in recent : real - grantedAt[q] <= (Window - 1) * Ms}

\* The same, also when the client library sends a command again, for the TTLs
\* that keep a key at least as long as its window, and for a window shorter by
\* the millisecond that rounding TIME and the window takes away.
AtMostLimitKept ==
  kind = "window" /\ (KeyTTL = 0 \/ KeyTTL >= Window) =>
    Cardinality(Shortened) <= Limit

\* A denied caller that waits retry_after_ms, and not a millisecond less, is
\* granted when nobody else asks meanwhile; the buckets promise it only while
\* the clock has caught up with the key.
RetryAfterExact ==
  /\ kind = "token" /\ Tokens < One /\ Now >= last =>
       LET wait == TokenRetry(Tokens)
       IN  /\ Tokens + wait * Rate >= One
           /\ Tokens + (wait - 1) * Rate < One
  /\ kind = "leaky" /\ Water + One > Capacity /\ Now >= last =>
       LET wait == LeakyRetry(Water)
       IN  /\ Water - wait * Rate + One <= Capacity
           /\ Water - (wait - 1) * Rate + One > Capacity
  /\ kind = "window" /\ Cardinality(Live(Now)) >= Limit =>
       LET wait == WindowRetry(Live(Now))
       IN  /\ Cardinality(Live(Now + wait)) < Limit
           /\ Cardinality(Live(Now + wait - 1)) >= Limit
=============================================================================
