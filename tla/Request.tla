------------------------------ MODULE Request -------------------------------
(***************************************************************************)
(* How concurrent Allow calls on one key of an in-memory limiter meet its  *)
(* state: each goroutine reads the clock, then waits for the shard lock,   *)
(* then runs the limiter's decision on the key's state (withState).        *)
(* ShardedStore shows that decisions on one key never overlap, so a        *)
(* decision is one step; the order of decisions is not the order in which  *)
(* the clock was read.                                                     *)
(***************************************************************************)
EXTENDS Integers

CONSTANTS
  Threads,   \* goroutines calling Allow with the key
  MaxTime    \* bound on the clock

ASSUME RequestAssumption == MaxTime \in Nat

VARIABLES
  clock,     \* what clock.Now() returns
  now        \* now local of each goroutine, or Idle

requestVars == <<clock, now>>

Idle == 0 - 1

RequestTypeOK ==
  /\ clock \in 0 .. MaxTime
  /\ now \in [Threads -> Int]
  /\ \A t \in Threads : now[t] \in Idle .. clock

RequestInit ==
  /\ clock = 0
  /\ now = [t \in Threads |-> Idle]

\* now := clock.Now()
ReadClock(t) ==
  /\ now[t] = Idle
  /\ now' = [now EXCEPT ![t] = clock]
  /\ UNCHANGED clock

\* The goroutine has the lock, decides, and returns.
Deciding(t) ==
  /\ now[t] # Idle
  /\ now' = [now EXCEPT ![t] = Idle]
  /\ UNCHANGED clock

Tick ==
  /\ clock < MaxTime
  /\ clock' = clock + 1
  /\ UNCHANGED now
=============================================================================
