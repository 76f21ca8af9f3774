--------------------------- MODULE SlidingWindow ----------------------------
(***************************************************************************)
(* The in-memory sliding window log on one key                             *)
(* (src/memory/sliding_window_log.go): recordAndDecide prunes the log by   *)
(* binary search, counts it, and appends the request's time.               *)
(***************************************************************************)
EXTENDS Request, Sequences, FiniteSets

CONSTANTS
  Limit,    \* NewSlidingWindow's limit
  Window    \* NewSlidingWindow's window, in ticks

\* NewSlidingWindow panics otherwise.
ValidWindow == Limit \in Nat \ {0} /\ Window \in Nat \ {0}

ASSUME WindowAssumption == ValidWindow

VARIABLES
  logs,     \* windowState.logs; empty when the key is not stored
  logsCap,  \* cap(logs)
  grants    \* every request time granted since the key was last created

windowVars == <<logs, logsCap, grants>>
vars == <<requestVars, windowVars>>

\* One iteration of the loop of recordAndDecide; mid is rounded down on the
\* code's zero-based indexes.
Iterate(log, start, s) ==
  LET mid == s.left + ((s.right - s.left) \div 2)
  IN  IF log[mid] > start
      THEN [left |-> s.left, right |-> mid - 1, valid |-> mid]
      ELSE [left |-> mid + 1, right |-> s.right, valid |-> s.valid]

\* Fault: the loop ends one element early.
GoesOnEarly(s) == s.left < s.right

GoesOn(s) == s.left <= s.right

\* Its variables left, right and validIndex after n iterations, of which there
\* are at most as many as entries.
Loop(log, start) ==
  LET state[n \in 0 .. Len(log)] ==
        IF n = 0
        THEN [left |-> 1, right |-> Len(log), valid |-> Len(log) + 1]
        ELSE IF GoesOn(state[n - 1]) THEN Iterate(log, start, state[n - 1])
                                     ELSE state[n - 1]
  IN  state

BinarySearch(log, start) == Loop(log, start)[Len(log)].valid

Pruned(log, at) == SubSeq(log, BinarySearch(log, at - Window), Len(log))

\* Faults: doubling past limit; waiting for the newest entry.
GrownCapUnlimited(size, cap) ==
  IF size < cap THEN cap ELSE IF cap * 2 < 1 THEN 1 ELSE cap * 2

RetryAfterNewest(log, at) == log[Len(log)] + Window - at

\* appendWindowLog: the capacity of the slice after one append.
GrownCap(size, cap) ==
  LET doubled == IF cap * 2 < 1 THEN 1 ELSE cap * 2
      limited == IF doubled > Limit THEN Limit ELSE doubled
  IN  IF size < cap THEN cap
      ELSE IF limited < size + 1 THEN size + 1 ELSE limited

RetryAfter(log, at) == log[1] + Window - at

\* Fault: the log is counted before the request is appended to it.
RemainingBefore(log) == Limit - Len(log) + 1

\* Result.Remaining of a grant that left this log.
Remaining(log) == Limit - Len(log)

\* Faults: one request too many; the end of the entry's life is logged.
DecideOneMore(t) ==
  LET kept == Pruned(logs, now[t])
  IN  /\ Deciding(t)
      /\ IF Len(kept) <= Limit
         THEN /\ logs' = Append(kept, now[t])
              /\ logsCap' = GrownCap(Len(kept), logsCap)
              /\ grants' = Append(grants, now[t])
         ELSE /\ logs' = kept
              /\ UNCHANGED <<logsCap, grants>>

DecideLogsEnd(t) ==
  LET kept == Pruned(logs, now[t])
  IN  /\ Deciding(t)
      /\ IF Len(kept) < Limit
         THEN /\ logs' = Append(kept, now[t] + Window)
              /\ logsCap' = GrownCap(Len(kept), logsCap)
              /\ grants' = Append(grants, now[t])
         ELSE /\ logs' = kept
              /\ UNCHANGED <<logsCap, grants>>

\* Allow: prune, then append and grant, or deny.
Decide(t) ==
  LET kept == Pruned(logs, now[t])
  IN  /\ Deciding(t)
      /\ IF Len(kept) < Limit
         THEN /\ logs' = Append(kept, now[t])
              /\ logsCap' = GrownCap(Len(kept), logsCap)
              /\ grants' = Append(grants, now[t])
         ELSE /\ logs' = kept
              /\ UNCHANGED <<logsCap, grants>>

\* The store expires or evicts the key.
Forget ==
  /\ logs # <<>>
  /\ logs' = <<>> /\ logsCap' = 0 /\ grants' = <<>>
  /\ UNCHANGED requestVars

Init ==
  /\ RequestInit
  /\ logs = <<>> /\ logsCap = 0 /\ grants = <<>>

Next ==
  \/ Tick /\ UNCHANGED windowVars
  \/ \E t \in Threads :
       \/ ReadClock(t) /\ UNCHANGED windowVars
       \/ Decide(t)
  \/ Forget

Spec == Init /\ [][Next]_vars
-----------------------------------------------------------------------------
\* Types of the log and of what was granted.
TypeOK ==
  /\ RequestTypeOK
  /\ logs \in Seq(0 .. clock)
  /\ logsCap \in Nat
  /\ grants \in Seq(0 .. clock)

\* The log is bounded in memory: never longer than its backing array, which
\* the doubling of appendWindowLog never grows past limit, in any order of
\* decisions ("S1: len(logs) <= limit", invariants_test.go:188).
LogBounded == Len(logs) <= logsCap /\ logsCap <= Limit

\* Grants with request times in the window that ends at time at.
InWindow(at) ==
  Cardinality({i \in 1 .. Len(grants) :
                 grants[i] > at - Window /\ grants[i] <= at})

\* "allowing at most limit requests within the given window"
\* (sliding_window_log.go:25), for every window by request time.
AtMostLimit == \A at \in 0 .. clock : InWindow(at) <= Limit

\* Requests were granted in the order they read the clock.
InOrder == \A i, j \in 1 .. Len(grants) : i < j => grants[i] <= grants[j]

\* The limit holds as long as grants are in clock order, even when denied
\* requests, which prune the log too, come late.
AtMostLimitInOrder == InOrder => AtMostLimit

\* The first index the prune keeps, as the code's comment states it: the
\* first time stamp inside the window (sliding_window_log.go:89).
FirstValid(log, start) ==
  CHOOSE i \in 1 .. (Len(log) + 1) :
    /\ \A j \in 1 .. (i - 1) : log[j] <= start
    /\ i <= Len(log) => log[i] > start

\* The binary search finds it in every log in clock order and for every window
\* start a sequence of requests can bring about.
SearchFindsFirst ==
  InOrder => \A at \in 0 .. clock :
    BinarySearch(logs, at - Window) = FirstValid(logs, at - Window)

\* A denied caller that waits RetryAfter, and not one tick less, is granted
\* when nobody else asks meanwhile ("S6", invariants_test.go:204), while the
\* log is in clock order.
RetryAfterExact ==
  LET kept == Pruned(logs, clock)
      wait == RetryAfter(kept, clock)
  IN  InOrder /\ Len(kept) >= Limit =>
        /\ wait > 0
        /\ Len(Pruned(kept, clock + wait)) < Limit
        /\ Len(Pruned(kept, clock + wait - 1)) >= Limit

\* Remaining is what the key can still spend at once, while the log is in clock
\* order: after a grant the next request at the same instant, which prunes the
\* log again, is granted exactly when Remaining is not zero, and then Remaining
\* drops by one.
RemainingHonest ==
  LET kept == Pruned(logs, clock)
      granted == Append(kept, clock)
      next == Pruned(granted, clock)
  IN  InOrder /\ Len(kept) < Limit =>
        /\ Len(next) < Limit <=> Remaining(granted) > 0
        /\ Len(next) < Limit =>
             Remaining(Append(next, clock)) = Remaining(granted) - 1
=============================================================================
