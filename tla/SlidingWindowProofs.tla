------------------------ MODULE SlidingWindowProofs -------------------------
(***************************************************************************)
(* The binary search of the sliding window log finds the first entry of    *)
(* the window, and the log then keeps the limit, for every limit and       *)
(* window and every sequence of requests.                                  *)
(***************************************************************************)
EXTENDS SlidingWindow, SequenceTheorems, FiniteSetTheorems,
        WellFoundedInduction, TLAPS

Less == {ss \in Nat \X Nat : ss[1] < ss[2]}

\* A set of numbers has a least one: inductions below look at the least
\* counterexample.
LEMMA HasLeast ==
  ASSUME NEW T \in SUBSET Nat, T # {}
  PROVE  \E x \in T : \A y \in T : x <= y
  <1>1. IsWellFoundedOn(Less, Nat)
    BY NatLessThanWellFounded, Zenon DEF OpToRel, Less
  <1>2. PICK x \in T : \A y \in T : ~(<<y, x>> \in Less)
    BY <1>1, WFMin, Zenon
  <1>3. \A y \in T : ~(y < x)
    BY <1>2, Zenon DEF Less
  <1> QED
    BY <1>3
-----------------------------------------------------------------------------
\* The loop of the binary search: its start, and one turn, which changes
\* nothing once the loop has ended.
Start(log) == [left |-> 1, right |-> Len(log), valid |-> Len(log) + 1]

Turn(log, start, s) == IF GoesOn(s) THEN Iterate(log, start, s) ELSE s

\* f lists the loop's variables after 0, 1, ..., m turns.
Traces(log, start, m, f) ==
  f = [n \in 0 .. m |-> IF n = 0 THEN Start(log)
                                 ELSE Turn(log, start, f[n - 1])]

\* Any number of turns can be taken, so the recursive function exists.
LEMMA TraceExists ==
  ASSUME NEW log, NEW start, NEW m \in Nat
  PROVE  \E f : Traces(log, start, m, f)
  <1> DEFINE Bad == {i \in Nat : ~ \E f : Traces(log, start, i, f)}
  <1>1. SUFFICES ASSUME Bad # {} PROVE FALSE
    BY Zenon
  <1>2. PICK i \in Bad : \A j \in Bad : i <= j
    BY <1>1, HasLeast, Zenon
  <1>3. CASE i = 0
    <2> DEFINE f == [n \in 0 .. 0 |-> Start(log)]
    <2>1. Traces(log, start, 0, f)
      BY SMT DEF Traces
    <2> QED
      BY <1>2, <1>3, <2>1, Zenon
  <1>4. CASE i # 0
    <2>1. i - 1 \in Nat /\ i - 1 \notin Bad
      BY <1>2, <1>4, SMT
    <2>2. PICK f : Traces(log, start, i - 1, f)
      BY <2>1, Zenon
    <2> DEFINE g == [n \in 0 .. i |-> IF n = i THEN Turn(log, start, f[n - 1])
                                               ELSE f[n]]
    <2>3. \A n \in 0 .. i - 1 : f[n] = IF n = 0 THEN Start(log)
                                       ELSE Turn(log, start, f[n - 1])
      BY <2>1, <2>2, Zenon DEF Traces
    <2>4. \A n \in 0 .. i : g[n] = IF n = 0 THEN Start(log)
                                   ELSE Turn(log, start, g[n - 1])
      <3> SUFFICES ASSUME NEW n \in 0 .. i
                   PROVE  g[n] = IF n = 0 THEN Start(log)
                                 ELSE Turn(log, start, g[n - 1])
        BY Zenon
      <3>1. n # 0 => n - 1 \in 0 .. i - 1 /\ n - 1 \in 0 .. i /\ n - 1 # i
        BY <2>1
      <3>2. n # 0 => g[n - 1] = f[n - 1]
        BY <3>1, Zenon
      <3>3. n # i => n \in 0 .. i - 1
        BY <2>1
      <3> QED
        BY <1>4, <2>3, <3>2, <3>3, Zenon
    <2>5. Traces(log, start, i, g)
      <3> HIDE DEF g
      <3>1. g = [n \in 0 .. i |-> g[n]]
        BY DEF g
      <3> QED
        BY <2>4, <3>1, Zenon DEF Traces
    <2> QED
      BY <1>2, <2>5, Zenon
  <1> QED
    BY <1>3, <1>4, Zenon

\* The search unfolds as its definition says.
LEMMA LoopUnfolds ==
  ASSUME NEW log, Len(log) \in Nat, NEW start
  PROVE  /\ Loop(log, start)[0] = Start(log)
         /\ \A n \in 1 .. Len(log) :
              Loop(log, start)[n] = Turn(log, start, Loop(log, start)[n - 1])
  <1>1. Loop(log, start) = CHOOSE f : Traces(log, start, Len(log), f)
    BY Zenon DEF Loop, Traces, Turn, Start
  <1>2. Traces(log, start, Len(log), Loop(log, start))
    BY <1>1, TraceExists, Zenon
  <1> DEFINE f == Loop(log, start)
  <1> HIDE DEF f
  <1>3. \A n \in 0 .. Len(log) : f[n] = IF n = 0 THEN Start(log)
                                        ELSE Turn(log, start, f[n - 1])
    BY <1>2, Zenon DEF Traces, f
  <1>4. f[0] = Start(log)
    BY <1>3
  <1>5. \A n \in 1 .. Len(log) : f[n] = Turn(log, start, f[n - 1])
    BY <1>3
  <1> QED
    BY <1>4, <1>5 DEF f
-----------------------------------------------------------------------------
Sorted(log) == \A i, j \in 1 .. Len(log) : i < j => log[i] <= log[j]

\* The loop invariant after n turns: the entries not looked at are those from
\* left to right, at most as many as turns are left; in a sorted log those
\* before are out of the window and those behind are in it.
LoopInv(log, start, n, s) ==
  /\ s \in [left : Int, right : Int, valid : Int]
  /\ 1 <= s.left /\ s.left <= s.right + 1 /\ s.right <= Len(log)
  /\ s.valid = s.right + 1
  /\ s.right - s.left + 1 <= Len(log) - n
  /\ Sorted(log) => /\ \A j \in 1 .. s.left - 1 : log[j] <= start
                    /\ \A j \in s.valid .. Len(log) : log[j] > start

LEMMA TurnKeeps ==
  ASSUME NEW log \in Seq(Int), NEW start \in Int, NEW n \in 1 .. Len(log),
         NEW s, LoopInv(log, start, n - 1, s)
  PROVE  LoopInv(log, start, n, Turn(log, start, s))
  <1> DEFINE l == s.left
             r == s.right
             mid == l + ((r - l) \div 2)
             N == Len(log)
  <1>0. N \in Nat /\ log \in [1 .. N -> Int] /\ n \in 1 .. N
    BY LenProperties
  <1>r. s \in [left : Int, right : Int, valid : Int]
    BY DEF LoopInv
  <1>1. /\ l \in Int /\ r \in Int /\ s.valid \in Int
        /\ 1 <= l /\ l <= r + 1 /\ r <= N /\ s.valid = r + 1
        /\ r - l + 1 <= N - (n - 1)
    BY DEF LoopInv
  <1>2. Sorted(log) => /\ \A j \in 1 .. l - 1 : log[j] <= start
                       /\ \A j \in r + 1 .. N : log[j] > start
    BY <1>1, Zenon DEF LoopInv
  <1> HIDE DEF l, r, mid, N
  <1>3. CASE ~ GoesOn(s)
    <2>1. Turn(log, start, s) = s
      BY <1>3, Zenon DEF Turn
    <2>2. r - l + 1 <= N - n
      BY <1>0, <1>1, <1>3, SMTT(60) DEF GoesOn, l, r
    <2> QED
      BY <2>1, <2>2 DEF LoopInv, l, r, N
  <1>4. CASE GoesOn(s)
    <2>1. l <= r
      BY <1>4 DEF GoesOn, l, r
    <2>2. mid \in Int /\ l <= mid /\ mid <= r
      <3> DEFINE half == (r - l) \div 2
      <3>1. r - l \in Nat
        BY <1>1, <2>1
      <3>2. half \in Int /\ 0 <= half /\ half <= r - l
        BY <3>1, SMTT(60)
      <3>3. mid = l + half
        BY DEF mid
      <3> HIDE DEF half
      <3> QED
        BY <1>1, <3>2, <3>3
    <2>3. mid \in 1 .. N /\ log[mid] \in Int
      BY <1>0, <1>1, <2>2
    <2>4. Turn(log, start, s)
            = IF log[mid] > start
              THEN [left |-> l, right |-> mid - 1, valid |-> mid]
              ELSE [left |-> mid + 1, right |-> r, valid |-> s.valid]
      BY <1>4, Zenon DEF Turn, Iterate, mid, l, r
    <2>5. CASE log[mid] > start
      <3>1. Turn(log, start, s) = [left |-> l, right |-> mid - 1, valid |-> mid]
        BY <2>4, <2>5, SMTT(60)
      <3>2. Sorted(log) => \A j \in mid .. N : log[j] > start
        <4> SUFFICES ASSUME Sorted(log), NEW j \in mid .. N PROVE log[j] > start
          OBVIOUS
        <4>1. j \in 1 .. N /\ log[j] \in Int
          BY <1>0, <2>3
        <4>2. mid < j => log[mid] <= log[j]
          BY <2>3, <4>1, SMTT(60) DEF Sorted, N
        <4> QED
          BY <2>3, <2>5, <4>1, <4>2, SMTT(60)
      <3>3. mid - 1 - l + 1 <= N - n
        BY <1>0, <1>1, <2>2
      <3> DEFINE u == Turn(log, start, s)
      <3>4. /\ u \in [left : Int, right : Int, valid : Int]
            /\ u.left = l /\ u.right = mid - 1 /\ u.valid = mid
        BY <1>1, <2>2, <3>1
      <3> HIDE DEF u
      <3>5. /\ 1 <= u.left /\ u.left <= u.right + 1 /\ u.right <= N
            /\ u.valid = u.right + 1
            /\ u.right - u.left + 1 <= N - n
        BY <1>0, <1>1, <2>2, <3>3, <3>4, SMTT(60)
      <3>6. Sorted(log) => /\ \A j \in 1 .. u.left - 1 : log[j] <= start
                           /\ \A j \in u.valid .. N : log[j] > start
        BY <1>2, <3>2, <3>4, Zenon
      <3> QED
        BY <3>4, <3>5, <3>6, Zenon DEF LoopInv, N, u
    <2>6. CASE ~(log[mid] > start)
      <3>1. Turn(log, start, s)
              = [left |-> mid + 1, right |-> r, valid |-> s.valid]
        BY <2>4, <2>6
      <3>2. Sorted(log) => \A j \in 1 .. mid : log[j] <= start
        <4> SUFFICES ASSUME Sorted(log), NEW j \in 1 .. mid
                     PROVE  log[j] <= start
          OBVIOUS
        <4>1. j \in 1 .. N /\ log[j] \in Int
          BY <1>0, <2>3
        <4>2. j < mid => log[j] <= log[mid]
          BY <2>3, <4>1 DEF Sorted, N
        <4> QED
          BY <2>3, <2>6, <4>1, <4>2, SMTT(60)
      <3>3. r - (mid + 1) + 1 <= N - n
        BY <1>0, <1>1, <2>2
      <3>4. mid + 1 - 1 = mid
        BY <2>2
      <3> DEFINE u == Turn(log, start, s)
      <3>5. /\ u \in [left : Int, right : Int, valid : Int]
            /\ u.left = mid + 1 /\ u.right = r /\ u.valid = r + 1
        BY <1>1, <2>2, <3>1
      <3> HIDE DEF u
      <3>6. /\ 1 <= u.left /\ u.left <= u.right + 1 /\ u.right <= N
            /\ u.valid = u.right + 1
            /\ u.right - u.left + 1 <= N - n
        BY <1>0, <1>1, <2>2, <3>3, <3>5, SMTT(60)
      <3>7. Sorted(log) => /\ \A j \in 1 .. u.left - 1 : log[j] <= start
                           /\ \A j \in u.valid .. N : log[j] > start
        <4>1. u.left - 1 = mid
          BY <2>2, <3>5
        <4> QED
          BY <1>2, <3>2, <3>5, <4>1, Zenon
      <3> QED
        BY <3>5, <3>6, <3>7, Zenon DEF LoopInv, N, u
    <2> QED
      BY <2>5, <2>6
  <1> QED
    BY <1>3, <1>4

LEMMA LoopKeeps ==
  ASSUME NEW log \in Seq(Int), NEW start \in Int
  PROVE  \A n \in 0 .. Len(log) : LoopInv(log, start, n, Loop(log, start)[n])
  <1> DEFINE f == Loop(log, start)
             Bad == {n \in 0 .. Len(log) : ~ LoopInv(log, start, n, f[n])}
  <1>0. Len(log) \in Nat
    BY LenProperties
  <1>1. /\ f[0] = Start(log)
        /\ \A n \in 1 .. Len(log) : f[n] = Turn(log, start, f[n - 1])
    BY <1>0, LoopUnfolds, Zenon
  <1> HIDE DEF f
  <1>2. SUFFICES ASSUME Bad # {} PROVE FALSE
    BY Zenon DEF f
  <1>3. Bad \in SUBSET Nat
    BY <1>0
  <1>4. PICK n \in Bad : \A k \in Bad : n <= k
    BY <1>2, <1>3, HasLeast, Zenon
  <1>5. CASE n = 0
    <2>1. LoopInv(log, start, 0, Start(log))
      BY <1>0 DEF LoopInv, Start
    <2> QED
      BY <1>1, <1>4, <1>5, <2>1, Zenon
  <1>6. CASE n # 0
    <2>1. n \in 1 .. Len(log) /\ n - 1 \in 0 .. Len(log) /\ ~(n <= n - 1)
      BY <1>0, <1>4, <1>6
    <2>2. LoopInv(log, start, n - 1, f[n - 1])
      BY <1>4, <2>1, Zenon
    <2>3. LoopInv(log, start, n, f[n])
      BY <1>1, <2>1, <2>2, TurnKeeps, Zenon
    <2> QED
      BY <1>4, <2>3, Zenon
  <1> QED
    BY <1>5, <1>6

\* What the binary search of recordAndDecide returns: always an index of the
\* log or the one behind it, and in a sorted log the end of the entries that
\* are out of the window.
THEOREM SearchCorrect ==
  ASSUME NEW log \in Seq(Int), NEW start \in Int
  PROVE  /\ BinarySearch(log, start) \in 1 .. Len(log) + 1
         /\ Sorted(log) =>
              \A j \in 1 .. Len(log) :
                log[j] > start <=> j >= BinarySearch(log, start)
  <1> DEFINE s == Loop(log, start)[Len(log)]
             b == BinarySearch(log, start)
  <1>0. Len(log) \in Nat /\ log \in [1 .. Len(log) -> Int]
    BY LenProperties
  <1>1. LoopInv(log, start, Len(log), s)
    BY <1>0, LoopKeeps
  <1>2. b = s.valid
    BY DEF BinarySearch
  <1> HIDE DEF s, b
  <1>3. b \in Int /\ s.left = b /\ 1 <= b /\ b <= Len(log) + 1
    BY <1>0, <1>1, <1>2 DEF LoopInv
  <1>4. Sorted(log) => /\ \A j \in 1 .. b - 1 : log[j] <= start
                       /\ \A j \in b .. Len(log) : log[j] > start
    BY <1>1, <1>2, <1>3, Zenon DEF LoopInv
  <1>5. ASSUME Sorted(log), NEW j \in 1 .. Len(log)
        PROVE  log[j] > start <=> j >= b
    <2>1. log[j] \in Int
      BY <1>0
    <2>2. CASE j >= b
      BY <1>0, <1>3, <1>4, <1>5, <2>2, SMTT(60)
    <2>3. CASE ~(j >= b)
      BY <1>0, <1>3, <1>4, <1>5, <2>1, <2>3, SMTT(60)
    <2> QED
      BY <2>2, <2>3
  <1> QED
    BY <1>0, <1>3, <1>5 DEF b
-----------------------------------------------------------------------------
\* Memory: the log fits its array, whatever the order of decisions.
BoundInv == TypeOK /\ LogBounded

\* While grants are in clock order, the log is the end of what was granted,
\* what it has dropped left the window of the latest grant, and a grant is a
\* window away from the one limit places before.
OrderInv ==
  LET dropped == Len(grants) - Len(logs)
  IN  /\ dropped >= 0
      /\ \A i \in 1 .. Len(logs) : logs[i] = grants[dropped + i]
      /\ \A i \in 1 .. dropped : grants[i] + Window <= grants[Len(grants)]
      /\ \A i \in 1 .. Len(grants) - Limit :
           grants[i] + Window <= grants[i + Limit]

WindowInv == BoundInv /\ (InOrder => OrderInv)

LEMMA SeqWider ==
  ASSUME NEW S, NEW T, S \subseteq T, NEW f \in Seq(S)
  PROVE  f \in Seq(T)
  <1>1. Len(f) \in Nat /\ f \in [1 .. Len(f) -> S]
    BY LenProperties
  <1>2. f \in [1 .. Len(f) -> T]
    BY <1>1
  <1> QED
    BY <1>1, <1>2

\* Pruning keeps the end of the log, and of a sorted log exactly the entries
\* in the window.
LEMMA PruneKeepsEnd ==
  ASSUME NEW S \in SUBSET Int, NEW log \in Seq(S), NEW at \in Int
  PROVE  LET kept == Pruned(log, at)
             gone == BinarySearch(log, at - Window) - 1
         IN  /\ gone \in 0 .. Len(log)
             /\ kept \in Seq(S)
             /\ Len(kept) = Len(log) - gone
             /\ \A i \in 1 .. Len(kept) : kept[i] = log[gone + i]
             /\ Sorted(log) => \A j \in 1 .. Len(log) :
                                 log[j] > at - Window <=> j > gone
  <1> DEFINE b == BinarySearch(log, at - Window)
             N == Len(log)
             kept == Pruned(log, at)
  <1>1. N \in Nat /\ log \in [1 .. N -> S] /\ log \in Seq(Int)
    BY LenProperties, SeqWider, Zenon
  <1>2. at - Window \in Int
    BY WindowAssumption DEF ValidWindow
  <1>3. /\ b \in 1 .. N + 1
        /\ Sorted(log) => \A j \in 1 .. N : log[j] > at - Window <=> j >= b
    BY <1>1, <1>2, SearchCorrect, Zenon
  <1>4. kept = SubSeq(log, b, N)
    BY Zenon DEF Pruned
  <1> HIDE DEF b, N, kept
  <1>5. b \in Int /\ N \in Int /\ \A i \in b .. N : log[i] \in S
    BY <1>1, <1>3
  <1>6. /\ kept \in Seq(S)
        /\ Len(kept) = IF b <= N THEN N - b + 1 ELSE 0
        /\ \A i \in 1 .. N - b + 1 : kept[i] = log[b + i - 1]
    BY <1>4, <1>5, SubSeqProperties, SMTT(60)
  <1>7. b - 1 \in 0 .. N /\ Len(kept) = N - (b - 1)
    BY <1>1, <1>3, <1>6
  <1>8. \A i \in 1 .. Len(kept) : kept[i] = log[(b - 1) + i]
    <2> SUFFICES ASSUME NEW i \in 1 .. Len(kept)
                 PROVE  kept[i] = log[(b - 1) + i]
      OBVIOUS
    <2>1. i \in 1 .. N - b + 1 /\ b + i - 1 = (b - 1) + i
      BY <1>1, <1>3, <1>7
    <2> QED
      BY <1>6, <2>1, Zenon
  <1>9. Sorted(log) => \A j \in 1 .. N : log[j] > at - Window <=> j > b - 1
    <2> SUFFICES ASSUME Sorted(log), NEW j \in 1 .. N
                 PROVE  log[j] > at - Window <=> j > b - 1
      OBVIOUS
    <2>1. j > b - 1 <=> j >= b
      BY <1>5
    <2> QED
      BY <1>3, <2>1, Zenon
  <1> QED
    BY <1>6, <1>7, <1>8, <1>9, Zenon DEF b, N, kept

\* The two outcomes of a decision, with the number of entries it drops.
Grant(t, gone) ==
  /\ Len(logs) - gone < Limit
  /\ logs' \in Seq(0 .. clock)
  /\ Len(logs') = Len(logs) - gone + 1
  /\ \A i \in 1 .. Len(logs) - gone : logs'[i] = logs[gone + i]
  /\ logs'[Len(logs')] = now[t]
  /\ logsCap' = GrownCap(Len(logs) - gone, logsCap)
  /\ grants' = Append(grants, now[t])

Deny(gone) ==
  /\ Len(logs) - gone >= Limit
  /\ logs' \in Seq(0 .. clock)
  /\ Len(logs') = Len(logs) - gone
  /\ \A i \in 1 .. Len(logs') : logs'[i] = logs[gone + i]
  /\ UNCHANGED <<logsCap, grants>>

LEMMA DecideEffect ==
  ASSUME TypeOK, NEW t \in Threads, Decide(t)
  PROVE  /\ now[t] \in 0 .. clock /\ clock' = clock /\ RequestTypeOK'
         /\ \E gone \in 0 .. Len(logs) :
              /\ Grant(t, gone) \/ Deny(gone)
              /\ Sorted(logs) => \A j \in 1 .. Len(logs) :
                                   logs[j] > now[t] - Window <=> j > gone
  <1> DEFINE kept == Pruned(logs, now[t])
             gone == BinarySearch(logs, now[t] - Window) - 1
             S == 0 .. clock
  <1>1. /\ Deciding(t)
        /\ \/ /\ Len(kept) < Limit
              /\ logs' = Append(kept, now[t])
              /\ logsCap' = GrownCap(Len(kept), logsCap)
              /\ grants' = Append(grants, now[t])
           \/ /\ ~(Len(kept) < Limit)
              /\ logs' = kept
              /\ UNCHANGED <<logsCap, grants>>
    BY Zenon DEF Decide
  <1>2. /\ clock \in Nat /\ now[t] \in S /\ clock' = clock /\ RequestTypeOK'
        /\ now[t] \in Int
    BY <1>1, RequestAssumption DEF TypeOK, RequestTypeOK, Deciding, Idle
  <1>3. S \in SUBSET Int /\ logs \in Seq(S)
    BY <1>2 DEF TypeOK
  <1> HIDE DEF kept, gone, S
  <1>4. /\ gone \in 0 .. Len(logs)
        /\ kept \in Seq(S)
        /\ Len(kept) = Len(logs) - gone
        /\ \A i \in 1 .. Len(kept) : kept[i] = logs[gone + i]
        /\ Sorted(logs) => \A j \in 1 .. Len(logs) :
                             logs[j] > now[t] - Window <=> j > gone
    BY <1>2, <1>3, PruneKeepsEnd, Zenon DEF kept, gone
  <1>5. Len(kept) \in Nat /\ Limit \in Nat
    BY <1>4, LenProperties, WindowAssumption DEF ValidWindow
  <1>6. Grant(t, gone) \/ Deny(gone)
    <2>1. CASE ~(Len(kept) < Limit)
      <3>1. logs' = kept /\ UNCHANGED <<logsCap, grants>>
        BY <1>1, <2>1, Zenon
      <3>2. Len(kept) >= Limit
        BY <1>5, <2>1
      <3> QED
        BY <1>4, <3>1, <3>2, Zenon DEF Deny, S
    <2>2. CASE Len(kept) < Limit
      <3>1. /\ logs' = Append(kept, now[t])
            /\ logsCap' = GrownCap(Len(kept), logsCap)
            /\ grants' = Append(grants, now[t])
        BY <1>1, <2>2, Zenon
      <3>2. /\ logs' \in Seq(S) /\ Len(logs') = Len(kept) + 1
            /\ \A i \in 1 .. Len(kept) : logs'[i] = kept[i]
            /\ logs'[Len(kept) + 1] = now[t]
        <4>1. LET more == Append(kept, now[t])
              IN  /\ more \in Seq(S) /\ Len(more) = Len(kept) + 1
                  /\ \A i \in 1 .. Len(kept) : more[i] = kept[i]
                  /\ more[Len(kept) + 1] = now[t]
          BY <1>2, <1>4, AppendProperties, SMTT(60)
        <4> QED
          BY <3>1, <4>1, Zenon
      <3> QED
        BY <1>4, <2>2, <3>1, <3>2, Zenon DEF Grant, S
    <2> QED
      BY <2>1, <2>2, Zenon
  <1> QED
    BY <1>2, <1>4, <1>6, Zenon DEF S
-----------------------------------------------------------------------------
\* appendWindowLog makes room for one entry and stays within limit.
LEMMA CapGrows ==
  ASSUME NEW size \in Nat, NEW cap \in Nat, size < Limit, cap <= Limit
  PROVE  /\ GrownCap(size, cap) \in Nat
         /\ size + 1 <= GrownCap(size, cap)
         /\ GrownCap(size, cap) <= Limit
         /\ cap <= GrownCap(size, cap)
  BY WindowAssumption DEF ValidWindow, GrownCap

LEMMA BoundInit == Init => BoundInv
  BY RequestAssumption, WindowAssumption
  DEF Init, RequestInit, BoundInv, TypeOK, RequestTypeOK, LogBounded,
      ValidWindow, Idle

LEMMA BoundNext ==
  ASSUME BoundInv, [Next]_vars
  PROVE  BoundInv'
  <1> DEFINE S == 0 .. clock
  <1>0. /\ TypeOK /\ LogBounded
        /\ clock \in Nat /\ Limit \in Nat /\ logsCap \in Nat
        /\ logs \in Seq(S) /\ grants \in Seq(S)
        /\ Len(logs) \in Nat /\ Len(grants) \in Nat
    <2>1. TypeOK /\ LogBounded
      BY DEF BoundInv
    <2>2. clock \in Nat /\ Limit \in Nat /\ logsCap \in Nat
      BY <2>1, RequestAssumption, WindowAssumption
      DEF TypeOK, RequestTypeOK, ValidWindow
    <2>3. logs \in Seq(S) /\ grants \in Seq(S)
      BY <2>1 DEF TypeOK
    <2> QED
      BY <2>1, <2>2, <2>3, LenProperties, SMTT(60)
  <1>1. ASSUME Tick, UNCHANGED windowVars PROVE BoundInv'
    <2>1. clock' = clock + 1 /\ RequestTypeOK'
      BY <1>0, <1>1, RequestAssumption, SMTT(60)
         DEF Tick, TypeOK, RequestTypeOK, Idle
    <2>2. \A f \in Seq(S) : f \in Seq(0 .. clock')
      <3>1. S \subseteq 0 .. clock'
        BY <1>0, <2>1
      <3> QED
        BY <3>1, SeqWider, Zenon
    <2>3. logs' \in Seq(0 .. clock') /\ grants' \in Seq(0 .. clock')
      BY <1>0, <1>1, <2>2 DEF windowVars
    <2> QED
      BY <1>0, <1>1, <2>1, <2>3, SMTT(60)
         DEF BoundInv, TypeOK, LogBounded, windowVars
  <1>2. ASSUME NEW t \in Threads, ReadClock(t), UNCHANGED windowVars
        PROVE  BoundInv'
    <2>1. RequestTypeOK' /\ clock' = clock
      BY <1>0, <1>2 DEF ReadClock, TypeOK, RequestTypeOK, Idle
    <2> QED
      BY <1>0, <1>2, <2>1, SMTT(60)
         DEF BoundInv, TypeOK, LogBounded, windowVars
  <1>3. ASSUME NEW t \in Threads, Decide(t) PROVE BoundInv'
    <2>1. now[t] \in S /\ clock' = clock /\ RequestTypeOK'
      BY <1>0, <1>3, DecideEffect, Zenon
    <2>2. PICK gone \in 0 .. Len(logs) : Grant(t, gone) \/ Deny(gone)
      BY <1>0, <1>3, DecideEffect, Zenon
    <2>3. CASE Grant(t, gone)
      <3> DEFINE size == Len(logs) - gone
      <3>1. /\ size < Limit /\ logs' \in Seq(S) /\ Len(logs') = size + 1
            /\ logsCap' = GrownCap(size, logsCap)
            /\ grants' = Append(grants, now[t])
        BY <2>3, Zenon DEF Grant
      <3>2. size \in Nat /\ logsCap <= Limit
        BY <1>0, <2>2 DEF LogBounded
      <3> HIDE DEF size
      <3>3. logsCap' \in Nat /\ Len(logs') <= logsCap' /\ logsCap' <= Limit
        BY <1>0, <3>1, <3>2, CapGrows, SMTT(60)
      <3>4. grants' \in Seq(S)
        BY <1>0, <2>1, <3>1, SMTT(60)
      <3> QED
        BY <2>1, <3>1, <3>3, <3>4, SMTT(60) DEF BoundInv, TypeOK, LogBounded
    <2>4. CASE Deny(gone)
      <3>1. /\ logs' \in Seq(S) /\ Len(logs') = Len(logs) - gone
            /\ logsCap' = logsCap /\ grants' = grants
        BY <2>4, Zenon DEF Deny
      <3>2. Len(logs') <= logsCap
        BY <1>0, <2>2, <3>1 DEF LogBounded
      <3> QED
        BY <1>0, <2>1, <3>1, <3>2 DEF BoundInv, TypeOK, LogBounded
    <2> QED
      BY <2>2, <2>3, <2>4, SMTT(60)
  <1>4. ASSUME Forget PROVE BoundInv'
    BY <1>0, <1>4, SMTT(60)
       DEF Forget, requestVars, BoundInv, TypeOK, RequestTypeOK, LogBounded
  <1>5. ASSUME UNCHANGED vars PROVE BoundInv'
    BY <1>5 DEF vars, requestVars, windowVars, BoundInv, TypeOK,
       RequestTypeOK, LogBounded
  <1> QED
    BY <1>1, <1>2, <1>3, <1>4, <1>5, Zenon DEF Next

LEMMA Bound == Spec => []BoundInv
  BY BoundInit, BoundNext, PTL DEF Spec

\* The window's variables have their types (recordAndDecide,
\* appendWindowLog).
THEOREM WindowTyped == Spec => []TypeOK
  <1>1. BoundInv => TypeOK
    BY SMTT(60) DEF BoundInv
  <1> QED
    BY Bound, <1>1, PTL

\* The log never outgrows its array nor the array the limit
\* (appendWindowLog), in any order of decisions.
THEOREM LogStaysBounded == Spec => []LogBounded
  <1>1. BoundInv => LogBounded
    BY DEF BoundInv
  <1> QED
    BY Bound, <1>1, PTL
-----------------------------------------------------------------------------
LEMMA Numbers ==
  ASSUME BoundInv
  PROVE  /\ clock \in Nat /\ Limit \in Nat \ {0} /\ Window \in Nat \ {0}
         /\ Len(logs) \in Nat /\ Len(grants) \in Nat /\ Len(logs) <= Limit
         /\ logs \in Seq(Int)
         /\ \A i \in 1 .. Len(logs) : logs[i] \in 0 .. clock
         /\ \A i \in 1 .. Len(grants) : grants[i] \in 0 .. clock
  <1>1. /\ logs \in Seq(0 .. clock) /\ grants \in Seq(0 .. clock)
        /\ clock \in Nat /\ logsCap \in Nat
        /\ Len(logs) <= logsCap /\ logsCap <= Limit
    BY RequestAssumption DEF BoundInv, TypeOK, RequestTypeOK, LogBounded
  <1>2. Limit \in Nat \ {0} /\ Window \in Nat \ {0}
    BY WindowAssumption DEF ValidWindow
  <1>3. Len(logs) \in Nat /\ Len(grants) \in Nat
    BY <1>1, LenProperties
  <1>4. logs \in Seq(Int)
    <2>1. 0 .. clock \subseteq Int
      OBVIOUS
    <2> QED
      BY <1>1, <2>1, SeqWider, Zenon
  <1>5. Len(logs) <= Limit
    BY <1>1, <1>2, <1>3
  <1> QED
    BY <1>1, <1>2, <1>3, <1>4, <1>5, ElementOfSeq, Zenon

\* The log is sorted while grants are in clock order.
LEMMA LogSorted ==
  ASSUME BoundInv, InOrder, OrderInv
  PROVE  Sorted(logs)
  <1> DEFINE k == Len(grants) - Len(logs)
  <1>1. k \in Nat /\ \A i \in 1 .. Len(logs) : logs[i] = grants[k + i]
    BY Numbers DEF OrderInv
  <1> SUFFICES ASSUME NEW i \in 1 .. Len(logs), NEW j \in 1 .. Len(logs), i < j
               PROVE  logs[i] <= logs[j]
    BY DEF Sorted
  <1>2. /\ k + i \in 1 .. Len(grants) /\ k + j \in 1 .. Len(grants)
        /\ k + i < k + j
    BY <1>1, Numbers, SMTT(60)
  <1> HIDE DEF k
  <1> QED
    BY <1>1, <1>2, Zenon DEF InOrder

LEMMA GrantKeepsOrder ==
  ASSUME WindowInv, NEW t \in Threads, NEW gone \in 0 .. Len(logs),
         now[t] \in 0 .. clock, Grant(t, gone), InOrder',
         Sorted(logs) => \A j \in 1 .. Len(logs) :
                           logs[j] > now[t] - Window <=> j > gone
  PROVE  OrderInv'
  <1> DEFINE at == now[t]
             L == Len(grants)
             M == Len(logs)
             k == L - M
             kk == k + gone
  <1>0. /\ BoundInv
        /\ clock \in Nat /\ Limit \in Nat \ {0} /\ Window \in Nat \ {0}
        /\ M \in Nat /\ L \in Nat /\ M <= Limit /\ at \in Int
        /\ \A i \in 1 .. M : logs[i] \in Int
        /\ \A i \in 1 .. L : grants[i] \in Int
    BY Numbers DEF WindowInv
  <1>1. /\ M - gone < Limit /\ Len(logs') = M - gone + 1
        /\ \A i \in 1 .. M - gone : logs'[i] = logs[gone + i]
        /\ logs'[Len(logs')] = at
    BY Zenon DEF Grant
  <1>2. /\ Len(grants') = L + 1
        /\ \A i \in 1 .. L : grants'[i] = grants[i]
        /\ grants'[L + 1] = at
    <2>1. grants \in Seq(0 .. clock) /\ grants' = Append(grants, at)
      BY <1>0 DEF BoundInv, TypeOK, Grant
    <2> QED
      BY <2>1, AppendProperties
  <1>3. InOrder
    <2> SUFFICES ASSUME NEW i \in 1 .. L, NEW j \in 1 .. L, i < j
                 PROVE  grants[i] <= grants[j]
      BY DEF InOrder
    <2>1. i \in 1 .. Len(grants') /\ j \in 1 .. Len(grants')
      BY <1>0, <1>2
    <2>2. grants'[i] <= grants'[j]
      BY <2>1, Zenon DEF InOrder
    <2> QED
      BY <1>2, <2>2, Zenon
  <1>4. /\ OrderInv
        /\ Sorted(logs)
    BY <1>0, <1>3, LogSorted, Zenon DEF WindowInv
  <1>5. /\ k >= 0
        /\ \A i \in 1 .. M : logs[i] = grants[k + i]
        /\ \A i \in 1 .. k : grants[i] + Window <= grants[L]
        /\ \A i \in 1 .. L - Limit : grants[i] + Window <= grants[i + Limit]
    BY <1>4, Zenon DEF OrderInv
  <1>6. \A j \in 1 .. M : logs[j] > at - Window <=> j > gone
    BY <1>4, Zenon
  <1>7. Len(grants') - Len(logs') = kk /\ kk \in Nat /\ k \in Nat /\ kk <= L
    BY <1>0, <1>1, <1>2, <1>5, SMTT(60)
  <1>m. gone \in 0 .. M /\ k = L - M /\ kk = k + gone
    OBVIOUS
  <1> HIDE DEF at, L, M, k, kk
  <1>8. \A i \in 1 .. Len(logs') : logs'[i] = grants'[kk + i]
    <2> SUFFICES ASSUME NEW i \in 1 .. Len(logs')
                 PROVE  logs'[i] = grants'[kk + i]
      BY SMTT(60)
    <2>1. CASE i = Len(logs')
      <3>1. kk + i = L + 1
        BY <1>0, <1>1, <1>7, <1>m, <2>1, SMTT(60)
      <3> QED
        BY <1>1, <1>2, <2>1, <3>1, Zenon
    <2>2. CASE i # Len(logs')
      <3>1. /\ i \in 1 .. M - gone /\ gone + i \in 1 .. M
            /\ k + (gone + i) = kk + i /\ kk + i \in 1 .. L
        <4>1. i \in 1 .. M - gone
          BY <1>0, <1>1, <1>m, <2>2, SMTT(60)
        <4> QED
          BY <1>0, <1>7, <1>m, <4>1, SMTT(60)
      <3>2. logs'[i] = logs[gone + i] /\ logs[gone + i] = grants[k + (gone + i)]
        BY <1>1, <1>5, <3>1, Zenon
      <3> QED
        BY <1>2, <3>1, <3>2, Zenon
    <2> QED
      BY <2>1, <2>2, SMTT(60)
  <1>9. \A i \in 1 .. kk : grants'[i] + Window <= at
    <2> SUFFICES ASSUME NEW i \in 1 .. kk PROVE grants'[i] + Window <= at
      OBVIOUS
    <2>1. i \in 1 .. L /\ grants'[i] = grants[i] /\ grants[i] \in Int
      BY <1>0, <1>2, <1>7, SMTT(60)
    <2>2. CASE i <= k
      <3>1. /\ i \in 1 .. k /\ L \in 1 .. L /\ L < L + 1
            /\ L \in 1 .. L + 1 /\ L + 1 \in 1 .. L + 1
        BY <1>0, <1>7, <2>1, <2>2, SMTT(60)
      <3>2. /\ grants[i] + Window <= grants[L]
            /\ grants'[L] = grants[L] /\ grants[L] \in Int
        BY <1>0, <1>2, <1>5, <3>1, Zenon
      <3>3. grants'[L] <= grants'[L + 1]
        BY <1>2, <3>1, Zenon DEF InOrder
      <3>4. grants[L] <= at
        BY <1>2, <3>2, <3>3, Zenon
      <3> QED
        BY <1>0, <2>1, <3>2, <3>4, SMTT(60)
    <2>3. CASE i > k
      <3>1. i - k \in 1 .. M /\ ~(i - k > gone) /\ k + (i - k) = i
        BY <1>0, <1>7, <1>m, <2>1, <2>3, SMTT(60)
      <3>2. logs[i - k] = grants[i] /\ ~(logs[i - k] > at - Window)
        BY <1>5, <1>6, <3>1, Zenon
      <3> QED
        BY <1>0, <2>1, <3>2, SMTT(60)
    <2> QED
      BY <1>7, <2>2, <2>3, SMTT(60)
  <1>10. \A i \in 1 .. (L + 1) - Limit :
           grants'[i] + Window <= grants'[i + Limit]
    <2> SUFFICES ASSUME NEW i \in 1 .. (L + 1) - Limit
                 PROVE  grants'[i] + Window <= grants'[i + Limit]
      OBVIOUS
    <2>1. CASE i = (L + 1) - Limit
      <3>1. i + Limit = L + 1 /\ i \in 1 .. kk
        BY <1>0, <1>1, <1>7, <1>m, <2>1, SMTT(60)
      <3> QED
        BY <1>2, <1>9, <3>1, Zenon
    <2>2. CASE i # (L + 1) - Limit
      <3>1. i \in 1 .. L - Limit /\ i \in 1 .. L /\ i + Limit \in 1 .. L
        BY <1>0, <2>2
      <3> QED
        BY <1>2, <1>5, <3>1, Zenon
    <2> QED
      BY <2>1, <2>2
  <1>11. kk >= 0
    BY <1>7
  <1> QED
    BY <1>2, <1>7, <1>8, <1>9, <1>10, <1>11, Zenon DEF OrderInv, at, L

\* A denied request drops nothing: with an entry less it would be granted.
LEMMA DenyKeepsLog ==
  ASSUME BoundInv, NEW gone \in 0 .. Len(logs), Deny(gone)
  PROVE  logs' = logs /\ grants' = grants
  <1>1. /\ Len(logs) - gone >= Limit /\ Len(logs') = Len(logs) - gone
        /\ \A i \in 1 .. Len(logs') : logs'[i] = logs[gone + i]
        /\ logs' \in Seq(0 .. clock) /\ grants' = grants
    BY Zenon DEF Deny
  <1>2. gone = 0 /\ Len(logs') = Len(logs)
    BY <1>1, Numbers, SMTT(60)
  <1>3. \A i \in 1 .. Len(logs') : logs'[i] = logs[i]
    BY <1>1, <1>2, SMTT(60)
  <1>4. logs \in Seq(0 .. clock)
    BY DEF BoundInv, TypeOK
  <1> QED
    BY <1>1, <1>2, <1>3, <1>4, SeqEqual, SMTT(60)

LEMMA WindowInit == Init => WindowInv
  <1> SUFFICES ASSUME Init PROVE WindowInv
    OBVIOUS
  <1>1. BoundInv
    BY BoundInit
  <1>2. Len(logs) = 0 /\ Len(grants) = 0
    BY DEF Init
  <1>3. OrderInv
    BY <1>2, WindowAssumption DEF OrderInv, ValidWindow
  <1> QED
    BY <1>1, <1>3, SMTT(60) DEF WindowInv

LEMMA WindowNext ==
  ASSUME WindowInv, [Next]_vars
  PROVE  WindowInv'
  <1>0. BoundInv /\ BoundInv' /\ TypeOK
    BY BoundNext DEF WindowInv, BoundInv
  <1>1. ASSUME UNCHANGED <<logs, grants>> PROVE WindowInv'
    <2>1. InOrder' => InOrder
      BY <1>1, Zenon DEF InOrder
    <2>2. OrderInv => OrderInv'
      BY <1>1, Zenon DEF OrderInv
    <2> QED
      BY <1>0, <2>1, <2>2, Zenon DEF WindowInv
  <1>2. ASSUME NEW t \in Threads, Decide(t) PROVE WindowInv'
    <2>1. now[t] \in 0 .. clock
      BY <1>0, <1>2, DecideEffect, Zenon
    <2>2. PICK gone \in 0 .. Len(logs) :
            /\ Grant(t, gone) \/ Deny(gone)
            /\ Sorted(logs) => \A j \in 1 .. Len(logs) :
                                 logs[j] > now[t] - Window <=> j > gone
      BY <1>0, <1>2, DecideEffect, Zenon
    <2>3. CASE Grant(t, gone)
      BY <1>0, <2>1, <2>2, <2>3, GrantKeepsOrder, Zenon DEF WindowInv
    <2>4. CASE Deny(gone)
      BY <1>0, <1>1, <2>4, DenyKeepsLog, Zenon
    <2> QED
      BY <2>2, <2>3, <2>4, Zenon
  <1>3. ASSUME Forget PROVE WindowInv'
    <2>1. Len(logs') = 0 /\ Len(grants') = 0
      BY <1>3 DEF Forget
    <2>2. OrderInv'
      BY <2>1, WindowAssumption, SMTT(60) DEF OrderInv, ValidWindow
    <2> QED
      BY <1>0, <2>2, Zenon DEF WindowInv
  <1> QED
    BY <1>1, <1>2, <1>3, Zenon DEF Next, vars, windowVars

LEMMA WindowKept == Spec => []WindowInv
  BY WindowInit, WindowNext, PTL DEF Spec

\* The limit of NewSlidingWindow holds in every window, as long as grants are
\* in clock order (recordAndDecide).
THEOREM LimitHolds == Spec => []AtMostLimitInOrder
  <1>1. ASSUME WindowInv PROVE AtMostLimitInOrder
    <2> SUFFICES ASSUME InOrder, NEW at \in 0 .. clock
                 PROVE  InWindow(at) <= Limit
      BY Zenon DEF AtMostLimitInOrder, AtMostLimit
    <2> DEFINE L == Len(grants)
               W == {i \in 1 .. L : grants[i] > at - Window /\ grants[i] <= at}
    <2>1. /\ clock \in Nat /\ Limit \in Nat \ {0} /\ Window \in Nat \ {0}
          /\ L \in Nat /\ at \in Int
          /\ \A i \in 1 .. L : grants[i] \in Int
      BY <1>1, Numbers DEF WindowInv
    <2>2. /\ \A i \in 1 .. L - Limit : grants[i] + Window <= grants[i + Limit]
          /\ \A i, j \in 1 .. L : i < j => grants[i] <= grants[j]
      BY <1>1, Zenon DEF WindowInv, OrderInv, InOrder
    <2>3. InWindow(at) = Cardinality(W)
      BY Zenon DEF InWindow
    <2> HIDE DEF L
    <2>4. CASE W = {}
      BY <2>1, <2>3, <2>4, FS_EmptySet, SMTT(60)
    <2>5. CASE W # {}
      <3>1. W \in SUBSET Nat
        BY <2>1
      <3>2. PICK first \in W : \A j \in W : first <= j
        BY <2>5, <3>1, HasLeast, Zenon
      <3>3. W \subseteq first .. (first + Limit - 1)
        <4> SUFFICES ASSUME NEW j \in W, ~(j <= first + Limit - 1) PROVE FALSE
          BY <2>1, <3>2
        <4>1. /\ first \in 1 .. L - Limit /\ first + Limit \in 1 .. L
              /\ j \in 1 .. L /\ first + Limit <= j
          BY <2>1, <3>2
        <4>2. grants[first] + Window <= grants[first + Limit]
          BY <2>2, <4>1, Zenon
        <4>3. grants[first + Limit] <= grants[j]
          <5>1. CASE first + Limit = j
            BY <2>1, <4>1, <5>1
          <5>2. CASE first + Limit # j
            <6>1. first + Limit < j
              BY <4>1, <5>2, <2>1, SMTT(60)
            <6> QED
              BY <2>2, <4>1, <6>1, Zenon
          <5> QED
            BY <5>1, <5>2
        <4>4. /\ grants[first] > at - Window /\ grants[j] <= at
              /\ grants[first] \in Int /\ grants[j] \in Int
              /\ grants[first + Limit] \in Int
          BY <2>1, <3>2, <4>1, SMTT(60)
        <4> QED
          BY <2>1, <4>2, <4>3, <4>4, SMTT(60)
      <3>4. /\ first \in Int /\ first + Limit - 1 \in Int
            /\ first <= first + Limit - 1
            /\ (first + Limit - 1) - first + 1 = Limit
        BY <2>1, <3>2
      <3>5. /\ IsFiniteSet(first .. (first + Limit - 1))
            /\ Cardinality(first .. (first + Limit - 1)) = Limit
        BY <3>4, FS_Interval
      <3> HIDE DEF W
      <3>6. Cardinality(W) <= Limit
        <4> DEFINE I == first .. (first + Limit - 1)
        <4> HIDE DEF I
        <4>1. IsFiniteSet(I) /\ Cardinality(I) = Limit /\ W \in SUBSET I
          BY <3>3, <3>5, Zenon DEF I
        <4> QED
          BY <4>1, FS_Subset, Zenon
      <3> QED
        BY <2>3, <3>6
    <2> QED
      BY <2>4, <2>5
  <1> QED
    BY WindowKept, <1>1, PTL

\* The binary search finds the first entry of the window in every log and for
\* every time that requests in clock order bring about (recordAndDecide).
THEOREM SearchIsFirst == Spec => []SearchFindsFirst
  <1>1. ASSUME WindowInv PROVE SearchFindsFirst
    <2> SUFFICES ASSUME InOrder, NEW at \in 0 .. clock
                 PROVE  BinarySearch(logs, at - Window)
                          = FirstValid(logs, at - Window)
      BY Zenon DEF SearchFindsFirst
    <2> DEFINE N == Len(logs)
               start == at - Window
               b == BinarySearch(logs, start)
               Fits(i) == /\ \A j \in 1 .. (i - 1) : logs[j] <= start
                          /\ i <= N => logs[i] > start
    <2>1. /\ N \in Nat /\ start \in Int /\ logs \in Seq(Int)
          /\ \A i \in 1 .. N : logs[i] \in Int
      BY <1>1, Numbers DEF WindowInv
    <2>2. Sorted(logs)
      BY <1>1, LogSorted, Zenon DEF WindowInv
    <2> HIDE DEF N, start
    <2>3. /\ b \in 1 .. N + 1
          /\ \A j \in 1 .. N : logs[j] > start <=> j >= b
      BY <2>1, <2>2, SearchCorrect, Zenon DEF N
    <2> HIDE DEF b
    <2>4. Fits(b)
      BY <2>1, <2>3
    <2>5. ASSUME NEW i \in 1 .. (N + 1), Fits(i) PROVE i = b
      <3>1. CASE i < b
        <4>1. i \in 1 .. N
          BY <2>1, <2>3, <3>1, SMTT(60)
        <4> QED
          BY <2>1, <2>3, <2>5, <3>1, <4>1, SMTT(60)
      <3>2. CASE i > b
        <4>1. b \in 1 .. (i - 1) /\ b \in 1 .. N
          BY <2>1, <2>3, <3>2, SMTT(60)
        <4>2. logs[b] <= start
          BY <2>5, <4>1
        <4> QED
          BY <2>1, <2>3, <4>1, <4>2, SMTT(60)
      <3> QED
        BY <2>1, <2>3, <3>1, <3>2, SMTT(60)
    <2>6. FirstValid(logs, start) = CHOOSE i \in 1 .. (N + 1) : Fits(i)
      BY Zenon DEF FirstValid, N
    <2> HIDE DEF Fits
    <2> QED
      BY <2>3, <2>4, <2>5, <2>6, Zenon DEF b, start
  <1> QED
    BY WindowKept, <1>1, PTL

\* A denied caller that waits RetryAfter, and not a tick less, is granted when
\* nobody else asks meanwhile (recordAndDecide).
THEOREM WaitSuffices == Spec => []RetryAfterExact
  <1>1. ASSUME WindowInv PROVE RetryAfterExact
    <2> DEFINE kept == Pruned(logs, clock)
               wait == RetryAfter(kept, clock)
               gone == BinarySearch(logs, clock - Window) - 1
    <2> SUFFICES ASSUME InOrder, Len(kept) >= Limit
                 PROVE  /\ wait > 0
                        /\ Len(Pruned(kept, clock + wait)) < Limit
                        /\ Len(Pruned(kept, clock + wait - 1)) >= Limit
      BY Zenon DEF RetryAfterExact
    <2>1. /\ clock \in Nat /\ Limit \in Nat \ {0} /\ Window \in Nat \ {0}
          /\ Len(logs) \in Nat /\ Len(logs) <= Limit /\ logs \in Seq(Int)
          /\ clock \in Int /\ Int \in SUBSET Int
      BY <1>1, Numbers DEF WindowInv
    <2>2. Sorted(logs)
      BY <1>1, LogSorted, Zenon DEF WindowInv
    <2>3. /\ gone \in 0 .. Len(logs) /\ kept \in Seq(Int)
          /\ Len(kept) = Len(logs) - gone
          /\ \A i \in 1 .. Len(kept) : kept[i] = logs[gone + i]
          /\ \A j \in 1 .. Len(logs) : logs[j] > clock - Window <=> j > gone
      BY <2>1, <2>2, PruneKeepsEnd, Zenon
    <2>4. wait = kept[1] + Window - clock
      BY DEF RetryAfter
    <2> HIDE DEF kept, wait, gone
    <2>5. /\ Len(kept) = Limit /\ gone = 0
          /\ 1 \in 1 .. Len(kept) /\ 1 \in 1 .. Len(logs)
      BY <2>1, <2>3
    <2>6. kept = logs
      <3>1. \A i \in 1 .. Len(kept) : kept[i] = logs[i]
        BY <2>3, <2>5
      <3>2. Len(kept) = Len(logs)
        BY <2>1, <2>3, <2>5
      <3> QED
        BY <2>1, <2>3, <3>1, <3>2, SeqEqual, SMTT(60)
    <2>7. kept[1] \in Int /\ kept[1] > clock - Window
      <3>1. kept[1] \in Int
        BY <2>3, <2>5, ElementOfSeq, SMTT(60)
      <3> QED
        BY <2>3, <2>5, <2>6, <3>1
    <2>8. /\ wait \in Int /\ wait > 0
          /\ clock + wait \in Int /\ clock + wait - 1 \in Int
          /\ (clock + wait) - Window = kept[1]
          /\ (clock + wait - 1) - Window = kept[1] - 1
      <3>1. clock \in Int /\ Window \in Int
        BY <2>1
      <3>2. ASSUME NEW x \in Int, x > clock - Window, wait = x + Window - clock
            PROVE  /\ wait \in Int /\ wait > 0
                   /\ clock + wait \in Int /\ clock + wait - 1 \in Int
                   /\ (clock + wait) - Window = x
                   /\ (clock + wait - 1) - Window = x - 1
        BY <3>1, <3>2
      <3> QED
        BY <2>4, <2>7, <3>2, Zenon
    <2>9. Len(Pruned(kept, clock + wait)) < Limit
      <3> DEFINE out == BinarySearch(kept, (clock + wait) - Window) - 1
      <3>1. /\ out \in 0 .. Len(kept)
            /\ Len(Pruned(kept, clock + wait)) = Len(kept) - out
            /\ \A j \in 1 .. Len(kept) :
                 kept[j] > (clock + wait) - Window <=> j > out
        BY <2>1, <2>2, <2>3, <2>6, <2>8, PruneKeepsEnd, ZenonT(60)
      <3> HIDE DEF out
      <3>2. ~(kept[1] > (clock + wait) - Window)
        BY <2>7, <2>8
      <3>3. ~(1 > out)
        BY <2>5, <3>1, <3>2, Zenon
      <3> QED
        BY <2>1, <2>5, <3>1, <3>3, SMTT(60)
    <2>10. Len(Pruned(kept, clock + wait - 1)) >= Limit
      <3> DEFINE out == BinarySearch(kept, (clock + wait - 1) - Window) - 1
      <3>1. /\ out \in 0 .. Len(kept)
            /\ Len(Pruned(kept, clock + wait - 1)) = Len(kept) - out
            /\ \A j \in 1 .. Len(kept) :
                 kept[j] > (clock + wait - 1) - Window <=> j > out
        BY <2>1, <2>2, <2>3, <2>6, <2>8, PruneKeepsEnd, ZenonT(60)
      <3> HIDE DEF out
      <3>2. kept[1] > (clock + wait - 1) - Window
        BY <2>7, <2>8
      <3>3. 1 > out
        BY <2>5, <3>1, <3>2, Zenon
      <3> QED
        BY <2>1, <2>5, <3>1, <3>3, SMTT(60)
    <2> QED
      BY <2>8, <2>9, <2>10
  <1> QED
    BY WindowKept, <1>1, PTL

\* What a grant reports as Remaining is what the key can still spend at the
\* same instant, in clock order, for every limit and window (recordAndDecide).
THEOREM RemainingTrue == Spec => []RemainingHonest
  <1>1. ASSUME WindowInv PROVE RemainingHonest
    <2> DEFINE kept == Pruned(logs, clock)
               granted == Append(kept, clock)
               next == Pruned(granted, clock)
               gone == BinarySearch(logs, clock - Window) - 1
               out == BinarySearch(granted, clock - Window) - 1
    <2> SUFFICES ASSUME InOrder, Len(kept) < Limit
                 PROVE  /\ Len(next) < Limit <=> Remaining(granted) > 0
                        /\ Len(next) < Limit =>
                             Remaining(Append(next, clock))
                               = Remaining(granted) - 1
      BY Zenon DEF RemainingHonest
    <2>1. /\ clock \in Nat /\ Limit \in Nat \ {0} /\ Window \in Nat \ {0}
          /\ Len(logs) \in Nat /\ logs \in Seq(Int)
          /\ \A i \in 1 .. Len(logs) : logs[i] \in 0 .. clock
          /\ clock \in Int /\ Int \in SUBSET Int
      BY <1>1, Numbers DEF WindowInv
    <2>2. Sorted(logs)
      BY <1>1, LogSorted, Zenon DEF WindowInv
    <2>3. /\ gone \in 0 .. Len(logs) /\ kept \in Seq(Int)
          /\ Len(kept) = Len(logs) - gone
          /\ \A i \in 1 .. Len(kept) : kept[i] = logs[gone + i]
          /\ \A j \in 1 .. Len(logs) : logs[j] > clock - Window <=> j > gone
      BY <2>1, <2>2, PruneKeepsEnd, ZenonT(60)
    <2> HIDE DEF kept, gone
    <2>4. \A i \in 1 .. Len(kept) :
            kept[i] \in 0 .. clock /\ kept[i] > clock - Window
      <3> TAKE i \in 1 .. Len(kept)
      <3>1. gone + i \in 1 .. Len(logs) /\ gone + i > gone
        BY <2>1, <2>3
      <3>2. kept[i] = logs[gone + i]
        BY <2>3
      <3> QED
        BY <2>1, <2>3, <3>1, <3>2, Zenon
    <2>5. /\ granted \in Seq(Int) /\ Len(granted) = Len(kept) + 1
          /\ Len(kept) \in Nat /\ granted[Len(kept) + 1] = clock
          /\ \A i \in 1 .. Len(kept) : granted[i] = kept[i]
      BY <2>1, <2>3
    <2> HIDE DEF granted
    <2>6. Sorted(granted)
      <3>1. ASSUME NEW i \in 1 .. Len(kept), NEW j \in 1 .. Len(kept), i < j
            PROVE  kept[i] <= kept[j]
        <4>1. /\ gone + i \in 1 .. Len(logs) /\ gone + j \in 1 .. Len(logs)
              /\ gone + i < gone + j
          BY <2>1, <2>3, <3>1
        <4>2. kept[i] = logs[gone + i] /\ kept[j] = logs[gone + j]
          BY <2>3
        <4> QED
          BY <2>2, <4>1, <4>2, Zenon DEF Sorted
      <3> SUFFICES ASSUME NEW i \in 1 .. Len(granted),
                          NEW j \in 1 .. Len(granted), i < j
                   PROVE  granted[i] <= granted[j]
        BY DEF Sorted
      <3>2. i \in 1 .. Len(kept) /\ granted[i] = kept[i]
        BY <2>5, SMTT(60)
      <3>3. CASE j \in 1 .. Len(kept)
        BY <2>5, <3>1, <3>2, <3>3, Zenon
      <3>4. CASE j = Len(kept) + 1
        <4>1. granted[j] = clock /\ kept[i] \in 0 .. clock
          BY <2>4, <2>5, <3>2, <3>4, Zenon
        <4> QED
          BY <2>1, <3>2, <4>1
      <3> QED
        BY <2>5, <3>3, <3>4
    <2>7. /\ out \in 0 .. Len(granted) /\ next \in Seq(Int)
          /\ Len(next) = Len(granted) - out
          /\ \A j \in 1 .. Len(granted) : granted[j] > clock - Window <=> j > out
      BY <2>1, <2>5, <2>6, PruneKeepsEnd, ZenonT(60)
    <2> HIDE DEF next, out
    <2>8. 1 \in 1 .. Len(granted) /\ granted[1] > clock - Window
      <3>1. CASE Len(kept) = 0
        BY <2>1, <2>5, <3>1
      <3>2. CASE Len(kept) > 0
        BY <2>1, <2>4, <2>5, <3>2, SMTT(60)
      <3> QED
        BY <2>5, <3>1, <3>2
    <2>9. Len(next) = Len(granted)
      BY <2>5, <2>7, <2>8
    <2>10. Len(Append(next, clock)) = Len(next) + 1
      BY <2>1, <2>7, AppendProperties, Zenon
    <2> QED
      BY <2>1, <2>5, <2>9, <2>10, SMTT(60) DEF Remaining
  <1> QED
    BY WindowKept, <1>1, PTL
=============================================================================
