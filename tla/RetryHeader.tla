----------------------------- MODULE RetryHeader ----------------------------
(***************************************************************************)
(* The Retry-After header an adapter (src/middleware) makes of a token     *)
(* bucket's RetryAfter: whole seconds, of Second ticks each.  The four     *)
(* adapters have the same function.                                        *)
(***************************************************************************)
EXTENDS TokenBucket

CONSTANT Second  \* ticks in a second

ASSUME SecondAssumption == Second \in Nat \ {0}

\* Fault: whole seconds only, at least one.
retryAfterWhole(d) == IF d < Second THEN 1 ELSE d \div Second

\* Seconds rounded up, at least one.
retryAfterSeconds(d) ==
  LET seconds == (d + Second - 1) \div Second
  IN  IF seconds < 1 THEN 1 ELSE seconds
-----------------------------------------------------------------------------
\* A client that waits as long as the header says is granted, although the
\* wait was rounded twice, and a second less is too early, when nobody else
\* asks meanwhile and the wait was not clamped.
HeaderExact ==
  \A tk \in Decisions :
    LET seconds == retryAfterSeconds(RetryAfter(tk))
    IN  ~Allows(tk) /\ RetryAfter(tk) < MaxDuration =>
          /\ Allows(Refilled(tk, 0, seconds * Second))
          /\ ~Allows(Refilled(tk, 0, (seconds - 1) * Second))
=============================================================================
