------------------------------ MODULE Numeric -------------------------------
(***************************************************************************)
(* The conversions of src/memory/numeric.go in exact arithmetic: an amount *)
(* is an integer number of units, with one units to a token or a drop, and *)
(* a duration an integer number of clock ticks.                            *)
(***************************************************************************)
EXTENDS Integers

\* remainingFloor: whole tokens in an amount, never negative.
remainingFloor(value, one) == IF value <= 0 THEN 0 ELSE value \div one

\* durationFromSecondsCeil: ticks until units have flowed at rate units per
\* tick, rounded up and clamped to maxDuration.
durationFromSecondsCeil(units, rate, maxDuration) ==
  IF units <= 0 THEN 0
  ELSE LET ticks == (units + rate - 1) \div rate
       IN  IF ticks >= maxDuration THEN maxDuration ELSE ticks
=============================================================================
