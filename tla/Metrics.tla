------------------------------- MODULE Metrics -------------------------------
(***************************************************************************)
(* The subscription gauges of a pod (metrics.rs) and the quota headers     *)
(* they are set from (ratelimit.rs), for one window of the two, which are  *)
(* alike and never meet.  An optional number is a sequence of at most one. *)
(* The three gauges of a response are set in one step: no property here    *)
(* relates one of them to another.                                         *)
(***************************************************************************)
EXTENDS Integers, Sequences

CONSTANTS MaxInt   \* i64::MAX

ASSUME MaxIntAssumption == MaxInt \in Nat \ {0}

None == <<>>
Some(n) == <<n>>

Ints == (-MaxInt - 1)..MaxInt
Optional(S) == {None} \union {Some(n) : n \in S}

Gauges == [used : Optional(0..100), seconds : Optional(Ints), reset : Optional(Ints)]
Unset == [used |-> None, seconds |-> None, reset |-> None]

\* A header holds a number, or nothing the code can parse.
Headers == [used : Optional(Ints), minutes : Optional(Ints), reset : Optional(Ints)]

Clamped(n) == IF n < 0 THEN 0 ELSE IF n > 100 THEN 100 ELSE n

\* Bug: the product wraps around.
Wrapping(n) == ((60 * n + MaxInt + 1) % (2 * MaxInt + 2)) - MaxInt - 1

\* saturating_mul(60)
Saturating(n) ==
  IF 60 * n > MaxInt THEN MaxInt
  ELSE IF 60 * n < -MaxInt - 1 THEN -MaxInt - 1
  ELSE 60 * n

\* Window::from_headers and observe_window: without used-percent there is no window,
\* and a gauge keeps its value when its header is missing.
Observed(gauges, headers) ==
  IF headers.used = None THEN gauges
  ELSE [used |-> Some(Clamped(headers.used[1])),
        seconds |-> IF headers.minutes = None THEN gauges.seconds
                    ELSE Some(Saturating(headers.minutes[1])),
        reset |-> IF headers.reset = None THEN gauges.reset ELSE headers.reset]
=============================================================================
