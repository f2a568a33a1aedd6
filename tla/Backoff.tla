------------------------------- MODULE Backoff -------------------------------
(***************************************************************************)
(* internal/backoff/backoff.go: the pause each strategy asks for before    *)
(* retry number 0, 1, 2, ...                                               *)
(*                                                                         *)
(* Durations are int64 and wrap round; a float64 is capped before it is    *)
(* converted.  Multipliers are whole numbers, or the float64 NaN.          *)
(***************************************************************************)
EXTENDS Integers

CONSTANTS
    MaxInt,     \* the largest int64
    NaN         \* stands for the float64 NaN: an integer no other value uses

ASSUME WordAssumption == MaxInt \in Nat \ {0} /\ NaN \in Int

(* Arithmetic on int64, and the conversion of a NaN to it, which the       *)
(* language leaves to the platform.                                        *)
Wrap(n) == ((n + MaxInt + 1) % (2 * (MaxInt + 1))) - (MaxInt + 1)

ConvertedNaN == {-(MaxInt + 1), 0}

(* The fields of the four structs in one record; FixedBackoff has no max,  *)
(* FixedBackoff and FibonacciBackoff have no multiplier.                   *)
Kinds == {"fixed", "exponential", "exponential_random", "fibonacci"}

Exhausted == -1

Capped(interval, max) == IF interval > max THEN max ELSE interval

GetMultiplier(s) ==
    IF s.multiplier <= 0 /\ s.multiplier # NaN THEN 2 ELSE s.multiplier

(* InitialInterval * multiplier ^ retry.  A power of NaN is a NaN, save    *)
(* for the first; no comparison holds of a NaN, so it is not capped.       *)
Intervals(s, retry) ==
    IF GetMultiplier(s) = NaN /\ retry > 0 THEN ConvertedNaN
    ELSE LET multiplier == IF retry = 0 THEN 1 ELSE GetMultiplier(s)
         IN  {Capped(s.initial * multiplier ^ retry, s.max)}

(* fibonacci(n), whose additions wrap round as well.                       *)
fibonacci[n \in Nat] ==
    IF n <= 2 THEN 1 ELSE Wrap(fibonacci[n - 1] + fibonacci[n - 2])

FibonacciInterval(s, retry) ==
    Capped(Wrap(s.initial * fibonacci[retry + 2]), s.max)

(* Any part of an interval.                                                *)
Jitter(interval) == IF interval < 0 THEN interval .. 0 ELSE 0 .. interval

(* The durations that Next(retry) may return.                              *)
NextPauses(s, retry) ==
    IF retry >= s.count THEN {Exhausted}
    ELSE CASE s.kind = "fixed"              -> {s.initial}
           [] s.kind = "exponential"        -> Intervals(s, retry)
           [] s.kind = "exponential_random" ->
                UNION {Jitter(i) : i \in Intervals(s, retry)}
           [] s.kind = "fibonacci"          -> {FibonacciInterval(s, retry)}

(* backoff.Execute goes on to sleep, or takes the strategy for exhausted:  *)
(* whatever is negative says so.                                           *)
MayPause(s, retry) == \E p \in NextPauses(s, retry) : p >= 0

MayGiveUp(s, retry) == \E p \in NextPauses(s, retry) : p < 0
=============================================================================
