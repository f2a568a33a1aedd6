------------------------------ MODULE MCMetrics ------------------------------
(* The instance of Metrics that TLC checks: a strategy that retries as     *)
(* often as it says, one whose multiplier is NaN, one whose second pause   *)
(* overflows (4 * 2 is -8 in words of MaxInt = 7), and no strategy at all. *)
EXTENDS Metrics, TLC

CONSTANTS a, b, s

Strategy(kind, initial, count, multiplier) ==
    [kind |-> kind, initial |-> initial, max |-> 6, count |-> count,
     multiplier |-> multiplier]

MCStrategies ==
    {None, Strategy("fixed", 1, 1, 0), Strategy("exponential", 1, 2, NaN),
     Strategy("fibonacci", 4, 2, 0)}

Interchangeable == Permutations(Callers)
=============================================================================
