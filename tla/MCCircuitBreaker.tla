-------------------------- MODULE MCCircuitBreaker --------------------------
(* Model values and symmetry for the runs of CircuitBreaker.               *)
EXTENDS CircuitBreaker, TLC

CONSTANTS c1, c2, c3, r1, r2

MCThreeCallers == {c1, c2, c3}
MCTwoCallers == {c1, c2}
MCTwoReaders == {r1, r2}
MCOneReader == {r1}

Symmetry == Permutations(Callers) \union Permutations(Readers)
=============================================================================
