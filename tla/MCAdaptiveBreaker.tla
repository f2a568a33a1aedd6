------------------------- MODULE MCAdaptiveBreaker -------------------------
(* Model values for the runs of AdaptiveBreaker.                           *)
EXTENDS AdaptiveBreaker

CONSTANTS c1, c2

MCCallers == {c1, c2}
MCNoReaders == {}
=============================================================================
