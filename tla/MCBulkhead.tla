----------------------------- MODULE MCBulkhead -----------------------------
(* Configurations and model values for the runs of Bulkhead.               *)
EXTENDS Bulkhead

CONSTANTS c1, c2, c3, c4

MCCallers == {c1, c2, c3, c4}

(* Every limit below the number of callers, with and without waiting.      *)
MCConfigs == [MaxConcurrent : 1 .. 3, MaxWaitDuration : {0, 1}]
=============================================================================
