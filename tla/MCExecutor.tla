------------------------------ MODULE MCExecutor ------------------------------
(* Model values for the runs of Executor.                                  *)
EXTENDS Executor

CONSTANTS r1, r2

MCRequests == {r1, r2}

(* Everything; everything but the layer that detaches the worker; two      *)
(* mixtures.                                                               *)
MCStacks ==
    {Layers, Layers \ {"timeout"}, {"bulkhead", "timeout", "breaker"},
     {"timeout", "limiter", "retry"}}
=============================================================================
