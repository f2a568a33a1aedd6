---------------------------- MODULE MCMiddleware ----------------------------
(* Chains and requests for the runs of Middleware.                         *)
EXTENDS Middleware, TLC

CONSTANTS r1, r2

MCRequests == {r1, r2}

(* The chain of the package comment and of the README; retries below a     *)
(* breaker and above the bulkhead; a detached handler; a bulkhead whose    *)
(* slot the detached handler outlives.                                     *)
MCChains ==
    {<<"breaker", "limit", "timeout", "bulkhead">>,
     <<"breaker", "retry", "bulkhead">>,
     <<"breaker", "respond", "bulkhead">>,
     <<"bulkhead", "respond">>}

Symmetry == Permutations(Requests)
=============================================================================
