---------------------------- MODULE MCRateLimiter ----------------------------
(* Model values for the run of RateLimiter.                                *)
EXTENDS RateLimiter

CONSTANTS w1, w2

MCWaiters == {w1, w2}

Limit(kind, burst, rate, cost, window) ==
    [kind |-> kind, burst |-> burst, rate |-> rate, cost |-> cost, window |-> window]

(* Buckets that gain two thirds of an event and one event in a tick, and   *)
(* windows of three ticks for one event and of four for three.             *)
MCLimiters ==
    {Limit("bucket", 2, 2, 3, 1), Limit("bucket", 3, 1, 1, 1),
     Limit("window", 1, 1, 1, 3), Limit("window", 3, 1, 1, 4)}

MCSizes == {1, 2}
=============================================================================
