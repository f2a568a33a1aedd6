\* Two buckets and two sliding windows, two goroutines that wait for one or two
\* events, and others that ask without waiting at any moment.
CONSTANTS
    w1 = w1
    w2 = w2
    Waiters <- MCWaiters
    Limiters <- MCLimiters
    Sizes <- MCSizes
    Horizon = 5
SPECIFICATION FairSpec
INVARIANTS
    TypeOK
    RateRespected
    WakesInTime
PROPERTIES
    GrantsKeepComing
