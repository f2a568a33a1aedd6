\* No ring, slow calls tracked, and most of the Config left at zero, so that
\* New fills in its defaults.  No call panics.
CONSTANTS
    c1 = c1
    c2 = c2
    c3 = c3
    r1 = r1
    r2 = r2
    Callers <- MCThreeCallers
    Readers <- MCOneReader
    MaxRequests = 2
    Timeout = 1
    FailureRateThreshold = 0
    SlowCallRateThreshold = 0
    MinimumNumberOfCalls = 2
    SlidingWindowSize = 0
    CountWindow = FALSE
    TracksSlow = TRUE
    CanPanic = FALSE
    Word32 = 4
    Word64 = 1
SPECIFICATION FairSpec
INVARIANTS
    NoSlotLeaked
PROPERTIES
    BlockingIsTemporary
