\* "temporarily blocking requests" (pkg/breaker/breaker.go:3-5), with calls
\* that may panic: afterCall is skipped, and in a half-open period the slots
\* that panicking probes have taken never come back.
CONSTANTS
    c1 = c1
    c2 = c2
    c3 = c3
    r1 = r1
    r2 = r2
    Callers <- MCThreeCallers
    Readers <- MCOneReader
    MaxRequests = 2
    Timeout = 1
    FailureRateThreshold = 0
    SlowCallRateThreshold = 0
    MinimumNumberOfCalls = 2
    SlidingWindowSize = 0
    CountWindow = FALSE
    TracksSlow = TRUE
    CanPanic = TRUE
    Word32 = 4
    Word64 = 1
SPECIFICATION FairSpec
PROPERTIES
    BlockingIsTemporary
