\* Two callers, a limit of two failures in a row, one probe per half-open
\* period, slow callbacks, Reset and ForceOpen at any moment.
\* Base.FailureRateThreshold is left at zero: New's default (50 percent) for
\* the inner breaker, a base below the minimum for adaptThreshold.
CONSTANTS
    c1 = c1
    c2 = c2
    Callers <- MCCallers
    Readers <- MCNoReaders
    MaxRequests = 1
    Timeout = 1
    FailureRateThreshold = 0
    SlowCallRateThreshold = 0
    MinimumNumberOfCalls = 2
    SlidingWindowSize = 0
    CountWindow = FALSE
    TracksSlow = FALSE
    CanPanic = TRUE
    Word32 = 4
    Word64 = 1
    ConsecutiveFailureLimit = 2
    Whole = 3
    MinThreshold = 1
    MaxThreshold = 2
    BaseThreshold = 0
    MaxCallbacks = 1
SPECIFICATION AdaptiveFairSpec
INVARIANTS
    AdaptiveTypeOK
    OvershootIsInFlight
PROPERTIES
    LimitIsFinal
    LimitTakesEffect
