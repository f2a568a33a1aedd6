\* Calls that may panic, a count window of three slots, two probes per
\* half-open period, and two readers that race to end an open period.
\* uint32 has four values here, so totalCalls wraps round in a few calls.
\* No property of this run reads totalRejected: one value is enough.
CONSTANTS
    c1 = c1
    c2 = c2
    c3 = c3
    r1 = r1
    r2 = r2
    Callers <- MCThreeCallers
    Readers <- MCTwoReaders
    MaxRequests = 2
    Timeout = 2
    FailureRateThreshold = 50
    SlowCallRateThreshold = 100
    MinimumNumberOfCalls = 2
    SlidingWindowSize = 3
    CountWindow = TRUE
    TracksSlow = FALSE
    CanPanic = TRUE
    Word32 = 4
    Word64 = 1
SPECIFICATION Spec
SYMMETRY Symmetry
INVARIANTS
    TypeOK
    HalfOpenQuotaRespected
    HalfOpenCleanSlate
    ReaderRaceHarmless
    RingMatchesCounters
PROPERTIES
    KeepsProtocol
