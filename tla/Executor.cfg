\* Two requests through four stacks; fn may hang or panic, the fallback may
\* fail or panic, one retry, and a bulkhead for one.
CONSTANTS
    r1 = r1
    r2 = r2
    Requests <- MCRequests
    Stacks <- MCStacks
    MaxConcurrent = 1
    Patient = TRUE
    MaxRetries = 1
    CanHang = TRUE
    CanPanic = TRUE
    FallbackFails = TRUE
SPECIFICATION FairSpec
INVARIANTS
    TypeOK
    ErrorOnlyIfDone
    AdmittedAreSettled
PROPERTIES
    CallersAnswered
    WorkersEnd
\* Every request is made once, and fn may hang.
CHECK_DEADLOCK FALSE
