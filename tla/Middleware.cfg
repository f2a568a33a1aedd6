\* Two requests through four chains, a waiting bulkhead for one request, one
\* retry, handlers that panic and clients that leave.
CONSTANTS
    r1 = r1
    r2 = r2
    Requests <- MCRequests
    Chains <- MCChains
    MaxConcurrent = 1
    Patient = TRUE
    MaxRetries = 1
SPECIFICATION Spec
SYMMETRY Symmetry
INVARIANTS
    TypeOK
    HandlersAreBounded
    VerdictMatchesClient
    SuccessIsEarned
\* Every request is made once.
CHECK_DEADLOCK FALSE
