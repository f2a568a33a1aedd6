\* Four callers, limits of one to three slots, waiting and not waiting.
CONSTANTS
    c1 = c1
    c2 = c2
    c3 = c3
    c4 = c4
    Callers <- MCCallers
    Configs <- MCConfigs
    Word64 = 3
SPECIFICATION FairSpec
INVARIANTS
    TypeOK
    TokensAreOwned
    CountersAddUp
    OvershootIsReleases
PROPERTIES
    IsBoundedPool
    CallsEnd
