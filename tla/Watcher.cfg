\* Two goroutines that start and stop the watcher at any moment, which is
\* started once, and three edits of the file.
CONSTANTS
    u1 = u1
    u2 = u2
    configA = configA
    configB = configB
    Users <- MCUsers
    Contents <- MCContents
    Initial = configA
    MaxStarts = 1
    MaxEdits = 3
SPECIFICATION FairSpec
INVARIANTS
    TypeOK
    NeverPanics
    RunningMeansWatching
PROPERTIES
    StopWaitsForLoops
    StopEnds
    LastEditApplied
\* The watcher may be stopped for good.
CHECK_DEADLOCK FALSE
