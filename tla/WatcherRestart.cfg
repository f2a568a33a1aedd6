\* "Start begins watching the config file." (internal/config/watcher.go:76):
\* Start, Stop, Start.  Neither channel is made anew, so the second loop ends
\* at once and closes done a second time, which is a panic.
CONSTANTS
    u1 = u1
    u2 = u2
    configA = configA
    configB = configB
    Users <- MCUsers
    Contents <- MCContents
    Initial = configA
    MaxStarts = 2
    MaxEdits = 3
SPECIFICATION Spec
INVARIANTS
    RunningMeansWatching
CHECK_DEADLOCK FALSE
