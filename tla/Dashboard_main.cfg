SPECIFICATION FairSpec
CONSTANTS
    Room = 2
    MaxRuns = 2
    MaxCommits = 1
    MaxFailures = 1
INVARIANTS
    TypeOK
PROPERTIES
    PushesGoForward
    AlertsReachTheSocket
CHECK_DEADLOCK FALSE
