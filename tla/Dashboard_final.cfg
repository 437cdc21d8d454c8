SPECIFICATION FairSpec
CONSTANTS
    Room = 2
    MaxRuns = 1
    MaxCommits = 1
    MaxFailures = 0
PROPERTIES
    ChangesReachTheSocket
CHECK_DEADLOCK FALSE
