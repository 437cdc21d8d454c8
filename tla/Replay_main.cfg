SPECIFICATION FairSpec
CONSTANTS
    browser = browser
    other = other
    Clients = {browser, other}
    MaxRuns = 2
    MaxRecords = 2
    Aftermath = FALSE
INVARIANTS
    TypeOK
    NothingOutlivesItsRun
    TwoReplaysExplained
    DrainedIsComplete
PROPERTIES
    RunEnds
CHECK_DEADLOCK FALSE
