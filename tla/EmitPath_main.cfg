SPECIFICATION Spec
CONSTANTS
    Subjects <- MCSubjects
    Times = {1, 2, 4}
    Confidences = {50, 80}
    IdleClose = 1
    UpdateEvery = 2
    Jump = 15
    MaxAlerts = 3
    CommitEvery = 2
    MaxRuns = 2
INVARIANTS
    TypeOK
    RowsAreRecent
    IncidentsHaveAlerts
    FinalStateStored
PROPERTIES
    FileOnlyGrows
CHECK_DEADLOCK FALSE
