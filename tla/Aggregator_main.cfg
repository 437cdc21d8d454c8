SPECIFICATION AggSpec
CONSTANTS
    Subjects <- MCSubjects
    Times = {1, 2, 3, 5}
    Confidences = {50, 60, 80}
    IdleClose = 2
    UpdateEvery = 2
    Jump = 15
    MaxAlerts = 4
INVARIANTS
    AggTypeOK
    TablesAgree
    HistoryKept
    SeverityOfPeak
    ReportedInTime
PROPERTIES
    NeverShrinks
CHECK_DEADLOCK FALSE
