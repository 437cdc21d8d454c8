SPECIFICATION FairSpec
CONSTANTS
    NumLogs = 2
    Present = {1, 2}
    Stamps = {1, 2}
    Lag = 1
    QuietTimeout = 2
    MaxRecords = 3
INVARIANTS
    TypeOK
    InversionExplained
    LagBoundsTheHold
PROPERTIES
    ImplementsChannels
    NobodyWaitsForever
CHECK_DEADLOCK FALSE
