SPECIFICATION Spec
CONSTANTS
    browser = browser
    other = other
    Clients = {browser}
    MaxRuns = 2
    MaxRecords = 1
    Aftermath = TRUE
INVARIANTS
    OneReplay
CHECK_DEADLOCK FALSE
