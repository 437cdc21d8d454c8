SPECIFICATION FairSpec
CONSTANTS
    Calls <- PipelineOnly
    MaxLines = 2
INVARIANTS
    NothingLost
CHECK_DEADLOCK FALSE
