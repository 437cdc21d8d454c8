SPECIFICATION FairSpec
CONSTANTS
    Calls <- MCCalls
    MaxLines = 3
INVARIANTS
    TypeOK
    OnceInOrder
    UntornDelivered
    FinishedReadAll
PROPERTIES
    FollowReturns
    EveryRecordDelivered
    ImplementsChannel
CHECK_DEADLOCK FALSE
