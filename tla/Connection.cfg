SPECIFICATION FairSpec
CONSTANTS
    IDs <- AnyIDs
    MaxReq = 3
CHECK_DEADLOCK FALSE
INVARIANTS
    TypeOK
    RightAnswer
    InSync
PROPERTIES
    RequestReturns
