SPECIFICATION FairSpec
CONSTANTS
    RetryLimit = 1
    RetryErrLimit = 2
    MaxOffset = 4
INVARIANTS
    TypeOK
    NoLoss
    NoRepeat
PROPERTIES
    ConsumeReturns
