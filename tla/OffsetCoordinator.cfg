SPECIFICATION FairSpec
CONSTANTS
    Threads = {t1, t2}
    Offsets = {1, 2}
    RetryErrLimits = {0, 2}
    ConnectionLimit = 2
    MaxLate = 1
INVARIANTS
    TypeOK
    Accounted
    NeverStarvesItself
PROPERTIES
    CallsReturn
