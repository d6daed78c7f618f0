SPECIFICATION FairSpec
CONSTANTS
    Threads = {t1, t2}
    Counts = {0, 2}
    MaxCount = 2
    MaxGen = 2
    MaxFailures = 1
    None = None
INVARIANTS
    TypeOK
    Conservation
    NoProgrammerError
PROPERTIES
    ComesBack
    DistributeReturns
