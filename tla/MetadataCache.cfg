SPECIFICATION FairSpec
CONSTANTS
    Threads = {t1, t2}
    Globals = {g1}
    Names = {n1}
    Clients = {c1}
    MetadataClient = MetadataClient
    DialRetryLimit = 2
    MaxVersion = 2
    NoCache = NoCache
    NoThread = NoThread
    NoCluster = NoCluster
    NoPool = NoPool
CHECK_DEADLOCK FALSE
INVARIANTS
    TypeOK
    Shared
PROPERTIES
    PoolsLearn
    NewBrokerReturns
