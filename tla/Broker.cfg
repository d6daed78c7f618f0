SPECIFICATION FairSpec
CONSTANTS
    Producers = {t1}
    Askers = {t2}
    Creators = {t1}
    Nodes = {n1, n2}
    LeaderRetryLimit = 2
    ConnectionLimit = 2
    MaxChanges = 1
    MaxFaults = 1
    NoLeader = NoLeader
    NoTopic = NoTopic
INVARIANTS
    TypeOK
    NeverStarvesItself
PROPERTIES
    CallsReturn
    Recovers
