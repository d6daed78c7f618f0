SPECIFICATION FairSpec
CONSTANTS
    Threads = {t1, t2}
    Conns = {c1, c2}
    Addrs = {a1}
    Limit = 1
    MaxGen = 1
    MaxHeld = 1
    NoThread = NoThread
    NoBackend = NoBackend
PROPERTIES
    CallsReturn
