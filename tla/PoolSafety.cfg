SPECIFICATION Spec
CONSTANTS
    Threads = {t1, t2}
    Conns = {c1, c2, c3}
    Addrs = {a1}
    Limit = 1
    MaxGen = 2
    MaxHeld = 2
    NoThread = NoThread
    NoBackend = NoBackend
SYMMETRY Symmetry
INVARIANTS
    TypeOK
    QuotaExact
    ExclusiveOwner
    NoExcess
    NoLeak
    IdleIsOpen
