SPECIFICATION FairSpec
CONSTANTS
    a1 = a1
    a2 = a2
    Addrs = {a1, a2}
    Shapes <- MCShapes
    Calls = {r1, r2}
    MaxVersion = 2
    MaxEpoch = 3
    LastChange = 1
    NoCall = NoCall
    NoResp = NoResp
INVARIANTS
    TypeOK
    NeverStranded
PROPERTIES
    ImplementsMetadata
    Converges
