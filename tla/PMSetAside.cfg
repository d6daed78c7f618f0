SPECIFICATION HSpec
CONSTANTS
    Threads = {t1, t2}
    Counts = {2}
    MaxCount = 2
    MaxGen = 1
    MaxFailures = 2
    None = None
PROPERTY SetAside
