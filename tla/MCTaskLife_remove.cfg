CONSTANTS
    Tasks = {t1, t2}
    Clients = {c1}
    IOWorkers = {w1}
    VerifyWorkers = {v1, v2}
    MaxQueue = 1
    None = None
SPECIFICATION Spec
INVARIANT NoCrash
CHECK_DEADLOCK FALSE
