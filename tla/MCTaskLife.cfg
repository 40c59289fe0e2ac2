CONSTANTS
    Tasks = {t1, t2}
    Clients = {c1}
    IOWorkers = {w1}
    VerifyWorkers = {v1}
    MaxQueue = 1
    None = None
SPECIFICATION FairSpec
INVARIANTS TypeOK OnlyDescriptorsLeft
PROPERTIES RequestAnswered PieceHandled LeavingEnds
CHECK_DEADLOCK FALSE
