SPECIFICATION Spec
CONSTANTS
    p1 = p1
    p2 = p2
    t1 = t1
    t2 = t2
    Processes = {p1, p2}
    Threads = {t1, t2, t3}
    NoThread = none
    ProcessOf <- Placed
    WorkerOf <- OwnWorker
    MaxWorkerId = 1
    MaxSequence = 1
    MaxBackward = 1
    MaxClock = 2
    MaxFaults = 2
INVARIANTS TypeOK UniqueIds
PROPERTY IdsIncrease
CHECK_DEADLOCK FALSE
SYMMETRY Symmetry
