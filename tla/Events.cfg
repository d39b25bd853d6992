SPECIFICATION FairSpec
CONSTANTS
    rd = rd
    wr = wr
    k1 = k1
    i1 = i1
    i2 = i2
    NoOne = NoOne
    Waiters = {rd, wr}
    Fds = {2}
    Use <- Use22
    InitSize = 2
    MaxGen = 1
    Cancellers = {k1}
    Requests <- AllRequests
    Idlers = {i1, i2}
    FreshSchedulers = {"null", "garbage"}
    AddLimit = 2
    CancelLimit = 2
INVARIANTS
    PendingExact
    WaiterHeldOnce
PROPERTIES
    ReadyWaiterWakes
CHECK_DEADLOCK FALSE
