SPECIFICATION Spec
CONSTANTS
    t1 = t1
    t2 = t2
    a = a
    b = b
    TimerIds = {t1, t2}
    Threads = {a, b}
    Periods = {0, 2}
    Hour = 4
    Start = 10
    LastTick = 12
    BackLimit = 0
    BackBy = {}
    Never = 1000
SYMMETRY Symmetric
INVARIANTS
    IndexMatchesTimers
    EarlierFrontAnnounced
PROPERTIES
    CancelledNeverFires
