SPECIFICATION FairSpec
CONSTANTS
    t1 = t1
    t2 = t2
    a = a
    b = b
    TimerIds = {t1}
    Threads = {a, b}
    Periods = {0, 1}
    Hour = 1
    Start = 5
    LastTick = 6
    BackLimit = 1
    BackBy = {2}
    Never = 1000
INVARIANTS
    SetBackCostsOnce
PROPERTIES
    DueTimerFires
