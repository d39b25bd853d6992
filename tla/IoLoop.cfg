SPECIFICATION FairSpec
CONSTANTS
    w1 = w1
    w2 = w2
    Workers = {w1, w2}
    Scripts <- ShortScripts
    IntBits = 4
    MaxTimeout = 3
INVARIANTS
    CountersExact
    StopLosesNothing

    
    
