SPECIFICATION FairSpec
CONSTANTS
    w1 = w1
    w2 = w2
    main = main
    f1 = f1
    f2 = f2
    f3 = f3
    Workers = {w1}
    Root = main
    UseCaller = TRUE
    Fibers = {f1, f2}
    Callbacks = {f2}
    AnyThread = AnyThread
    NoFiber = NoFiber
    Pin <- Unpinned
    SubmitLimit <- F1Twice
    YieldLimit <- Once
    HoldLimit <- OnlyF1Once
    StartLimit = 1
    StopLimit = 1

    
PROPERTIES
    StopTerminates
    
