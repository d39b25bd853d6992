SPECIFICATION Spec
CONSTANTS
    w1 = w1
    w2 = w2
    main = main
    f1 = f1
    f2 = f2
    f3 = f3
    Workers = {w1, w2}
    Root = main
    UseCaller = FALSE
    Fibers = {f1}
    Callbacks = {}
    AnyThread = AnyThread
    NoFiber = NoFiber
    Pin <- Unpinned
    SubmitLimit <- Once
    YieldLimit <- Never
    HoldLimit <- Once
    StartLimit = 1
    StopLimit = 1
INVARIANTS
    StacksAreSafe
