SPECIFICATION FairSpec
CONSTANTS
    Fds = {3, 4}
    Actors = {"main", "acceptor", "stopper", "c1", "user", "plain"}
    Users = {"user", "plain"}
    Hooked = {"main", "acceptor", "stopper", "c1", "user"}
    UserKinds = {"sock", "other"}
    OpenLimit = 2
    Waits = {"1s"}
    Main = "main"
    Acceptor = "acceptor"
    Stopper = "stopper"
    Clients = {"c1"}
    AcceptThreads = 2
    ReuseFails = FALSE
    RecvTimeout = "2min"
    Turns = 2
INVARIANTS
    NothingOutlivesClose
    ManagedAsAsked
    NothingLeftOpen
PROPERTIES
    StopEndsAccepting
    EveryClientIsClosed
CHECK_DEADLOCK FALSE
