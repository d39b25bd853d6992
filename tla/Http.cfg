SPECIFICATION Spec
CONSTANTS
    Methods <- MCMethods
    ContentLength <- MCContentLength
    Requests <- MCRequests
    Responses <- MCResponses
    ConnectionName <- MCConnection
    CloseValue <- MCClose
    KeepAliveValue <- MCKeepAlive
    BuffSize = 9
    Keepalive = TRUE
INVARIANTS
    ReaderInv
    RequestRoundTrip
    ResponseRoundTrip
    EveryTokenBegins
