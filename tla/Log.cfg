\* Two threads reload "logs", the root's definition included, while one logs.
CONSTANTS
    Letters <- MCLetters
    Known <- MCKnown
    Names = {"root", "net"}
    Root = "root"
    NameOrder <- MCNameOrder
    Values <- MCValues
    Setters = {s1, s2}
    Writers = {w1}
    Levels = {1, 2}
    Layouts <- MCLayouts
    Default <- MCDefault
    MCStdout = TRUE
SPECIFICATION Spec
SYMMETRY Symmetric
INVARIANTS
    FormattersInStep
    LoggersFollowConfig
    FormatterPrintsAsWritten
PROPERTIES
    EventsReachAnAppender
CHECK_DEADLOCK FALSE
