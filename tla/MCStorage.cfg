CONSTANTS
    Ssids = {"home", "cafe"}
    Passwords = {"p1"}
    Empty = ""
    Missing = Missing
    Unknown = Unknown
    Tasks = {"event", "net", "button"}
    NoTask = NoTask
    Requests <- MCRequests
    IoFails = TRUE
    OpenFails = FALSE
SPECIFICATION Spec
INVARIANTS TypeOK LastWriterWins LoadReadsLastSave
PROPERTIES LockReleased
CHECK_DEADLOCK TRUE
