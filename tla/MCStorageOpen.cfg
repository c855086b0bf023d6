CONSTANTS
    Ssids = {"home", "cafe"}
    Passwords = {"p1"}
    Empty = ""
    Missing = Missing
    Unknown = Unknown
    Tasks = {"event", "net", "button"}
    NoTask = NoTask
    Requests <- MCRequests
    IoFails = FALSE
    OpenFails = TRUE
SPECIFICATION Spec
INVARIANTS EraseOkMeansGone
CHECK_DEADLOCK TRUE
