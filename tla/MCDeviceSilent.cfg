CONSTANTS
    Good = Good
    Bad = Bad
    Missing = Missing
    None = None
    Builds <- MCBuilds
    WritesFail = FALSE
    QueueBound = 4
    MaxResets = 3
SPECIFICATION Spec
INVARIANTS NeverSilent
CHECK_DEADLOCK TRUE
