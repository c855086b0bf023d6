CONSTANTS
    Good = Good
    Bad = Bad
    Missing = Missing
    None = None
    Builds <- MCBuilds
    WritesFail = FALSE
    QueueBound = 4
    MaxResets = 1
SPECIFICATION Spec
PROPERTIES FactoryReset
CHECK_DEADLOCK TRUE
