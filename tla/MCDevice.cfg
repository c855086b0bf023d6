CONSTANTS
    Good = Good
    Bad = Bad
    Missing = Missing
    None = None
    Builds <- MCBuilds
    WritesFail = TRUE
    QueueBound = 4
    MaxResets = 3
SPECIFICATION Spec
INVARIANTS TypeOK SilentOnlyWhenTorn OnlineIsGreen
PROPERTIES NoCredentialsProvision AutoConnects ServicesStart LongPressRestarts
CHECK_DEADLOCK TRUE
