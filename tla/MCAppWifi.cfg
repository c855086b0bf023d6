CONSTANTS
    Bases = {0, 2}
    MaxDelay = 10
    Budgets = {0, 2}
    RetryBound = 5
    QueueBound = 4
SPECIFICATION Spec
INVARIANTS TypeOK NeverStranded StateTracksLink CallbackCurrent BackoffFollowsFailures
PROPERTIES Reconnects
CHECK_DEADLOCK FALSE
