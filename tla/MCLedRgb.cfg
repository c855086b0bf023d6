CONSTANTS
    LedCount = 2
    MaxBlink = 3
    SlowBlink = 4
    FastBlink = 2
    CustomColors = {"c1", "c2"}
    CustomRgb <- MCCustomRgb
    Callers = {"http", "event", "button"}
    Renderer = "led"
    NoTask = NoTask
    Requests <- MCRequests
    Times <- MCTimes
    LockCreated = TRUE
SPECIFICATION Spec
INVARIANTS TypeOK CustomNeedsConnected SnapshotConsistent FrameNeverTorn UnlockedTransmit WireShowsFrame
PROPERTIES LockReleased Linearizable
CHECK_DEADLOCK TRUE
