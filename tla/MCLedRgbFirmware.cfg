CONSTANTS
    LedCount = 2
    MaxBlink = 3
    SlowBlink = 4
    FastBlink = 2
    CustomColors = {"c1", "c2"}
    CustomRgb <- MCCustomRgb
    Callers = {"http", "event", "button"}
    Renderer = "led"
    NoTask = NoTask
    Requests <- MCRequests
    Times <- MCTimes
    LockCreated = FALSE
SPECIFICATION Spec
INVARIANTS FrameNeverTorn
CHECK_DEADLOCK TRUE
