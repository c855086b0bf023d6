CONSTANTS
    LedCount = 2
    MaxBlink = 60000
    SlowBlink = 500
    FastBlink = 100
    CustomColors = {"c1", "c2"}
    CustomRgb <- MCCustomRgb
    Callers = {"http", "others"}
    Renderer = "led"
    NoTask = NoTask
    Requests <- MCCallRequests
    Times <- MCTimes
    LockCreated = TRUE
    ValidEpoch = 10
    ServerTimes <- MCServerTimes
    HttpRequests <- MCHttpRequests
    NoRequest = NoRequest
    BracesMatch = TRUE
    Systems <- MCSystems
    DefaultName <- MCDefaultName
    MaxLabel = 3
    Suffix <- MCSuffix
    Prefix <- MCPrefix
    ServiceSize = 8
    SystemSize = 4
SPECIFICATION Spec
INVARIANTS TypeOK StatusTellsEffect LedsAsTheyAre SyncedTimeIsReal NamesAsDocumented
PROPERTIES EffectAsAsked ServerComesUp RequestsAnswered
CHECK_DEADLOCK TRUE
