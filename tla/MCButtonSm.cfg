CONSTANTS
    Debounce = 2
    LongPress = 7
    Wrap = 16
    Gaps = {1, 3}
    Horizon = 15
SPECIFICATION Spec
INVARIANTS TypeOK ShortWasShort LongWasLong
PROPERTIES EventOrder LongComes
CHECK_DEADLOCK TRUE
