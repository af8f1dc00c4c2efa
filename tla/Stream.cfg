CONSTANTS
    Words = {"kill", "look"}
    Shorts = {"n"}
    Burst = 1
    Runaway = 2
    RepeatStop = 3
    Paces = {1, 2}
    Second = 2
    Offers = 4
    Typings = 1
    MaxIdle = 3
SPECIFICATION Spec
INVARIANTS
    TypeOK
    InOrder
    LinesCounted
    PaceKept
    NeverPastStop
PROPERTIES
    Drains
CHECK_DEADLOCK FALSE
