SPECIFICATION Spec
CONSTANTS
    Rooms = {1, 2, 3}
    Dirs = {"n", "s"}
    Exit <- MCExit
    Tiled = {2}
    Plans <- MCPlans
    PaceFull = TRUE
    Walks = 2
    Typings = 1
    Mischiefs = 0
PROPERTIES RestFirst
CHECK_DEADLOCK FALSE
