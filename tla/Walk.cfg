SPECIFICATION Spec
CONSTANTS
    Rooms = {1, 2, 3}
    Dirs = {"n", "s"}
    Exit <- MCExit
    Tiled = {2}
    Plans <- MCPlans
    PaceFull = TRUE
    Walks = 3
    Typings = 1
    Mischiefs = 1
INVARIANTS TypeOK WaitsForLanding OneStep RestThere
PROPERTIES RouteKept NoWalkHangs
CHECK_DEADLOCK FALSE
