CONSTANTS
    Options = {"ECHO", "GMCP", "NAWS", "TTYPE"}
    Starts = 2
    Sizes = {80, 120}
    Resizes = 1
SPECIFICATION Spec
INVARIANTS
    SidesAgree
    GameTold
PROPERTIES
    Ends
CHECK_DEADLOCK FALSE
