CONSTANTS
    Commands = {c1, c2}
    NoTask = NoTask
    MaxLinks = 2
    MaxOps = 2
    Tries = 1
    Ops = {"connect", "disconnect", "close", "take"}
SPECIFICATION FairSpec
INVARIANTS
    NoStrayLink
    ClosedIsDown
PROPERTIES
    WorkEnds
