CONSTANTS
    Commands = {c1}
    NoTask = NoTask
    MaxLinks = 3
    MaxOps = 2
    Tries = 2
    Ops = {"connect", "disconnect", "close", "cancel", "take"}
SPECIFICATION Spec
INVARIANTS
    NoOrphanSeries
    StaysDown
    InSessionAgrees
    OneSocket
PROPERTIES
    RingsForRedial
