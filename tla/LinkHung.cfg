CONSTANTS
    Commands = {c1, c2}
    NoTask = NoTask
    MaxLinks = 1
    MaxOps = 2
    Tries = 1
    Ops = {"connect", "disconnect"}
SPECIFICATION Spec
INVARIANTS
    StaysDown
