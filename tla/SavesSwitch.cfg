CONSTANTS
    Sessions = {s1}
    Names = {n1, n2}
    NoName = NoName
    MaxOpens = 2
    MaxChanges = 1
SPECIFICATION Spec
PROPERTIES
    ClosesSaved
