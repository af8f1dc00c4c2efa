SPECIFICATION Spec
CONSTANTS
    Lines = 3
    Dotted = {2}
    Kinds = {"read", "send", "post"}
    MaxYours = 1
    MaxChats = 1
    MaxOthers = 1
    MaxAuto = 1
INVARIANTS
    TypeOK
    LandsWhereMeant
    ResultTrue
PROPERTIES
    JobsEnd
CHECK_DEADLOCK FALSE
