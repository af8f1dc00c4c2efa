\* Two sessions, two profiles and three opens: one profile closes and opens
\* anew while a step of either session, or a save, still means the old one.
CONSTANTS
    Sessions = {s1, s2}
    Names = {n1, n2}
    NoName = NoName
    MaxOpens = 3
    MaxChanges = 1
SPECIFICATION Spec
SYMMETRY Symmetry
INVARIANTS
    OnePerName
    NoSaveOfClosed
    SharedAgrees
    EditsCovered
PROPERTIES
    LinesLandOpen
