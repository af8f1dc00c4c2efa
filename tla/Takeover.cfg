\* Two sessions on one game and two characters, two links that you open (a
\* redial opens more) and four picks at the account menu.
CONSTANTS
    Sessions = {s1, s2}
    Characters = {c1, c2}
    Nobody = Nobody
    NoSession = NoSession
    MaxConnects = 2
    MaxPicks = 4
SYMMETRY Symmetry
SPECIFICATION Spec
INVARIANTS
    NoTryOfTaken
    DeclinesTheTaken
PROPERTIES
    TakenStaysDown
CHECK_DEADLOCK FALSE
