\* Two profiles, each with a file or without.  Three failed steps and two
\* crashes reach a run that fails twice, once on its way back, and a launch
\* that fails over it, and one edit tells an older text from a newer.
CONSTANTS
    Profiles = {p1, p2}
    Catalog = Catalog
    Loadouts = Loadouts
    NoFile = NoFile
    NoMove = NoMove
    MaxChanges = 1
    MaxFaults = 3
    MaxCrashes = 2
SPECIFICATION FairSpec
INVARIANTS
    LoadoutModeWhole
PROPERTIES
    Implements
    CopiesComeFirst
    AddedTaken
    Finishes
