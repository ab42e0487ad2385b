CONSTANTS
    Apps = {a1, a2}
    Roots = {p, q}
    Saved = {p}
    NoRoot = NoRoot
    NoProject = NoProject
    NoWriter = NoWriter
    MaxEdits = 2
    MaxOpens = 2
    MaxSaves = 2
SPECIFICATION FairSpec
INVARIANTS
    CleanIsSaved
PROPERTIES
    SingleWriterRegister
    SaveEnds
CHECK_DEADLOCK FALSE
