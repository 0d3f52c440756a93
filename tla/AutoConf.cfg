CONSTANTS
    Sym = {s1, s2}
    Val = {n, y, m}
    No = n
    None = None
    MaxEdits = 2
    MaxFailures = 2
CHECK_DEADLOCK FALSE
SPECIFICATION FairSpec
INVARIANTS
    AutoConfMarksCompletion
    NoMissedRebuild
PROPERTIES
    NoNeedlessRebuild
    BuildCatchesUp
