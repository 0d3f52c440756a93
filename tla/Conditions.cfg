CONSTANTS
    Bools = {"A"}
    Tristates = {"T", "U"}
    MaxDepth = 5
    First <- MC_First
    Second <- MC_Second
    Above = "T"
SPECIFICATION Spec
INVARIANTS
    TypeOK
    MeaningKept
    SubmenuDepends
PROPERTIES
    LoopShrinks
