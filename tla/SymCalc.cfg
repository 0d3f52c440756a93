CONSTANTS
    Sym = {"MODULES", "A", "B", "D", "E"}
    Val = {0, 1, 2}
    Default = 0
    Unset = Unset
    Modules = "MODULES"
    Type <- MC_Type
    Looks = {"A", "B"}
    VisDeps <- MC_VisDeps
    ValDeps <- MC_ValDeps
    Value <- MC_Value
    MaxDepth = 6
CHECK_DEADLOCK FALSE
SPECIFICATION FairSpec
INVARIANTS
    Coherent
PROPERTIES
    CallsReturn
