SPECIFICATION Spec
CONSTANTS
    K <- AskKconfig
    Modules = "MODULES"
    None = None
    Missing = Missing
    MenuOrder <- AskOrder
    AllNoConfigY <- NoneSet
    Tree <- MC_Tree
    rootmenu = "root"
    HashOrders <- BothWays
    Files <- MC_Files
    Defconfigs <- MC_Defconfigs
    Envs <- MC_Envs
INVARIANTS
    TypeOK
    Coherent
    EnterAnswers
PROPERTIES
    RunEnds
    Settled
    OldKept
    RoundTrip
    DefconfigKept
    AllAnswered
CHECK_DEADLOCK FALSE
