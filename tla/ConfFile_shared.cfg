CONSTANTS
    p1 = p1
    p2 = p2
    a = a
    b = b
    Proc = {p1, p2}
    Name = {"config"}
    Dflt = "config"
    Sym = {a, b}
    Val = {0, 1}
    DefaultVal = 0
    Written <- MC_Written
    Needs <- MC_Needs
    MenuOrder <- MC_MenuOrder
    Overwrite = FALSE
    Defconfig <- MC_NoDefconfig
    Mconf = {p1}
    MaxSignals = 1
    Faults = {"aside"}
SPECIFICATION Spec
INVARIANTS
    LastSaveKept
    FilesAreWhole
    UnchangedMeansSynced
PROPERTIES
    AtomicSave
