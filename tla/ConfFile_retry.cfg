CONSTANTS
    p1 = p1
    p2 = p2
    a = a
    b = b
    Proc = {p1}
    Name = {"config"}
    Dflt = "config"
    Sym = {a, b}
    Val = {0, 1}
    DefaultVal = 0
    Written <- MC_Written
    Needs <- MC_Needs
    MenuOrder <- MC_MenuOrder
    Overwrite = FALSE
    Defconfig <- MC_NoDefconfig
    Mconf = {}
    MaxSignals = 0
    Faults = {"install"}
SPECIFICATION Spec
INVARIANTS
    FilesAreWhole
