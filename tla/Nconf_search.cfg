SPECIFICATION Spec
CONSTANTS
    Menus <- MC_Menus
    PatternChars = {"a", "c"}
    MaxPattern = 1
    Windows = {2}
PROPERTIES
    SearchEnds
