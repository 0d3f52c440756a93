SPECIFICATION InterfaceSpec
CONSTANTS
    MaxItems = 5
    Heights = {1, 2, 3, 5}
    Letters = {"d", "s"}
    Hot <- MC_Hot
    ListSizes = {1, 2, 4, 6}
    list_height = 3
    Keys = {"d", "s"}
    Lengths = {1, 2, 5, 7}
    Boxes = {1, 2, 3, 6}
    Sideways = 1
    Chars = {"a", "b"}
    MaxText = 4
    box_width = 2
    prompt_width = 2
    Texts <- MC_Texts
    Screens <- MC_Screens
    Menus <- MC_Menus
    PatternChars = {"a", "b", "c"}
    MaxPattern = 2
    Windows = {2, 3}
    None = None
    K <- MC_K
    Modules = "MODULES"
    Tree <- MC_Tree
    rootmenu = "root"
    MenuOrder <- MC_Order
    Files <- MC_Files
    Opts = {"normal", "prompt", "all"}
    Results <- MC_Results
    MaxSets = 1
INVARIANTS
    CursorInView
    DialogsOnScreen
    QconfListsTrue
PROPERTIES
    PlacesKept
    TextsWhole
    InputsAreLineEdit
    NconfFinds
    NconfSearchEnds
