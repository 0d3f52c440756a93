CONSTANTS
    Sym = {"A", "B", "CH", "X", "Z"}
    None = "none"
    Choice <- MC_Choice
    Trees <- MC_Trees
CHECK_DEADLOCK FALSE
SPECIFICATION FairSpec
INVARIANTS
    AcceptedIsAcyclic
    ReportedIsCyclic
PROPERTIES
    CheckEnds
