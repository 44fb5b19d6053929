SPECIFICATION Spec
CONSTANTS
    Size <- Sizes
    Reach <- Reaches
    HalfI16 = 8
    BaseAddress = 16
    Programs <- SomePrograms
    MaxEdits = 2
INVARIANTS
    LookupsAreCurrent
    BranchesLeadToTheirTargets
    PanicsOnlyForTheRemoved
CHECK_DEADLOCK FALSE
