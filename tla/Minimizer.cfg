SPECIFICATION Spec
CONSTANTS
    cond = cond
    Metrics <- Condition
    Minimized = cond
    Bits = {4, 5, 6, 7}
    Inputs <- Maps
    MaxCorpus = 4
    WordBits = 3
    Period = 1
    Replaces = TRUE
INVARIANTS
    TypeOK
    FavoredCoverTheMaps
CHECK_DEADLOCK FALSE
