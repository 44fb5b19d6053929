SPECIFICATION EncodedSpec
CONSTANTS
    Size <- Sizes
    Reach <- Reaches
    HalfI16 = 32768
    BaseAddress = 16
    Programs = {}
    MaxEdits = 0
    Known <- KnownKinds
    Built <- BuiltWords
    Seeds <- SomeSeeds
    MaxSize = 10
    Iterations = {2}
    MaxBranches = 2
    MaxRounds = 2
INVARIANTS
    SizeIsKept
    PanicsOnlyOnSeeds
    BranchesOfTheInputAreKept
    EveryBuiltWordIsReadAgain
    ReadersDivideAlike
    BranchesAreWrittenAsTheyWere
    SafeIfAndOnlyIfExact
CONSTRAINT OneBranchLater
CHECK_DEADLOCK FALSE
