SPECIFICATION ChipyardSpec
CONSTANTS
    Coverable <- OneTwoOne
    Databases <- SomeDatabases
    MaxCorpus = 2
    Programs <- SomePrograms
    Instructions = {"addi", "lw", "beq", "sw"}
    Messages = {"warning", "finish"}
    Writers = {"addi", "lw", "sw"}
    Rooms = {3, 32}
INVARIANTS
    ObservedIsTheDatabase
    HistoryIsTheReads
    RatioIsOfTheHistory
    OnlyNewBitsAreKept
    TracesAreOfTheProgram
PROPERTY ExecutionsEnd
CHECK_DEADLOCK FALSE
