SPECIFICATION FairSpec
CONSTANTS
    line = line
    tgl = tgl
    NoReport = NoReport
    Torn = Torn
    Metrics <- LineAndToggle
    Minimized = line
    Bits = {1, 2, 3}
    Inputs <- SomeInputs
    Imported <- SomeInputs
    MaxCorpus = 3
    Executors = {"command", "inProcess"}
    MaxStarts = 2
    MaxOrphans = 1
INVARIANTS
    TypeOK
    HistoryIsTheCorpus
    SeenIsTheInputs
    OnlyNovelIsKept
PROPERTIES
    ReportsNeverShrink
    ExecutionsEnd
CHECK_DEADLOCK FALSE
