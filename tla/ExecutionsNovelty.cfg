SPECIFICATION Spec
CONSTANTS
    line = line
    tgl = tgl
    NoReport = NoReport
    Torn = Torn
    Metrics <- OneMetric
    Minimized = line
    Bits = {1, 2}
    Inputs <- Maps
    Imported = {}
    MaxCorpus = 2
    Executors = {"command"}
    MaxStarts = 1
    MaxOrphans = 1
INVARIANTS
    OnlyNovelInputsAreKept
CHECK_DEADLOCK FALSE
