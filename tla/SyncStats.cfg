SPECIFICATION Spec
CONSTANTS
    a = a
    b = b
    NoFile = NoFile
    Clients <- Two
    Importers <- B
    Finders <- A
    MaxTestcases = 1
    MaxStats = 2
    MaxClock = 0
    MaxCrashes = 1
INVARIANTS
    PanicsOnlyOnEventLocks
    StatsComplete
CHECK_DEADLOCK FALSE
