SPECIFICATION Spec
CONSTANTS
    a = a
    b = b
    NoFile = NoFile
    Clients <- Two
    Importers <- B
    Finders <- A
    MaxTestcases = 1
    MaxStats = 0
    MaxClock = 1
    MaxCrashes = 0
INVARIANT NothingIsSkipped
CHECK_DEADLOCK FALSE
