SPECIFICATION FairSpec
CONSTANTS
    a = a
    b = b
    NoFile = NoFile
    Clients <- Two
    Importers <- B
    Finders <- A
    MaxTestcases = 2
    MaxStats = 0
    MaxClock = 2
    MaxCrashes = 1
INVARIANTS
    TypeOK
    PublishedWhole
    NoReimport
PROPERTIES
    ImplementsExchange
    ScansEnd
CHECK_DEADLOCK FALSE
