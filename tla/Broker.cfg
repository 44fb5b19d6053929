SPECIFICATION FairSpec
CONSTANTS
    a = a
    b = b
    NoFile = NoFile
    Clients <- A
    MaxTestcases = 2
    MaxStats = 2
    MaxClock = 2
    MaxEvents = 2
    MaxCrashes = 1
INVARIANTS
    OnlyTheNewestIsHandledAgain
    PublishedNeverKillsTheBroker
PROPERTIES
    BrokerHandlesWhatIsDue
    BrokerScansEnd
    LocksAreReleased
    MonitorSettlesOnNewest
CHECK_DEADLOCK FALSE
