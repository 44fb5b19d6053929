SPECIFICATION Spec
CONSTANTS
    a = a
    b = b
    NoFile = NoFile
    Clients <- A
    MaxTestcases = 0
    MaxStats = 2
    MaxClock = 1
    MaxEvents = 2
    MaxCrashes = 0
INVARIANT BrokerOutlivesClients
CHECK_DEADLOCK FALSE
