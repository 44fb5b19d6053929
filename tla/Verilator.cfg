CONSTANTS
    Size = 2
    Designs <- MCDesigns
    MaxCount = 1
    MaxKept = 3
    NoReport = NoReport
    Unreadable = Unreadable
SPECIFICATION FairSpec
INVARIANTS
    KeptForItsOwnCounts
    NotTheSameAgain
PROPERTIES
    ExecutionsEnd
CHECK_DEADLOCK FALSE
