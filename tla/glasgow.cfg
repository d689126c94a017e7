\* A session on a Glasgow with every failure of its management pipe.
CONSTANTS
    Period = 2
    Ops <- GlasgowOps
    Results <- GlasgowResults
    MaxCommands = 9
    MaxFailures = 2
    MaxPolls = 1
    MaxCount = 1
    MaxTx = 1
    IdleBit = 2
    Faults = {"write", "late", "refuse", "usb"}
SPECIFICATION FairSpec
INVARIANTS
    SetupInv AcceptedIsOwn ReadyMeansConfigured SupplyOffAtEnd  CountersAreSinceOpen
PROPERTIES
    SetupEnds
