\* A session on the direct-USB backend with every failure of the USB stack.
CONSTANTS
    Transfers = 2
    Capacity = 2
    Packets <- MCPackets
    MaxPackets = 2
    MaxSent = 2
    AttachTries = 2
    Faults = {"detach", "attach", "setup", "status", "short"}
SPECIFICATION FairSpec
INVARIANTS
    PortInv BytesInOrder CountersAreEdges DriverRestored
PROPERTIES
    CancelEndsRead
