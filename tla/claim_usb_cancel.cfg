\* The error a session reports when the coordinator cancels the transport under a read.
CONSTANTS
    Transfers = 2
    Capacity = 2
    Packets <- MCPackets
    MaxPackets = 2
    MaxSent = 2
    AttachTries = 2
    Faults = {"detach", "attach", "setup", "status", "short"}
SPECIFICATION Spec
INVARIANTS
    AccessMeansDevice
