\* A caller that cancels while its reader blocks.
CONSTANTS
    Mode = "stream"
    Chunks <- MCChunks
    MaxTx = 1
    MaxRx = 1
    RxIdleTimeout = 1
    DrainTimeout = 1
    Faults = {"cancel"}
SPECIFICATION BlockedReaderSpec
PROPERTIES
    ShutdownIsBounded
