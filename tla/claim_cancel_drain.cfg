\* A session with a responsive caller that cancels it.
CONSTANTS
    Mode = "stream"
    Chunks <- MCChunks
    MaxTx = 1
    MaxRx = 1
    RxIdleTimeout = 1
    DrainTimeout = 1
    Faults = {"cancel"}
SPECIFICATION Spec
INVARIANTS
    CancellationDrains
