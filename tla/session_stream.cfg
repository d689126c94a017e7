\* A stream session with every failure of its environment but a panic.
CONSTANTS
    Mode = "stream"
    Chunks <- MCChunks
    MaxTx = 2
    MaxRx = 2
    RxIdleTimeout = 1
    DrainTimeout = 1
    Faults = {"input", "output", "transport", "drain", "observer", "spawn", "cancel"}
SPECIFICATION FairSpec
INVARIANTS
    Conservation SuccessIsComplete ErrorsSurface NormalStopIsDrained
PROPERTIES
    ContractSpec Terminates
