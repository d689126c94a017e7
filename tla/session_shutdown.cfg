\* Shutdown of a console session when nothing is assumed of the caller's reader
\* and writer, nor of the transport before its cancel.
CONSTANTS
    Mode = "console"
    Chunks <- MCChunks
    MaxTx = 2
    MaxRx = 1
    RxIdleTimeout = 1
    DrainTimeout = 1
    Faults = {"cancel", "transport", "observer", "input", "output", "panic"}
SPECIFICATION FairSpec
PROPERTIES
    ShutdownWaitsOnlyForCaller
