\* A console command with every failure of its environment.
CONSTANTS
    Mode = "console"
    Chunks <- MCChunks
    MaxTx = 2
    MaxRx = 2
    RxIdleTimeout = 1
    DrainTimeout = 1
    Faults = {"input", "output", "transport", "drain", "observer", "spawn", "panic", "cancel"}
SPECIFICATION CommandSpec
INVARIANTS
    IInv CommandInv ExitMatchesLog SignalIsRemembered
