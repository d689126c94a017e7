\* A setup that fails between the two commands of the profile.
CONSTANTS
    Period = 2
    Ops <- GlasgowOps
    Results <- GlasgowResults
    MaxCommands = 9
    MaxFailures = 2
    MaxPolls = 1
    MaxCount = 1
    MaxTx = 1
    IdleBit = 2
    Faults = {"refuse"}
SPECIFICATION Spec
INVARIANTS
    SetupFailureDisablesSupply
