\* Two cables and another device on two ports; two clones of the opened port.
CONSTANTS
    c1 = c1  c2 = c2  other = other  ttyUSB0 = ttyUSB0  ttyUSB1 = ttyUSB1  rx = rx  tx = tx
    Cables <- MCCables
    Foreign <- MCForeign
    Nodes <- MCNodes
    Linked <- MCLinked
    Clones <- MCClones
    Divisors <- MCDivisors
    Rates = {115200, 10000000}
    QueueSize = 1
    MaxBytes = 2
    MaxPlugs = 2
    Faults = {"open", "io"}
SPECIFICATION FairSpec
INVARIANTS
    VcpInv DrainCovers 
PROPERTIES
    OpensSelected CancelQuiesces CallsReturn
