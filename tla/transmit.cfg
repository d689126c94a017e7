\* Two clones of a port over a queue of two transfers that may fail.
CONSTANTS
    Clones = {a, b}
    BufferSize = 2
    Transfers = 2
    FifoDepth = 2
    Sizes = {1, 3}
    MaxCalls = 4
    Faults = {"transfer", "control"}
SPECIFICATION FairSpec
INVARIANTS
    WriterInv BytesInOrder DrainCovers LossIsReported
PROPERTIES
    CallsReturn SubmittedLeaves
