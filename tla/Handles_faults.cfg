\* Two goroutines compete for three descriptors and two mappings; AttachAll
\* needs two of each.
SPECIFICATION FairSpec
CONSTANTS
    Goroutines = {g1, g2}
    NSlots = 2
    NFds = 3
    NMaps = 2
    NCpus = 2
    MaxSignals = 1
INVARIANTS
    IInv
    NoLeak
    HeldIsOwn
PROPERTY AttachReturns
CHECK_DEADLOCK FALSE
