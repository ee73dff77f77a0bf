\* Three events of up to two units lap a buffer of two; any may be corrupt.
SPECIFICATION FairSpec
CONSTANTS
    Cap = 2
    Sizes = {1, 2}
    Forms = {"good", "bad"}
    Garbage <- MCGarbage
    MaxSeq = 3
INVARIANTS
    NeverTorn
    LossAccounting
    IInv
PROPERTIES
    ImplementsStream
    TimeoutReturns
CHECK_DEADLOCK FALSE
