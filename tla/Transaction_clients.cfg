\* Two Transact calls, one of whose Txns escapes, and an explicit handle
\* compete for two fd numbers; the kernel may answer EBUSY forever.
SPECIFICATION FairSpec
CONSTANTS
    Closures = {a, b}
    Explicit = {e}
    Names = {x, y}
    Late = {a}
    FDs = {3, 4}
    CommitRetries = 2
INVARIANTS
    AllOrNothing
    NothingLeftOpen
    IInv
PROPERTIES
    ClosesOnlyItsOwn
    TransactReturns
CHECK_DEADLOCK FALSE
