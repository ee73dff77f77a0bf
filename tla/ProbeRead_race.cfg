\* A registry read and conditional write, and a mount policy get-modify-set,
\* while the object changes up to three times.
SPECIFICATION Spec
CONSTANTS
    Readers = {r}
    Probers = {p}
    Mounters = {m}
    Contents <- MCContents
    Hint = 1
    MaxProbeRetries = 3
    MaxChanges = 3
INVARIANTS
    Whole
    ErangeIsReal
    IInv
PROPERTIES
    NoLostUpdate
CHECK_DEADLOCK FALSE
