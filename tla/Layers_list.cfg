\* One client lists while two write: three layers, two precedences.
SPECIFICATION Spec
CONSTANTS
    Names = {a, b}
    Precedences = {"0", "1"}
    ByHand <- MCByHand
    Listers = {l}
    Writers = {v, w}
    MaxOps = 2
SYMMETRY MCSymmetry
INVARIANTS
    EnumerationExact
    FieldsCurrent
    ListFailsForCause
CHECK_DEADLOCK FALSE
