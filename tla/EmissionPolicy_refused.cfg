\* Anything may change and any watch may be refused.
SPECIFICATION Spec
CONSTANTS
    Types <- MCOneType
    Tiers = {"standard"}
    Volatile = {"Generic", "Events", "access"}
    Refusable = {"root", "ancestor"}
    CacheMax = 1
    MaxChanges = 4
INVARIANTS
    HandlesOwned
