\* Events comes and goes, Generic stays; the watch on Events may be refused.
SPECIFICATION Spec
CONSTANTS
    Types <- MCTypes
    Tiers = {"essential", "verbose"}
    Volatile = {"Events"}
    Refusable = {"root"}
    CacheMax = 1
    MaxChanges = 4
INVARIANTS
    IInv
    CacheFresh
    WatchCovers
PROPERTIES
    DecisionFresh
