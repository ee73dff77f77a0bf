\* Machine\Generic may appear while the ancestors are tried.
SPECIFICATION Spec
CONSTANTS
    Types <- MCOneType
    Tiers = {"standard"}
    Volatile = {"Generic", "Events"}
    Refusable = {}
    CacheMax = 1
    MaxChanges = 4
PROPERTIES
    DecisionFresh
