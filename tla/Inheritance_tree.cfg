\* A chain of four; two descriptors are set, anywhere, among the re-inheritances.
SPECIFICATION Spec
CONSTANTS
    Nodes <- MCNodes
    Root = "top"
    Parent <- MCParent
    Depth <- MCDepth
    Containers <- MCContainers
    Bytes <- MCBytes
    Inputs <- MCInputs
    MaxACEs = 2
    MaxSets = 2
INVARIANTS
    IInv
    Converged
    StripForgotten
PROPERTIES
    NeverOpensUp
    OnlyInheritedChange
CHECK_DEADLOCK FALSE
