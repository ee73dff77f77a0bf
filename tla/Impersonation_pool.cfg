\* Two goroutines over three threads, nested closures, one failed revert each.
SPECIFICATION Spec
CONSTANTS
    Goroutines = {g1, g2}
    Threads = {t1, t2, t3}
    Tokens = {k1, k2}
    MaxDepth = 2
    MaxFailures = 1
SYMMETRY MCSymmetry
INVARIANTS
    PoolClean
    InnermostEffective
    IInv
CHECK_DEADLOCK FALSE
