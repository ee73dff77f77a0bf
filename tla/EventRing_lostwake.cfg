\* Read against a producer that may fall silent.
SPECIFICATION FairSpec
CONSTANTS
    Cap = 2
    Sizes = {1}
    Forms = {"good"}
    Garbage <- MCGarbage
    MaxSeq = 2
PROPERTY ReadReturns
CHECK_DEADLOCK FALSE
