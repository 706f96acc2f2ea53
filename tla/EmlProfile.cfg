SPECIFICATION Spec
CONSTANTS
    TagBits = 2
    NumSlots = 4
    Trees <- MCTrees
    Depths = {0, 1, 2}
    Hash <- ExprHash
    Word = 8
    RateStep = 1
    RateMax = 2
    HotRate = 1
    HotThreshold = 1
    Cycles = {3}
    MaxCalls = 8
INVARIANTS NeverFull StatsAccount
PROPERTIES ImplementsProfile
